----------------------------- MODULE MountProofs -----------------------------
(***************************************************************************)
(* Theorems about the mount: the builds that a turn's commit may warm      *)
(* (WarmBuild), the buffered writes of the FUSE adapter (FuseWrites), and  *)
(* the layered view of a turn (ViewVfs), for every set of turns, callers,  *)
(* names, contents and base trees, paths of any depth, and any number of   *)
(* operations.                                                             *)
(***************************************************************************)
EXTENDS WarmBuild, FuseWrites, ViewVfs, SequenceTheorems, TLAPS

\* The phases in which a turn holds its build directory, and those in which it
\* has its view.
Holding == {"taken", "marked", "running", "removing", "renaming"}
Viewing == {"taken", "marked", "running"}

\* A turn's directory is the only one at its path, none is there when it has been
\* handed on, and a turn that removes the warm directory has one open.
Owned ==
  /\ \A t \in Turn : phase[t] \in Holding => dir[t] \in Dir /\ at[dir[t]] = t
  /\ \A d \in Dir, t \in Turn : at[d] = t /\ phase[t] \in Holding => d = dir[t]
  /\ \A d \in Dir, t \in Turn : at[d] = t => phase[t] # "handed"
  /\ \A t \in Turn : phase[t] = "removing" => removing[t] \in Dir

\* Nothing is in the directory of a turn that has not begun.
Fresh ==
  \A t \in Turn : phase[t] = "idle" =>
    at[t] = None /\ built[t] = NothingBuilt /\ manifest[t] = None

\* A view holds its base but for the files it changed.
ViewsOfBase ==
  \A t \in Turn : phase[t] \in Viewing =>
    /\ base[t] \in Tree /\ view[t] \in Tree
    /\ phase[t] = "taken" => view[t] = base[t]
    /\ \A f \in File \ changed[t] : view[t][f] = base[t][f]

\* A directory's manifest tells which output may be of other contents than its
\* base's.
Tells(d) ==
  manifest[d] # None =>
    \A f \in File :
      \/ built[d][f] \in {None, manifest[d].base[f]}
      \/ f \in manifest[d].changed
      \/ f \in skipped[d]

\* It does wherever the manifest will be read: in the warm directory, and in one
\* just taken or about to be handed on.
ManifestsTell ==
  \A d \in Dir :
    \/ at[d] = "warm"
    \/ \E t \in Turn : at[d] = t /\ phase[t] \in {"taken", "removing", "renaming"}
    => Tells(d)

\* CurrentUnlessSkipped, from the moment the turn knows what is dirty.
Current ==
  \A t \in Turn, f \in File :
    phase[t] \in {"marked", "running"} /\ f \notin newer[t] =>
      built[dir[t]][f] \in {None, view[t][f]} \/ f \in skipped[dir[t]]

Inv ==
  /\ TypeOK
  /\ Owned
  /\ NothingLeaks
  /\ Fresh
  /\ ViewsOfBase
  /\ ManifestsTell
  /\ Current

-----------------------------------------------------------------------------
USE DEF Dir, Starting, HandingOver, Recorded, Phases

\* The daemon starts with no directory and no view: the invariant holds.
LEMMA InitInv == Init => Inv
<1> SUFFICES ASSUME Init PROVE Inv
  OBVIOUS
<1> USE DEF Init
<1>1. TypeOK
  <2>1. head \in Tree /\ commits \in 0..MaxCommits /\ crashes \in 0..MaxCrashes /\ up \in BOOLEAN
    BY BoundsAssumption, NoneAssumption DEF Tree, NothingBuilt, WarmDirs
  <2>2. phase \in [Turn -> Phases]
    BY BoundsAssumption, NoneAssumption DEF Tree, NothingBuilt, WarmDirs
  <2>3. base \in [Turn -> Tree \union {None}] /\ view \in [Turn -> Tree \union {None}]
    BY BoundsAssumption, NoneAssumption DEF Tree, NothingBuilt, WarmDirs
  <2>4. changed \in [Turn -> SUBSET File] /\ newer \in [Turn -> SUBSET File]
    BY BoundsAssumption, NoneAssumption DEF Tree, NothingBuilt, WarmDirs
  <2>5. dir \in [Turn -> Dir \union {None}] /\ removing \in [Turn -> Dir \union {None}]
    BY BoundsAssumption, NoneAssumption DEF Tree, NothingBuilt, WarmDirs
  <2>6. at \in [Dir -> Turn \union {"warm", None}]
    BY BoundsAssumption, NoneAssumption DEF Tree, NothingBuilt, WarmDirs
  <2>7. built \in [Dir -> [File -> Content \union {None}]]
    BY BoundsAssumption, NoneAssumption DEF Tree, NothingBuilt, WarmDirs
  <2>8. manifest \in [Dir -> Manifest \union {None}] /\ skipped \in [Dir -> SUBSET File]
    BY BoundsAssumption, NoneAssumption DEF Tree, NothingBuilt, WarmDirs
  <2>9. \A d, e \in WarmDirs : d = e
    BY BoundsAssumption, NoneAssumption DEF Tree, NothingBuilt, WarmDirs
  <2>. QED
    BY <2>1, <2>2, <2>3, <2>4, <2>5, <2>6, <2>7, <2>8, <2>9 DEF TypeOK
<1>2. Owned
  BY NoneAssumption DEF Owned, Holding
<1>3. NothingLeaks
  BY NoneAssumption DEF NothingLeaks
<1>7. Fresh
  BY DEF Fresh
<1>4. ViewsOfBase
  BY DEF ViewsOfBase, Viewing
<1>5. ManifestsTell
  BY DEF ManifestsTell, Tells
<1>6. Current
  BY DEF Current
<1>. QED
  BY <1>1, <1>2, <1>3, <1>4, <1>5, <1>6, <1>7 DEF Inv

\* Every step keeps the types, and one warm directory at most.
LEMMA TypeStep == Inv /\ [Next]_vars => TypeOK'
<1> SUFFICES ASSUME TypeOK, Owned, ViewsOfBase, [Next]_vars PROVE TypeOK'
  BY DEF Inv
<1> USE NoneAssumption, WarmAssumption, BoundsAssumption DEF TypeOK, repoVars, viewVars, dirVars
<1>1. ASSUME NEW f \in File, NEW c \in Content, Commit(f, c) PROVE TypeOK'
  BY <1>1 DEF Commit, Tree, WarmDirs
<1>2. CASE Crash
  <2>0. crashes + 1 \in 0..MaxCrashes
    BY <1>2 DEF Crash
  <2>1. (head \in Tree /\ commits \in 0..MaxCommits /\ crashes \in 0..MaxCrashes /\ up \in BOOLEAN)'
    BY <1>2, <2>0 DEF Crash
  <2>2. (phase \in [Turn -> Phases])'
    BY <1>2 DEF Crash, Close, WarmDirs
  <2>3. (base \in [Turn -> Tree \union {None}] /\ view \in [Turn -> Tree \union {None}])'
    BY <1>2 DEF Crash, Close, WarmDirs
  <2>4. (changed \in [Turn -> SUBSET File] /\ newer \in [Turn -> SUBSET File])'
    BY <1>2 DEF Crash, Close, WarmDirs
  <2>5. (dir \in [Turn -> Dir \union {None}] /\ removing \in [Turn -> Dir \union {None}])'
    BY <1>2 DEF Crash, Close, WarmDirs
  <2>6. (at \in [Dir -> Turn \union {"warm", None}])'
    BY <1>2 DEF Crash, Close, WarmDirs
  <2>7. (built \in [Dir -> [File -> Content \union {None}]])'
    BY <1>2 DEF Crash, Close, WarmDirs
  <2>8. (manifest \in [Dir -> Manifest \union {None}] /\ skipped \in [Dir -> SUBSET File])'
    BY <1>2 DEF Crash, Close, WarmDirs
  <2>9. (\A d, e \in WarmDirs : d = e)'
    BY <1>2 DEF Crash, Close, WarmDirs
  <2>. QED
    BY <2>1, <2>2, <2>3, <2>4, <2>5, <2>6, <2>7, <2>8, <2>9 DEF TypeOK
<1>3. CASE Restart
  BY <1>3 DEF Restart, WarmDirs
<1>4. ASSUME NEW t \in Turn, Sweep(t) PROVE TypeOK'
  BY <1>4 DEF Sweep, Discard, Emptied, NothingBuilt, WarmDirs
<1>5. ASSUME NEW t \in Turn, Take(t) PROVE TypeOK'
  <2>1. (head \in Tree /\ commits \in 0..MaxCommits /\ crashes \in 0..MaxCrashes /\ up \in BOOLEAN)'
    BY <1>5 DEF Take, WarmDirs
  <2>2. (phase \in [Turn -> Phases])'
    BY <1>5 DEF Take, WarmDirs
  <2>3. (base \in [Turn -> Tree \union {None}] /\ view \in [Turn -> Tree \union {None}])'
    BY <1>5 DEF Take, WarmDirs
  <2>4. (changed \in [Turn -> SUBSET File] /\ newer \in [Turn -> SUBSET File])'
    BY <1>5 DEF Take, WarmDirs
  <2>5. (dir \in [Turn -> Dir \union {None}] /\ removing \in [Turn -> Dir \union {None}])'
    BY <1>5 DEF Take, WarmDirs
  <2>6. (at \in [Dir -> Turn \union {"warm", None}])'
    BY <1>5 DEF Take, WarmDirs
  <2>7. (built \in [Dir -> [File -> Content \union {None}]])'
    BY <1>5 DEF Take, WarmDirs
  <2>8. (manifest \in [Dir -> Manifest \union {None}] /\ skipped \in [Dir -> SUBSET File])'
    BY <1>5 DEF Take, WarmDirs
  <2>9. (\A d, e \in WarmDirs : d = e)'
    BY <1>5 DEF Take, WarmDirs
  <2>. QED
    BY <2>1, <2>2, <2>3, <2>4, <2>5, <2>6, <2>7, <2>8, <2>9 DEF TypeOK
<1>6. ASSUME NEW t \in Turn, MarkDirty(t) PROVE TypeOK'
  <2>1. dir[t] \in Dir
    BY <1>6 DEF MarkDirty, Owned, Holding
  <2>. QED
  <3>1. (head \in Tree /\ commits \in 0..MaxCommits /\ crashes \in 0..MaxCrashes /\ up \in BOOLEAN)'
    BY <1>6, <2>1 DEF MarkDirty, DirtyAfter, Emptied, NothingBuilt, Manifest, WarmDirs
  <3>2. (phase \in [Turn -> Phases])'
    BY <1>6, <2>1 DEF MarkDirty, DirtyAfter, Emptied, NothingBuilt, Manifest, WarmDirs
  <3>3. (base \in [Turn -> Tree \union {None}] /\ view \in [Turn -> Tree \union {None}])'
    BY <1>6, <2>1 DEF MarkDirty, DirtyAfter, Emptied, NothingBuilt, Manifest, WarmDirs
  <3>4. (changed \in [Turn -> SUBSET File] /\ newer \in [Turn -> SUBSET File])'
    <4>1. manifest[dir[t]] # None => DirtyAfter(manifest[dir[t]], t) \in SUBSET File
      BY <2>1 DEF DirtyAfter, Manifest
    <4>2. \/ newer' = newer
          \/ /\ manifest[dir[t]] # None
             /\ newer' = [newer EXCEPT ![t] = DirtyAfter(manifest[dir[t]], t)]
      BY <1>6, Zenon DEF MarkDirty
    <4>3. changed' = changed
      BY <1>6 DEF MarkDirty
    <4>4. newer' \in [Turn -> SUBSET File]
      BY <4>1, <4>2
    <4>. QED
      BY <4>3, <4>4
  <3>5. (dir \in [Turn -> Dir \union {None}] /\ removing \in [Turn -> Dir \union {None}])'
    BY <1>6, <2>1 DEF MarkDirty, DirtyAfter, Emptied, NothingBuilt, Manifest, WarmDirs
  <3>6. (at \in [Dir -> Turn \union {"warm", None}])'
    BY <1>6, <2>1 DEF MarkDirty, DirtyAfter, Emptied, NothingBuilt, Manifest, WarmDirs
  <3>7. (built \in [Dir -> [File -> Content \union {None}]])'
    BY <1>6, <2>1 DEF MarkDirty, DirtyAfter, Emptied, NothingBuilt, Manifest, WarmDirs
  <3>8. (manifest \in [Dir -> Manifest \union {None}] /\ skipped \in [Dir -> SUBSET File])'
    BY <1>6, <2>1 DEF MarkDirty, DirtyAfter, Emptied, NothingBuilt, Manifest, WarmDirs
  <3>9. (\A d, e \in WarmDirs : d = e)'
    BY <1>6, <2>1 DEF MarkDirty, DirtyAfter, Emptied, NothingBuilt, Manifest, WarmDirs
  <3>. QED
    BY <3>1, <3>2, <3>3, <3>4, <3>5, <3>6, <3>7, <3>8, <3>9 DEF TypeOK
<1>7. ASSUME NEW t \in Turn, StartFails(t) PROVE TypeOK'
  BY <1>7 DEF StartFails, Close, WarmDirs
<1>8. ASSUME NEW t \in Turn, Record(t) PROVE TypeOK'
  BY <1>8 DEF Record, WarmDirs
<1>9. ASSUME NEW t \in Turn, MountFails(t) PROVE TypeOK'
  BY <1>9 DEF MountFails, Discard, Emptied, Close, NothingBuilt, WarmDirs
<1>10. ASSUME NEW t \in Turn, NEW f \in File, NEW c \in Content, Write(t, f, c) PROVE TypeOK'
  <2>1. view[t] \in Tree
    BY <1>10 DEF Write, ViewsOfBase, Viewing
  <2>. QED
    BY <1>10, <2>1 DEF Write, WarmDirs, Tree
<1>11. ASSUME NEW t \in Turn, NEW S \in SUBSET File, Build(t, S) PROVE TypeOK'
  <2>1. view[t] \in Tree /\ dir[t] \in Dir
    BY <1>11 DEF Build, ViewsOfBase, Viewing, Owned, Holding
  <2>. QED
    BY <1>11, <2>1 DEF Build, Recompiled, WarmDirs, Tree
<1>12. ASSUME NEW t \in Turn, PutManifest(t) PROVE TypeOK'
  <2>1. base[t] \in Tree /\ dir[t] \in Dir
    BY <1>12 DEF PutManifest, ViewsOfBase, Viewing, Owned, Holding
  <2>2. [base |-> base[t], changed |-> changed[t]] \in Manifest
    BY <2>1 DEF Manifest
  <2>3. (head \in Tree /\ commits \in 0..MaxCommits /\ crashes \in 0..MaxCrashes /\ up \in BOOLEAN)'
    BY <1>12, <2>1, <2>2 DEF PutManifest, Close, WarmDirs
  <2>4. (phase \in [Turn -> Phases])'
    BY <1>12, <2>1, <2>2 DEF PutManifest, Close, WarmDirs
  <2>5. (base \in [Turn -> Tree \union {None}] /\ view \in [Turn -> Tree \union {None}])'
    BY <1>12, <2>1, <2>2 DEF PutManifest, Close, WarmDirs
  <2>6. (changed \in [Turn -> SUBSET File] /\ newer \in [Turn -> SUBSET File])'
    BY <1>12, <2>1, <2>2 DEF PutManifest, Close, WarmDirs
  <2>7. (dir \in [Turn -> Dir \union {None}] /\ removing \in [Turn -> Dir \union {None}])'
    <3>1. removing' = removing \/ \E d \in Dir : removing' = [removing EXCEPT ![t] = d]
      BY <1>12, Zenon DEF PutManifest, WarmDirs
    <3>. QED
      BY <1>12, <3>1 DEF PutManifest
  <2>8. (at \in [Dir -> Turn \union {"warm", None}])'
    BY <1>12, <2>1, <2>2 DEF PutManifest, Close, WarmDirs
  <2>9. (built \in [Dir -> [File -> Content \union {None}]])'
    BY <1>12, <2>1, <2>2 DEF PutManifest, Close, WarmDirs
  <2>10. (manifest \in [Dir -> Manifest \union {None}] /\ skipped \in [Dir -> SUBSET File])'
    BY <1>12, <2>1, <2>2 DEF PutManifest, Close, WarmDirs
  <2>11. (\A d, e \in WarmDirs : d = e)'
    BY <1>12, <2>1, <2>2 DEF PutManifest, Close, WarmDirs
  <2>. QED
    BY <2>3, <2>4, <2>5, <2>6, <2>7, <2>8, <2>9, <2>10, <2>11 DEF TypeOK
<1>13. ASSUME NEW t \in Turn, NEW f \in File, RemoveOutput(t, f) PROVE TypeOK'
  <2>1. removing[t] \in Dir
    BY <1>13 DEF RemoveOutput, Owned
  <2>. QED
    BY <1>13, <2>1 DEF RemoveOutput, WarmDirs
<1>14. ASSUME NEW t \in Turn, RemoveManifest(t) PROVE TypeOK'
  <2>1. removing[t] \in Dir
    BY <1>14 DEF RemoveManifest, Owned
  <2>. QED
    BY <1>14, <2>1 DEF RemoveManifest, WarmDirs
<1>15. ASSUME NEW t \in Turn, EndRemoval(t) PROVE TypeOK'
  BY <1>15 DEF EndRemoval, WarmDirs
<1>16. ASSUME NEW t \in Turn, HandOver(t) PROVE TypeOK'
  <2>1. (head \in Tree /\ commits \in 0..MaxCommits /\ crashes \in 0..MaxCrashes /\ up \in BOOLEAN)'
    BY <1>16 DEF HandOver, Discard, Emptied, NothingBuilt, WarmDirs
  <2>2. (phase \in [Turn -> Phases])'
    BY <1>16 DEF HandOver, Discard, Emptied, NothingBuilt, WarmDirs
  <2>3. (base \in [Turn -> Tree \union {None}] /\ view \in [Turn -> Tree \union {None}])'
    BY <1>16 DEF HandOver, Discard, Emptied, NothingBuilt, WarmDirs
  <2>4. (changed \in [Turn -> SUBSET File] /\ newer \in [Turn -> SUBSET File])'
    BY <1>16 DEF HandOver, Discard, Emptied, NothingBuilt, WarmDirs
  <2>5. (dir \in [Turn -> Dir \union {None}] /\ removing \in [Turn -> Dir \union {None}])'
    BY <1>16 DEF HandOver, Discard, Emptied, NothingBuilt, WarmDirs
  <2>6. (at \in [Dir -> Turn \union {"warm", None}])'
    BY <1>16 DEF HandOver, Discard, Emptied, NothingBuilt, WarmDirs
  <2>7. (built \in [Dir -> [File -> Content \union {None}]])'
    BY <1>16 DEF HandOver, Discard, Emptied, NothingBuilt, WarmDirs
  <2>8. (manifest \in [Dir -> Manifest \union {None}] /\ skipped \in [Dir -> SUBSET File])'
    BY <1>16 DEF HandOver, Discard, Emptied, NothingBuilt, WarmDirs
  <2>9. (\A d, e \in WarmDirs : d = e)'
    BY <1>16 DEF HandOver, Discard, Emptied, NothingBuilt, WarmDirs
  <2>. QED
    BY <2>1, <2>2, <2>3, <2>4, <2>5, <2>6, <2>7, <2>8, <2>9 DEF TypeOK
<1>17. ASSUME NEW t \in Turn, RemoveRecord(t) PROVE TypeOK'
  BY <1>17 DEF RemoveRecord, WarmDirs
<1>18. CASE UNCHANGED vars
  BY <1>18 DEF vars, WarmDirs
<1>. QED
  BY <1>1, <1>2, <1>3, <1>4, <1>5, <1>6, <1>7, <1>8, <1>9, <1>10, <1>11, <1>12,
     <1>13, <1>14, <1>15, <1>16, <1>17, <1>18 DEF Next, TurnStep

\* Every step keeps each turn's directory its own.
LEMMA OwnedStep == Inv /\ [Next]_vars => Owned'
<1> SUFFICES ASSUME TypeOK, Owned, NothingLeaks, Fresh, [Next]_vars PROVE Owned'
  BY DEF Inv
<1> USE NoneAssumption, WarmAssumption DEF TypeOK, repoVars, viewVars, dirVars, Owned, Holding
<1>1. ASSUME NEW f \in File, NEW c \in Content, Commit(f, c) PROVE Owned'
  BY <1>1 DEF Commit
<1>2. CASE Crash
  BY <1>2 DEF Crash, Close
<1>3. CASE Restart
  BY <1>3 DEF Restart
<1>4. ASSUME NEW t \in Turn, Sweep(t) PROVE Owned'
  BY <1>4 DEF Sweep, Discard, Emptied
<1>5. ASSUME NEW t \in Turn, Take(t) PROVE Owned'
  <2>1. t \in Dir /\ phase[t] = "idle" /\ UNCHANGED removing
    BY <1>5 DEF Take
  <2>2. CASE \E d \in WarmDirs : /\ dir' = [dir EXCEPT ![t] = d]
                                /\ at' = [at EXCEPT ![d] = t]
                                /\ phase' = [phase EXCEPT ![t] = "taken"]
    <3>1. PICK d \in Dir : /\ at[d] = "warm"
                           /\ dir' = [dir EXCEPT ![t] = d]
                           /\ at' = [at EXCEPT ![d] = t]
                           /\ phase' = [phase EXCEPT ![t] = "taken"]
      BY <2>2 DEF WarmDirs
    <3>. QED
      BY <2>1, <3>1 DEF NothingLeaks
  <2>3. CASE /\ dir' = [dir EXCEPT ![t] = t]
             /\ at' = [at EXCEPT ![t] = t]
             /\ phase' = [phase EXCEPT ![t] = "marked"]
    <3>1. (\A d \in Dir : at[d] # t) /\ at[t] = None
      BY <2>1 DEF NothingLeaks, Fresh
    <3>2. \A u \in Turn : phase[u] \in Holding => dir[u] # t
      BY <3>1
    <3>3. (\A u \in Turn : phase[u] \in Holding => dir[u] \in Dir /\ at[dir[u]] = u)'
      BY <2>1, <2>3, <3>2
    <3>4. (\A d \in Dir, u \in Turn : at[d] = u /\ phase[u] \in Holding => d = dir[u])'
      BY <2>1, <2>3, <3>1
    <3>5. (\A d \in Dir, u \in Turn : at[d] = u => phase[u] # "handed")'
      BY <2>1, <2>3, <3>1
    <3>6. (\A u \in Turn : phase[u] = "removing" => removing[u] \in Dir)'
      BY <2>1, <2>3
    <3>. QED
      BY <3>3, <3>4, <3>5, <3>6
  <2>. QED
    BY <1>5, <2>2, <2>3, Zenon DEF Take
<1>6. ASSUME NEW t \in Turn, MarkDirty(t) PROVE Owned'
  BY <1>6 DEF MarkDirty, DirtyAfter, Emptied
<1>7. ASSUME NEW t \in Turn, StartFails(t) PROVE Owned'
  BY <1>7 DEF StartFails, Close
<1>8. ASSUME NEW t \in Turn, Record(t) PROVE Owned'
  BY <1>8 DEF Record
<1>9. ASSUME NEW t \in Turn, MountFails(t) PROVE Owned'
  BY <1>9 DEF MountFails, Discard, Emptied, Close
<1>10. ASSUME NEW t \in Turn, NEW f \in File, NEW c \in Content, Write(t, f, c) PROVE Owned'
  BY <1>10 DEF Write
<1>11. ASSUME NEW t \in Turn, NEW S \in SUBSET File, Build(t, S) PROVE Owned'
  BY <1>11 DEF Build, Recompiled
<1>12. ASSUME NEW t \in Turn, PutManifest(t) PROVE Owned'
  BY <1>12 DEF PutManifest, Close, WarmDirs
<1>13. ASSUME NEW t \in Turn, NEW f \in File, RemoveOutput(t, f) PROVE Owned'
  BY <1>13 DEF RemoveOutput
<1>14. ASSUME NEW t \in Turn, RemoveManifest(t) PROVE Owned'
  BY <1>14 DEF RemoveManifest
<1>15. ASSUME NEW t \in Turn, EndRemoval(t) PROVE Owned'
  BY <1>15 DEF EndRemoval, IsEmpty
<1>16. ASSUME NEW t \in Turn, HandOver(t) PROVE Owned'
  <2>1. dir[t] \in Dir /\ at[dir[t]] = t
    BY <1>16 DEF HandOver, Owned, Holding
  <2>2. /\ phase' = [phase EXCEPT ![t] = "handed"]
        /\ dir' = [dir EXCEPT ![t] = None]
        /\ removing' = removing
    BY <1>16 DEF HandOver
  <2>3. CASE at' = [d \in Dir |-> IF d = dir[t] THEN "warm"
                                  ELSE IF d \in WarmDirs THEN None ELSE at[d]]
    BY <1>16, <2>1, <2>2, <2>3 DEF HandOver, WarmDirs
  <2>4. CASE at' = [d \in Dir |-> IF at[d] = t THEN None ELSE at[d]]
    BY <1>16, <2>1, <2>2, <2>4 DEF HandOver
  <2>. QED
    BY <1>16, <2>3, <2>4, Zenon DEF HandOver, Discard
<1>17. ASSUME NEW t \in Turn, RemoveRecord(t) PROVE Owned'
  BY <1>17 DEF RemoveRecord
<1>18. CASE UNCHANGED vars
  BY <1>18 DEF vars
<1>. QED
  BY <1>1, <1>2, <1>3, <1>4, <1>5, <1>6, <1>7, <1>8, <1>9, <1>10, <1>11, <1>12,
     <1>13, <1>14, <1>15, <1>16, <1>17, <1>18 DEF Next, TurnStep

\* Every step leaves what is at a turn's path to a turn or a sweep to remove.
LEMMA LeakStep == Inv /\ [Next]_vars => NothingLeaks'
<1> SUFFICES ASSUME TypeOK, Owned, NothingLeaks, [Next]_vars PROVE NothingLeaks'
  BY DEF Inv
<1> USE NoneAssumption, WarmAssumption DEF TypeOK, repoVars, viewVars, dirVars, NothingLeaks
<1>1. ASSUME NEW f \in File, NEW c \in Content, Commit(f, c) PROVE NothingLeaks'
  BY <1>1 DEF Commit
<1>2. CASE Crash
  BY <1>2 DEF Crash, Close
<1>3. CASE Restart
  BY <1>3 DEF Restart
<1>4. ASSUME NEW t \in Turn, Sweep(t) PROVE NothingLeaks'
  BY <1>4 DEF Sweep, Discard, Emptied
<1>5. ASSUME NEW t \in Turn, Take(t) PROVE NothingLeaks'
  <2>1. t \in Dir /\ phase[t] = "idle" /\ UNCHANGED removing
    BY <1>5 DEF Take
  <2>2. CASE \E d \in WarmDirs : /\ dir' = [dir EXCEPT ![t] = d]
                                /\ at' = [at EXCEPT ![d] = t]
                                /\ phase' = [phase EXCEPT ![t] = "taken"]
    <3>1. PICK d \in Dir : /\ at[d] = "warm"
                           /\ dir' = [dir EXCEPT ![t] = d]
                           /\ at' = [at EXCEPT ![d] = t]
                           /\ phase' = [phase EXCEPT ![t] = "taken"]
      BY <2>2 DEF WarmDirs
    <3>. QED
      BY <2>1, <3>1
  <2>3. CASE /\ dir' = [dir EXCEPT ![t] = t]
             /\ at' = [at EXCEPT ![t] = t]
             /\ phase' = [phase EXCEPT ![t] = "marked"]
    BY <2>1, <2>3
  <2>. QED
    BY <1>5, <2>2, <2>3, Zenon DEF Take
<1>6. ASSUME NEW t \in Turn, MarkDirty(t) PROVE NothingLeaks'
  BY <1>6 DEF MarkDirty, DirtyAfter, Emptied
<1>7. ASSUME NEW t \in Turn, StartFails(t) PROVE NothingLeaks'
  BY <1>7 DEF StartFails, Close
<1>8. ASSUME NEW t \in Turn, Record(t) PROVE NothingLeaks'
  BY <1>8 DEF Record
<1>9. ASSUME NEW t \in Turn, MountFails(t) PROVE NothingLeaks'
  BY <1>9 DEF MountFails, Discard, Emptied, Close
<1>10. ASSUME NEW t \in Turn, NEW f \in File, NEW c \in Content, Write(t, f, c) PROVE NothingLeaks'
  BY <1>10 DEF Write
<1>11. ASSUME NEW t \in Turn, NEW S \in SUBSET File, Build(t, S) PROVE NothingLeaks'
  BY <1>11 DEF Build, Recompiled
<1>12. ASSUME NEW t \in Turn, PutManifest(t) PROVE NothingLeaks'
  <2>1. at' = at /\ phase[t] = "running"
    BY <1>12 DEF PutManifest
  <2>2. \E p \in {"removing", "renaming"} : phase' = [phase EXCEPT ![t] = p]
    BY <1>12, Zenon DEF PutManifest
  <2>. QED
    BY <2>1, <2>2
<1>13. ASSUME NEW t \in Turn, NEW f \in File, RemoveOutput(t, f) PROVE NothingLeaks'
  BY <1>13 DEF RemoveOutput
<1>14. ASSUME NEW t \in Turn, RemoveManifest(t) PROVE NothingLeaks'
  BY <1>14 DEF RemoveManifest
<1>15. ASSUME NEW t \in Turn, EndRemoval(t) PROVE NothingLeaks'
  BY <1>15 DEF EndRemoval, IsEmpty
<1>16. ASSUME NEW t \in Turn, HandOver(t) PROVE NothingLeaks'
  <2>1. dir[t] \in Dir /\ at[dir[t]] = t
    BY <1>16 DEF HandOver, Owned, Holding
  <2>2. /\ phase' = [phase EXCEPT ![t] = "handed"]
        /\ dir' = [dir EXCEPT ![t] = None]
        /\ removing' = removing
    BY <1>16 DEF HandOver
  <2>3. CASE at' = [d \in Dir |-> IF d = dir[t] THEN "warm"
                                  ELSE IF d \in WarmDirs THEN None ELSE at[d]]
    BY <1>16, <2>1, <2>2, <2>3 DEF HandOver, WarmDirs, Owned, Holding
  <2>4. CASE at' = [d \in Dir |-> IF at[d] = t THEN None ELSE at[d]]
    BY <1>16, <2>1, <2>2, <2>4 DEF HandOver
  <2>. QED
    BY <1>16, <2>3, <2>4, Zenon DEF HandOver, Discard
<1>17. ASSUME NEW t \in Turn, RemoveRecord(t) PROVE NothingLeaks'
  BY <1>17 DEF RemoveRecord, Owned
<1>18. CASE UNCHANGED vars
  BY <1>18 DEF vars
<1>. QED
  BY <1>1, <1>2, <1>3, <1>4, <1>5, <1>6, <1>7, <1>8, <1>9, <1>10, <1>11, <1>12,
     <1>13, <1>14, <1>15, <1>16, <1>17, <1>18 DEF Next, TurnStep

\* No step puts anything at the path of a turn that has not begun.
LEMMA FreshStep == Inv /\ [Next]_vars => Fresh'
<1> SUFFICES ASSUME TypeOK, Owned, NothingLeaks, Fresh, [Next]_vars PROVE Fresh'
  BY DEF Inv
<1> USE NoneAssumption, WarmAssumption DEF TypeOK, repoVars, viewVars, dirVars, Fresh
<1>1. ASSUME NEW f \in File, NEW c \in Content, Commit(f, c) PROVE Fresh'
  BY <1>1 DEF Commit
<1>2. CASE Crash
  BY <1>2 DEF Crash, Close
<1>3. CASE Restart
  BY <1>3 DEF Restart
<1>4. ASSUME NEW t \in Turn, Sweep(t) PROVE Fresh'
  BY <1>4 DEF Sweep, Discard, Emptied
<1>5. ASSUME NEW t \in Turn, Take(t) PROVE Fresh'
  BY <1>5 DEF Take, WarmDirs
<1>6. ASSUME NEW t \in Turn, MarkDirty(t) PROVE Fresh'
  BY <1>6 DEF MarkDirty, DirtyAfter, Emptied, Owned, Holding
<1>7. ASSUME NEW t \in Turn, StartFails(t) PROVE Fresh'
  BY <1>7 DEF StartFails, Close
<1>8. ASSUME NEW t \in Turn, Record(t) PROVE Fresh'
  BY <1>8 DEF Record
<1>9. ASSUME NEW t \in Turn, MountFails(t) PROVE Fresh'
  BY <1>9 DEF MountFails, Discard, Emptied, Close
<1>10. ASSUME NEW t \in Turn, NEW f \in File, NEW c \in Content, Write(t, f, c) PROVE Fresh'
  BY <1>10 DEF Write
<1>11. ASSUME NEW t \in Turn, NEW S \in SUBSET File, Build(t, S) PROVE Fresh'
  BY <1>11 DEF Build, Recompiled, Owned, Holding
<1>12. ASSUME NEW t \in Turn, PutManifest(t) PROVE Fresh'
  BY <1>12 DEF PutManifest, Close, Owned, Holding
<1>13. ASSUME NEW t \in Turn, NEW f \in File, RemoveOutput(t, f) PROVE Fresh'
  BY <1>13 DEF RemoveOutput, Owned, NothingBuilt
<1>14. ASSUME NEW t \in Turn, RemoveManifest(t) PROVE Fresh'
  BY <1>14 DEF RemoveManifest, Owned
<1>15. ASSUME NEW t \in Turn, EndRemoval(t) PROVE Fresh'
  BY <1>15 DEF EndRemoval, IsEmpty
<1>16. ASSUME NEW t \in Turn, HandOver(t) PROVE Fresh'
  BY <1>16 DEF HandOver, IsEmpty, Discard, Emptied, Owned, Holding, WarmDirs
<1>17. ASSUME NEW t \in Turn, RemoveRecord(t) PROVE Fresh'
  BY <1>17 DEF RemoveRecord
<1>18. CASE UNCHANGED vars
  BY <1>18 DEF vars
<1>. QED
  BY <1>1, <1>2, <1>3, <1>4, <1>5, <1>6, <1>7, <1>8, <1>9, <1>10, <1>11, <1>12,
     <1>13, <1>14, <1>15, <1>16, <1>17, <1>18 DEF Next, TurnStep

\* A view moves from its base only by a write, which marks the file changed.
LEMMA ViewsStep == Inv /\ [Next]_vars => ViewsOfBase'
<1> SUFFICES ASSUME TypeOK, Owned, ViewsOfBase, [Next]_vars PROVE ViewsOfBase'
  BY DEF Inv
<1> USE NoneAssumption, WarmAssumption DEF TypeOK, repoVars, viewVars, dirVars, ViewsOfBase, Viewing
<1>1. ASSUME NEW f \in File, NEW c \in Content, Commit(f, c) PROVE ViewsOfBase'
  BY <1>1 DEF Commit
<1>2. CASE Crash
  BY <1>2 DEF Crash, Close
<1>3. CASE Restart
  BY <1>3 DEF Restart
<1>4. ASSUME NEW t \in Turn, Sweep(t) PROVE ViewsOfBase'
  BY <1>4 DEF Sweep, Discard, Emptied
<1>5. ASSUME NEW t \in Turn, Take(t) PROVE ViewsOfBase'
  BY <1>5 DEF Take
<1>6. ASSUME NEW t \in Turn, MarkDirty(t) PROVE ViewsOfBase'
  BY <1>6 DEF MarkDirty, DirtyAfter, Emptied
<1>7. ASSUME NEW t \in Turn, StartFails(t) PROVE ViewsOfBase'
  BY <1>7 DEF StartFails, Close
<1>8. ASSUME NEW t \in Turn, Record(t) PROVE ViewsOfBase'
  BY <1>8 DEF Record
<1>9. ASSUME NEW t \in Turn, MountFails(t) PROVE ViewsOfBase'
  BY <1>9 DEF MountFails, Discard, Emptied, Close
<1>10. ASSUME NEW t \in Turn, NEW f \in File, NEW c \in Content, Write(t, f, c) PROVE ViewsOfBase'
  BY <1>10 DEF Write, Tree
<1>11. ASSUME NEW t \in Turn, NEW S \in SUBSET File, Build(t, S) PROVE ViewsOfBase'
  BY <1>11 DEF Build, Recompiled
<1>12. ASSUME NEW t \in Turn, PutManifest(t) PROVE ViewsOfBase'
  BY <1>12 DEF PutManifest, Close
<1>13. ASSUME NEW t \in Turn, NEW f \in File, RemoveOutput(t, f) PROVE ViewsOfBase'
  BY <1>13 DEF RemoveOutput
<1>14. ASSUME NEW t \in Turn, RemoveManifest(t) PROVE ViewsOfBase'
  BY <1>14 DEF RemoveManifest
<1>15. ASSUME NEW t \in Turn, EndRemoval(t) PROVE ViewsOfBase'
  BY <1>15 DEF EndRemoval, IsEmpty
<1>16. ASSUME NEW t \in Turn, HandOver(t) PROVE ViewsOfBase'
  BY <1>16 DEF HandOver, IsEmpty, Discard, Emptied
<1>17. ASSUME NEW t \in Turn, RemoveRecord(t) PROVE ViewsOfBase'
  BY <1>17 DEF RemoveRecord
<1>18. CASE UNCHANGED vars
  BY <1>18 DEF vars
<1>. QED
  BY <1>1, <1>2, <1>3, <1>4, <1>5, <1>6, <1>7, <1>8, <1>9, <1>10, <1>11, <1>12,
     <1>13, <1>14, <1>15, <1>16, <1>17, <1>18 DEF Next, TurnStep

\* A manifest that will be read stays true of the output it lies with: a build
\* changes only the builder's own, a removal takes output or the manifest away.
LEMMA TellsStep == Inv /\ [Next]_vars => ManifestsTell'
<1> SUFFICES ASSUME TypeOK, Owned, NothingLeaks, Fresh, ViewsOfBase, ManifestsTell, Current, [Next]_vars PROVE ManifestsTell'
  BY DEF Inv
<1> USE NoneAssumption, WarmAssumption DEF TypeOK, repoVars, viewVars, dirVars, ManifestsTell, Tells
<1>1. ASSUME NEW f \in File, NEW c \in Content, Commit(f, c) PROVE ManifestsTell'
  BY <1>1 DEF Commit
<1>2. CASE Crash
  BY <1>2 DEF Crash, Close
<1>3. CASE Restart
  BY <1>3 DEF Restart
<1>4. ASSUME NEW t \in Turn, Sweep(t) PROVE ManifestsTell'
  BY <1>4 DEF Sweep, Discard, Emptied
<1>5. ASSUME NEW t \in Turn, Take(t) PROVE ManifestsTell'
  <2>1. UNCHANGED <<built, manifest, skipped>>
    BY <1>5 DEF Take
  <2>2. \A d \in Dir : at[d] # t
    BY <1>5 DEF Take, NothingLeaks
  <2>3. CASE \E d \in WarmDirs : /\ dir' = [dir EXCEPT ![t] = d]
                                /\ at' = [at EXCEPT ![d] = t]
                                /\ phase' = [phase EXCEPT ![t] = "taken"]
    <3>1. PICK d \in Dir : /\ at[d] = "warm"
                           /\ at' = [at EXCEPT ![d] = t]
                           /\ phase' = [phase EXCEPT ![t] = "taken"]
      BY <2>3 DEF WarmDirs
    <3>. QED
      BY <2>1, <2>2, <3>1
  <2>4. CASE /\ at' = [at EXCEPT ![t] = t]
             /\ phase' = [phase EXCEPT ![t] = "marked"]
    BY <2>1, <2>4
  <2>. QED
    BY <1>5, <2>3, <2>4, Zenon DEF Take
<1>6. ASSUME NEW t \in Turn, MarkDirty(t) PROVE ManifestsTell'
  BY <1>6 DEF MarkDirty, DirtyAfter, Emptied
<1>7. ASSUME NEW t \in Turn, StartFails(t) PROVE ManifestsTell'
  BY <1>7 DEF StartFails, Close
<1>8. ASSUME NEW t \in Turn, Record(t) PROVE ManifestsTell'
  BY <1>8 DEF Record
<1>9. ASSUME NEW t \in Turn, MountFails(t) PROVE ManifestsTell'
  BY <1>9 DEF MountFails, Discard, Emptied, Close
<1>10. ASSUME NEW t \in Turn, NEW f \in File, NEW c \in Content, Write(t, f, c) PROVE ManifestsTell'
  BY <1>10 DEF Write
<1>11. ASSUME NEW t \in Turn, NEW S \in SUBSET File, Build(t, S) PROVE ManifestsTell'
  <2>1. at[dir[t]] = t /\ phase[t] = "running"
    BY <1>11 DEF Build, Owned, Holding
  <2>2. \A d \in Dir \ {dir[t]} : built'[d] = built[d] /\ skipped'[d] = skipped[d]
    BY <1>11 DEF Build
  <2>3. UNCHANGED <<at, phase, manifest>>
    BY <1>11 DEF Build
  <2>. QED
    BY <2>1, <2>2, <2>3
<1>12. ASSUME NEW t \in Turn, PutManifest(t) PROVE ManifestsTell'
  <2>1. dir[t] \in Dir /\ phase[t] = "running" /\ UNCHANGED <<at, built, dir>>
    BY <1>12 DEF PutManifest, Owned, Holding
  <2>2. \A u \in Turn \ {t} : phase'[u] = phase[u]
    BY <1>12, Zenon DEF PutManifest
  <2>3. /\ manifest' = [manifest EXCEPT ![dir[t]] = [base |-> base[t], changed |-> changed[t]]]
        /\ skipped' = [skipped EXCEPT ![dir[t]] = @ \union (newer[t] \ changed[t])]
    BY <1>12 DEF PutManifest
  <2>4. Tells(dir[t])'
    <3>1. /\ manifest'[dir[t]].base = base[t]
          /\ manifest'[dir[t]].changed = changed[t]
          /\ skipped'[dir[t]] = skipped[dir[t]] \union (newer[t] \ changed[t])
      BY <2>1, <2>3
    <3>2. ASSUME NEW f \in File, f \notin changed[t], f \notin newer[t]
          PROVE  built[dir[t]][f] \in {None, base[t][f]} \/ f \in skipped[dir[t]]
      BY <2>1, <3>2 DEF Current, ViewsOfBase, Viewing
    <3>. QED
      BY <2>1, <3>1, <3>2
  <2>5. \A d \in Dir \ {dir[t]} : Tells(d)' = Tells(d)
    BY <2>1, <2>3
  <2>6. \A d \in Dir \ {dir[t]} : at[d] # t
    BY <2>1 DEF Owned, Holding
  <2>. QED
    <3>1. ASSUME NEW d \in Dir, d # dir[t],
                 \/ at[d] = "warm"
                 \/ \E u \in Turn : at[d] = u /\ phase'[u] \in {"taken", "removing", "renaming"}
          PROVE  Tells(d)
      BY <2>2, <2>6, <3>1
    <3>. QED
      BY <2>1, <2>4, <2>5, <3>1
<1>13. ASSUME NEW t \in Turn, NEW f \in File, RemoveOutput(t, f) PROVE ManifestsTell'
  BY <1>13 DEF RemoveOutput
<1>14. ASSUME NEW t \in Turn, RemoveManifest(t) PROVE ManifestsTell'
  BY <1>14 DEF RemoveManifest
<1>15. ASSUME NEW t \in Turn, EndRemoval(t) PROVE ManifestsTell'
  BY <1>15 DEF EndRemoval, IsEmpty
<1>16. ASSUME NEW t \in Turn, HandOver(t) PROVE ManifestsTell'
  <2>1. phase[t] = "renaming" /\ phase' = [phase EXCEPT ![t] = "handed"]
    BY <1>16 DEF HandOver
  <2>2. dir[t] \in Dir /\ at[dir[t]] = t
    BY <2>1 DEF Owned, Holding
  <2>3. CASE /\ at' = [d \in Dir |-> IF d = dir[t] THEN "warm"
                                     ELSE IF d \in WarmDirs THEN None ELSE at[d]]
             /\ UNCHANGED <<built, manifest, skipped>>
    BY <2>1, <2>2, <2>3
  <2>4. CASE Discard(t)
    BY <2>1, <2>4 DEF Discard, Emptied
  <2>. QED
    BY <1>16, <2>3, <2>4, Zenon DEF HandOver
<1>17. ASSUME NEW t \in Turn, RemoveRecord(t) PROVE ManifestsTell'
  BY <1>17 DEF RemoveRecord
<1>18. CASE UNCHANGED vars
  BY <1>18 DEF vars
<1>. QED
  BY <1>1, <1>2, <1>3, <1>4, <1>5, <1>6, <1>7, <1>8, <1>9, <1>10, <1>11, <1>12,
     <1>13, <1>14, <1>15, <1>16, <1>17, <1>18 DEF Next, TurnStep

\* MarkDirty makes the output current from what the manifest tells, and every
\* other step leaves it so.
LEMMA CurrentStep == Inv /\ [Next]_vars => Current'
<1> SUFFICES ASSUME TypeOK, Owned, NothingLeaks, Fresh, ViewsOfBase, ManifestsTell, Current, [Next]_vars PROVE Current'
  BY DEF Inv
<1> USE NoneAssumption, WarmAssumption DEF TypeOK, repoVars, viewVars, dirVars, Current
<1>1. ASSUME NEW f \in File, NEW c \in Content, Commit(f, c) PROVE Current'
  BY <1>1 DEF Commit
<1>2. CASE Crash
  BY <1>2 DEF Crash, Close
<1>3. CASE Restart
  BY <1>3 DEF Restart
<1>4. ASSUME NEW t \in Turn, Sweep(t) PROVE Current'
  BY <1>4 DEF Sweep, Discard, Emptied, NothingBuilt, Owned, Holding
<1>5. ASSUME NEW t \in Turn, Take(t) PROVE Current'
  <2>1. UNCHANGED <<built, skipped, newer>> /\ phase[t] = "idle"
    BY <1>5 DEF Take
  <2>2. \A u \in Turn \ {t} : phase'[u] = phase[u] /\ dir'[u] = dir[u] /\ view'[u] = view[u]
    BY <1>5, Zenon DEF Take
  <2>3. phase'[t] = "taken" \/ (phase'[t] = "marked" /\ dir'[t] = t)
    BY <1>5, Zenon DEF Take
  <2>4. \A f \in File : built[t][f] = None
    BY <2>1 DEF Fresh, NothingBuilt
  <2>5. ASSUME NEW u \in Turn, NEW f \in File,
               phase'[u] \in {"marked", "running"}, f \notin newer'[u]
        PROVE  built'[dir'[u]][f] \in {None, view'[u][f]} \/ f \in skipped'[dir'[u]]
    <3>1. CASE u = t
      BY <2>1, <2>3, <2>4, <2>5, <3>1
    <3>2. CASE u # t
      BY <2>1, <2>2, <2>5, <3>2
    <3>. QED
      BY <3>1, <3>2
  <2>. QED
    BY <2>5
<1>6. ASSUME NEW t \in Turn, MarkDirty(t) PROVE Current'
  <2>1. /\ phase[t] = "taken" /\ phase' = [phase EXCEPT ![t] = "marked"]
        /\ UNCHANGED <<base, view, dir>>
    BY <1>6 DEF MarkDirty
  <2>2. dir[t] \in Dir /\ at[dir[t]] = t
    BY <2>1 DEF Owned, Holding
  <2>3. \A u \in Turn \ {t} : phase[u] \in Holding => dir[u] # dir[t]
    BY <2>2 DEF Owned
  <2>4. CASE /\ manifest[dir[t]] # None
             /\ newer' = [newer EXCEPT ![t] = DirtyAfter(manifest[dir[t]], t)]
             /\ UNCHANGED <<built, skipped>>
    <3>1. Tells(dir[t])
      BY <2>1, <2>2 DEF ManifestsTell
    <3>2. view[t] = base[t]
      BY <2>1 DEF ViewsOfBase, Viewing
    <3>3. ASSUME NEW f \in File, f \notin DirtyAfter(manifest[dir[t]], t)
          PROVE  built[dir[t]][f] \in {None, view[t][f]} \/ f \in skipped[dir[t]]
      BY <2>4, <3>1, <3>2, <3>3 DEF Tells, DirtyAfter
    <3>. QED
      BY <2>1, <2>4, <3>3
  <2>5. CASE Emptied({dir[t]}) /\ UNCHANGED newer
    BY <2>1, <2>2, <2>3, <2>5 DEF Emptied, NothingBuilt, Owned, Holding
  <2>. QED
    BY <1>6, <2>4, <2>5, Zenon DEF MarkDirty
<1>7. ASSUME NEW t \in Turn, StartFails(t) PROVE Current'
  BY <1>7 DEF StartFails, Close
<1>8. ASSUME NEW t \in Turn, Record(t) PROVE Current'
  BY <1>8 DEF Record
<1>9. ASSUME NEW t \in Turn, MountFails(t) PROVE Current'
  BY <1>9 DEF MountFails, Discard, Emptied, Close, NothingBuilt, Owned, Holding
<1>10. ASSUME NEW t \in Turn, NEW f \in File, NEW c \in Content, Write(t, f, c) PROVE Current'
  BY <1>10 DEF Write
<1>11. ASSUME NEW t \in Turn, NEW S \in SUBSET File, Build(t, S) PROVE Current'
  BY <1>11 DEF Build, Recompiled, Owned, Holding
<1>12. ASSUME NEW t \in Turn, PutManifest(t) PROVE Current'
  BY <1>12 DEF PutManifest, Close, Owned, Holding
<1>13. ASSUME NEW t \in Turn, NEW f \in File, RemoveOutput(t, f) PROVE Current'
  BY <1>13 DEF RemoveOutput, Owned
<1>14. ASSUME NEW t \in Turn, RemoveManifest(t) PROVE Current'
  BY <1>14 DEF RemoveManifest
<1>15. ASSUME NEW t \in Turn, EndRemoval(t) PROVE Current'
  BY <1>15 DEF EndRemoval, IsEmpty
<1>16. ASSUME NEW t \in Turn, HandOver(t) PROVE Current'
  <2>1. /\ phase' = [phase EXCEPT ![t] = "handed"] /\ dir' = [dir EXCEPT ![t] = None]
        /\ UNCHANGED <<view, newer>>
    BY <1>16 DEF HandOver, viewVars
  <2>2. CASE UNCHANGED <<built, skipped>>
    BY <2>1, <2>2
  <2>3. CASE Discard(t)
    BY <2>1, <2>3 DEF Discard, Emptied, NothingBuilt, Owned, Holding
  <2>. QED
    BY <1>16, <2>2, <2>3, Zenon DEF HandOver
<1>17. ASSUME NEW t \in Turn, RemoveRecord(t) PROVE Current'
  BY <1>17 DEF RemoveRecord
<1>18. CASE UNCHANGED vars
  BY <1>18 DEF vars
<1>. QED
  BY <1>1, <1>2, <1>3, <1>4, <1>5, <1>6, <1>7, <1>8, <1>9, <1>10, <1>11, <1>12,
     <1>13, <1>14, <1>15, <1>16, <1>17, <1>18 DEF Next, TurnStep

-----------------------------------------------------------------------------
\* The invariant holds of every reachable state.
LEMMA Inductive == Spec => []Inv
<1>1. Inv /\ [Next]_vars => Inv'
  BY TypeStep, OwnedStep, LeakStep, FreshStep, ViewsStep, TellsStep, CurrentStep DEF Inv
<1>. QED
  BY InitInv, <1>1, PTL DEF Spec

\* The state keeps its types; among them, there is never more than one directory
\* at the warm path, however turns race to rename one there (hand_over_warm).
THEOREM TypeCorrect == Spec => []TypeOK
<1>1. Inv => TypeOK
  BY DEF Inv
<1>. QED
  BY Inductive, <1>1, PTL

\* Every build directory that is not warm is a starting or recorded turn's, or one
\* of a turn that wrote no record (TurnView::start, finish, sweep_stale_views).
THEOREM NoDirectoryLeaks == Spec => []NothingLeaks
<1>1. Inv => NothingLeaks
  BY DEF Inv
<1>. QED
  BY Inductive, <1>1, PTL

\* Output a build reuses was compiled from what the turn's view holds, unless some
\* turn handed that file on dirty and unbuilt (take_warm, hand_over_warm).
THEOREM BuildsAreCurrent == Spec => []CurrentUnlessSkipped
<1>1. Inv => CurrentUnlessSkipped
  BY DEF Inv, Current, CurrentUnlessSkipped, Reused
<1>. QED
  BY Inductive, <1>1, PTL

-----------------------------------------------------------------------------
(* Writes through the mount. *)

(* The content of a file, and the states of a buffer and of a call. *)
Writing == Seq(Nat)

BufferState == [path : Name, data : Writing, dirty : BOOLEAN]

Creating == [pc : {"create"}, fh : Handle, path : Name]
Inserting ==
  [pc : {"insert"}, fh : Handle, path : Name, data : Writing, at : 1..Extent, byte : Nat]
Storing == [pc : {"store"}, fh : Handle, closing : BOOLEAN, path : Name, data : Writing]
Resizing == [pc : {"resize"}, path : Name, data : Writing]
Moves == [pc : {"retarget"}, from : Name, path : Name]

CallState == {Done} \union Creating \union Inserting \union Storing \union Resizing \union Moves

Acked == UNION {[D -> Nat] : D \in SUBSET Nat}

\* The variables of the mount have their types; a buffer is of a handle given out.
FuseTypeOK ==
  /\ stored \in [Name -> Writing \union {Nowhere}]
  /\ given \in 0..MaxHandles
  /\ known \in [Handle -> Name \union {Nowhere}]
  /\ DOMAIN buffer \subseteq 1..given
  /\ buffer \in [DOMAIN buffer -> BufferState]
  /\ call \in [Call -> CallState]
  /\ issued \in Nat
  /\ acked \in [Handle -> Acked]

\* Does a call hold on to a handle.
Uses(c, h) == call[c].pc \in {"create", "insert", "store"} /\ call[c].fh = h

\* Calls use handles that were given out; a handle that is being made has no
\* buffer and no other call, one that commits has a buffer, one that is being
\* closed has nothing left to commit and no other call; names change one at a time.
HandlesOK ==
  /\ \A c \in Call, h \in Handle : Uses(c, h) => h <= given
  /\ \A c \in Call : call[c].pc = "create" =>
       /\ call[c].fh \notin DOMAIN buffer
       /\ \A d \in Call : Uses(d, call[c].fh) => d = c
  /\ \A c \in Call : call[c].pc = "store" =>
       /\ call[c].fh \in DOMAIN buffer
       /\ call[c].closing => /\ ~buffer[call[c].fh].dirty
                             /\ \A d \in Call : Uses(d, call[c].fh) => d = c
  /\ \A h \in Handle : h \notin DOMAIN buffer => acked[h] = Empty
  /\ \A c, d \in Call :
       call[c].pc \in {"create", "retarget"} /\ call[d].pc \in {"create", "retarget"} => c = d

\* A call that is to make a buffer knows its file by the path the kernel does.
Loads ==
  \A c \in Call :
    call[c].pc \in {"insert", "create"} /\ known[call[c].fh] # Nowhere /\ call[c].fh \notin raced
      => call[c].path = known[call[c].fh]

-----------------------------------------------------------------------------
\* A call's state is known by its step.
LEMMA CallFields ==
  ASSUME call \in [Call -> CallState], NEW c \in Call
  PROVE  /\ call[c].pc \in {"done", "create", "insert", "store", "resize", "retarget"}
         /\ call[c].pc = "done" <=> call[c] = Done
         /\ call[c].pc = "create" => call[c] \in Creating
         /\ call[c].pc = "insert" => call[c] \in Inserting
         /\ call[c].pc = "store" => call[c] \in Storing
         /\ call[c].pc = "resize" => call[c] \in Resizing
         /\ call[c].pc = "retarget" => call[c] \in Moves
BY DEF CallState, Done, Creating, Inserting, Storing, Resizing, Moves

\* The calls on a handle are those that make it, write to it or commit it.
LEMMA OnUses ==
  ASSUME call \in [Call -> CallState], NEW h
  PROVE  On(h) = {c \in Call : Uses(c, h)}
<1>1. ASSUME NEW c \in Call
      PROVE  call[c] # Done /\ "fh" \in DOMAIN call[c] <=> call[c].pc \in {"create", "insert", "store"}
  BY DEF CallState, Done, Creating, Inserting, Storing, Resizing, Moves
<1> QED BY <1>1 DEF On, Uses

LEMMA UsableUses ==
  ASSUME call \in [Call -> CallState], NEW h, Usable(h)
  PROVE  /\ h \in 1..given
         /\ \A c \in Call : Uses(c, h) =>
              call[c].pc # "create" /\ (call[c].pc = "store" => ~call[c].closing)
BY OnUses DEF Usable

LEMMA IssueCall ==
  ASSUME call \in [Call -> CallState], issued \in Nat, NEW c \in Call, NEW s \in CallState, Issue(c, s)
  PROVE  /\ call' \in [Call -> CallState] /\ call'[c] = s /\ call[c].pc = "done"
         /\ \A d \in Call : d # c => call'[d] = call[d]
         /\ issued' \in Nat
BY DEF Issue, Done

LEMMA GoesCall ==
  ASSUME call \in [Call -> CallState], NEW c \in Call, NEW s \in CallState, Goes(c, s)
  PROVE  /\ call' \in [Call -> CallState] /\ call'[c] = s /\ issued' = issued
         /\ \A d \in Call : d # c => call'[d] = call[d]
BY DEF Goes

LEMMA DoneState == Done \in CallState /\ Done.pc = "done"
BY DEF Done, CallState

\* What a resize and a write keep of a content.
LEMMA ResizedBytes ==
  ASSUME NEW data \in Writing, NEW n \in Nat
  PROVE  Resized(data, n) \in Writing /\ Len(Resized(data, n)) = n
         /\ \A i \in 1..n : i <= Len(data) => Resized(data, n)[i] = data[i]
<1>1. \A i \in 1..n : i <= Len(data) => data[i] \in Nat
  BY DEF Writing
<1>2. Resized(data, n) \in [1..n -> Nat]
  BY <1>1 DEF Resized
<1> QED BY <1>2 DEF Resized, Writing

LEMMA SplicedBytes ==
  ASSUME NEW data \in Writing, NEW i \in 1..Extent, NEW byte \in Nat
  PROVE  /\ Spliced(data, i, byte) \in Writing
         /\ i \in DOMAIN Spliced(data, i, byte) /\ Spliced(data, i, byte)[i] = byte
         /\ \A j \in DOMAIN data :
              j \in DOMAIN Spliced(data, i, byte) /\ (j # i => Spliced(data, i, byte)[j] = data[j])
<1>1. PICK n : n = IF i > Len(data) THEN i ELSE Len(data)
  OBVIOUS
<1>2. n \in Nat /\ i \in 1..n /\ Len(data) <= n /\ Len(data) \in Nat
  BY <1>1, ExtentAssumption DEF Writing
<1>3. PICK r : r = Resized(data, n)
  OBVIOUS
<1>4. r \in Writing /\ Len(r) = n /\ \A j \in 1..n : j <= Len(data) => r[j] = data[j]
  BY <1>2, <1>3, ResizedBytes
<1>5. Spliced(data, i, byte) = [r EXCEPT ![i] = byte]
  BY <1>1, <1>3 DEF Spliced
<1>6. DOMAIN r = 1..n /\ DOMAIN data = 1..Len(data)
  BY <1>4 DEF Writing
<1>7. [r EXCEPT ![i] = byte] \in Writing
  BY <1>2, <1>4 DEF Writing
<1> QED BY <1>2, <1>4, <1>5, <1>6, <1>7

\* A write to a handle's buffer.
LEMMA SpliceBuffer ==
  ASSUME NEW D \in SUBSET Handle, NEW bufs \in [D -> BufferState], NEW h \in D, NEW i \in 1..Extent,
         NEW byte \in Nat, acked \in [Handle -> Acked], Splice(h, bufs, i, byte)
  PROVE  /\ buffer' \in [D -> BufferState] /\ DOMAIN buffer' = D
         /\ buffer'[h].path = bufs[h].path /\ buffer'[h].dirty
         /\ \A g \in D : g # h => buffer'[g] = bufs[g]
         /\ acked' \in [Handle -> Acked] /\ \A g \in Handle : g # h => acked'[g] = acked[g]
         /\ (\A j \in DOMAIN acked[h] : j \in DOMAIN bufs[h].data /\ bufs[h].data[j] = acked[h][j])
            => \A j \in DOMAIN acked'[h] :
                 j \in DOMAIN buffer'[h].data /\ buffer'[h].data[j] = acked'[h][j]
<1>1. PICK b : b = bufs[h]
  OBVIOUS
<1>2. b \in BufferState /\ b.path \in Name /\ b.data \in Writing
  BY <1>1 DEF BufferState
<1>3. PICK d : d = Spliced(b.data, i, byte)
  OBVIOUS
<1>4. d \in Writing /\ i \in DOMAIN d /\ d[i] = byte
      /\ \A j \in DOMAIN b.data : j \in DOMAIN d /\ (j # i => d[j] = b.data[j])
  BY <1>2, <1>3, SplicedBytes
<1>5. buffer' = [bufs EXCEPT ![h] = [path |-> b.path, data |-> d, dirty |-> TRUE]]
  BY <1>1, <1>3 DEF Splice
<1>6. [path |-> b.path, data |-> d, dirty |-> TRUE] \in BufferState
  BY <1>2, <1>4 DEF BufferState
<1>7. /\ buffer' \in [D -> BufferState] /\ DOMAIN buffer' = D
      /\ buffer'[h].path = bufs[h].path /\ buffer'[h].dirty /\ buffer'[h].data = d
      /\ \A g \in D : g # h => buffer'[g] = bufs[g]
  BY <1>1, <1>5, <1>6
<1>8. PICK a : a = [j \in DOMAIN acked[h] \union {i} |-> IF j = i THEN byte ELSE acked[h][j]]
  OBVIOUS
<1>9. PICK E \in SUBSET Nat : acked[h] \in [E -> Nat]
  <2>1. acked[h] \in Acked
    OBVIOUS
  <2> QED BY <2>1 DEF Acked
<1>10. a \in [E \union {i} -> Nat] /\ E \union {i} \in SUBSET Nat
  BY <1>8, <1>9, ExtentAssumption
<1>11. a \in Acked
  BY <1>10 DEF Acked
<1>12. acked' = [acked EXCEPT ![h] = a]
  BY <1>8 DEF Splice
<1>13. /\ acked' \in [Handle -> Acked] /\ \A g \in Handle : g # h => acked'[g] = acked[g]
       /\ acked'[h] = a
  BY <1>11, <1>12
<1>14. DOMAIN a = DOMAIN acked[h] \union {i} /\ a[i] = byte
       /\ \A j \in DOMAIN acked[h] : j # i => a[j] = acked[h][j]
  BY <1>8
<1> QED BY <1>1, <1>4, <1>7, <1>13, <1>14

LEMMA InitFuse == ASSUME FuseInit PROVE FuseTypeOK /\ HandlesOK /\ Loads /\ BufferHoldsWrites /\ FollowUnlessRaced
<1> USE DEF FuseInit
<1>1. Empty \in Acked /\ DOMAIN Empty = {}
  <2>1. Empty \in [{} -> Nat]
    BY DEF Empty
  <2> QED BY <2>1 DEF Acked
<1>2. <<0>> \in Writing
  BY DEF Writing
<1>3. FuseTypeOK
  BY <1>1, <1>2, DoneState, HandleAssumption DEF FuseTypeOK
<1>4. \A c \in Call : call[c].pc = "done"
  BY DoneState
<1>5. HandlesOK /\ Loads
  BY <1>4 DEF HandlesOK, Loads, Uses
<1> QED BY <1>1, <1>3, <1>5 DEF BufferHoldsWrites, FollowUnlessRaced

LEMMA EmptyParts == Empty \in Acked /\ DOMAIN Empty = {}
<1>1. Empty \in [{} -> Nat]
  BY DEF Empty
<1> QED BY <1>1 DEF Acked, Empty

-----------------------------------------------------------------------------
(* The types are kept, and what the actions do to buffers, handles and calls. *)

LEMMA OpenType ==
  ASSUME FuseTypeOK, NEW p \in Name, NEW truncate \in BOOLEAN, Open(p, truncate)
  PROVE  FuseTypeOK'
<1>1. /\ new_fh \in Handle /\ given' = new_fh /\ new_fh = given + 1 /\ given \in Nat
      /\ UNCHANGED <<stored, call, issued, acked>>
  BY HandleAssumption DEF Open, new_fh, FuseTypeOK
<1>2. given' \in 0..MaxHandles /\ 1..given \subseteq 1..given'
  BY <1>1, HandleAssumption DEF Handle
<1>3. known' \in [Handle -> Name \union {Nowhere}]
  BY <1>1 DEF Open, FuseTypeOK
<1>4. [path |-> p, data |-> <<>>, dirty |-> TRUE] \in BufferState
  BY DEF BufferState, Writing
<1>5. DOMAIN buffer' \subseteq 1..given' /\ buffer' \in [DOMAIN buffer' -> BufferState]
  BY <1>1, <1>2, <1>4 DEF Open, FuseTypeOK
<1> QED BY <1>1, <1>2, <1>3, <1>5 DEF FuseTypeOK

LEMMA BeginCreateType ==
  ASSUME FuseTypeOK, NEW c \in Call, NEW p \in Name, BeginCreate(c, p)
  PROVE  FuseTypeOK'
<1>1. /\ new_fh \in Handle /\ given' = new_fh /\ new_fh = given + 1 /\ given \in Nat
      /\ UNCHANGED <<buffer, acked>>
  BY HandleAssumption DEF BeginCreate, new_fh, FuseTypeOK
<1>2. given' \in 0..MaxHandles /\ 1..given \subseteq 1..given'
  BY <1>1, HandleAssumption DEF Handle
<1>3. known' \in [Handle -> Name \union {Nowhere}]
  BY <1>1 DEF BeginCreate, FuseTypeOK
<1>4. [pc |-> "create", fh |-> new_fh, path |-> p] \in CallState
  BY <1>1 DEF CallState, Creating
<1>5. call' \in [Call -> CallState] /\ issued' \in Nat
  BY <1>4, IssueCall DEF BeginCreate, FuseTypeOK
<1>6. stored' \in [Name -> Writing \union {Nowhere}]
  BY DEF BeginCreate, FuseTypeOK, Writing
<1> QED BY <1>1, <1>2, <1>3, <1>5, <1>6 DEF FuseTypeOK

LEMMA EndCreateType ==
  ASSUME FuseTypeOK, HandlesOK, NEW c \in Call, EndCreate(c)
  PROVE  FuseTypeOK'
<1>1. /\ call[c].pc = "create" /\ Goes(c, Done)
      /\ UNCHANGED <<stored, given, known, acked>>
  BY DEF EndCreate
<1>2. call[c].fh \in Handle /\ call[c].path \in Name
  BY <1>1, CallFields DEF FuseTypeOK, Creating
<1>3. call[c].fh \in 1..given
  BY <1>1, <1>2 DEF HandlesOK, Uses, Handle
<1>4. call' \in [Call -> CallState] /\ issued' = issued
  BY <1>1, GoesCall, DoneState DEF FuseTypeOK
<1>5. [path |-> call[c].path, data |-> <<>>, dirty |-> FALSE] \in BufferState
  BY <1>2 DEF BufferState, Writing
<1>6. DOMAIN buffer' \subseteq 1..given' /\ buffer' \in [DOMAIN buffer' -> BufferState]
  BY <1>1, <1>3, <1>5 DEF EndCreate, FuseTypeOK
<1> QED BY <1>1, <1>4, <1>6 DEF FuseTypeOK

LEMMA WriteBufferedType ==
  ASSUME FuseTypeOK, NEW c \in Call, NEW h \in Handle, NEW i \in 1..Extent, WriteBuffered(c, h, i)
  PROVE  FuseTypeOK'
<1>1. /\ h \in DOMAIN buffer /\ Issue(c, Done) /\ Splice(h, buffer, i, issued')
      /\ UNCHANGED <<stored, given, known>>
  BY DEF WriteBuffered
<1>2. call' \in [Call -> CallState] /\ issued' \in Nat
  BY <1>1, IssueCall, DoneState DEF FuseTypeOK
<1>3. DOMAIN buffer \in SUBSET Handle /\ buffer \in [DOMAIN buffer -> BufferState]
  BY HandleAssumption DEF FuseTypeOK, Handle
<1>4. /\ buffer' \in [DOMAIN buffer -> BufferState] /\ DOMAIN buffer' = DOMAIN buffer
      /\ acked' \in [Handle -> Acked]
  BY <1>1, <1>2, <1>3, SpliceBuffer DEF FuseTypeOK
<1> QED BY <1>1, <1>2, <1>4 DEF FuseTypeOK

LEMMA ReadForWriteType ==
  ASSUME FuseTypeOK, NEW c \in Call, NEW h \in Handle, NEW i \in 1..Extent, ReadForWrite(c, h, i)
  PROVE  FuseTypeOK'
<1>1. PICK current :
        /\ current = IF stored[known[h]] = Nowhere THEN <<>> ELSE stored[known[h]]
        /\ Issue(c, [pc |-> "insert", fh |-> h, path |-> known[h], data |-> current,
                     at |-> i, byte |-> issued'])
        /\ known[h] # Nowhere
        /\ UNCHANGED <<stored, given, known, buffer, acked>>
  BY DEF ReadForWrite
<1>2. current \in Writing /\ known[h] \in Name
  BY <1>1 DEF FuseTypeOK, Writing
<1>3. issued' \in Nat
  BY <1>1 DEF Issue, FuseTypeOK
<1>4. [pc |-> "insert", fh |-> h, path |-> known[h], data |-> current, at |-> i,
       byte |-> issued'] \in CallState
  BY <1>2, <1>3 DEF CallState, Inserting
<1>5. call' \in [Call -> CallState]
  BY <1>1, <1>4, IssueCall DEF FuseTypeOK
<1> QED BY <1>1, <1>3, <1>5 DEF FuseTypeOK

\* What InsertAndWrite writes to.
LEMMA FirstWritten ==
  ASSUME FuseTypeOK, HandlesOK, NEW c \in Call, InsertAndWrite(c)
  PROVE  LET w == call[c]
             bufs == or_insert(w.fh, [path |-> w.path, data |-> w.data, dirty |-> FALSE])
             D == DOMAIN buffer \union {w.fh}
         IN  /\ w \in Inserting /\ w.fh \in 1..given /\ D \subseteq 1..given /\ D \in SUBSET Handle
             /\ bufs \in [D -> BufferState] /\ Splice(w.fh, bufs, w.at, w.byte)
             /\ \A g \in DOMAIN buffer : bufs[g] = buffer[g]
             /\ w.fh \notin DOMAIN buffer => bufs[w.fh].path = w.path
<1>1. PICK w : w = call[c]
  OBVIOUS
<1>2. w \in Inserting
  BY <1>1, CallFields DEF InsertAndWrite, FuseTypeOK
<1>3. PICK fresh : fresh = [path |-> w.path, data |-> w.data, dirty |-> FALSE]
  OBVIOUS
<1>4. fresh \in BufferState /\ fresh.path = w.path
  BY <1>2, <1>3 DEF Inserting, BufferState
<1>5. w.fh \in Handle /\ w.fh \in 1..given
  BY <1>1, <1>2 DEF HandlesOK, Uses, Inserting, Handle
<1>6. PICK D : D = DOMAIN buffer \union {w.fh}
  OBVIOUS
<1>7. D \subseteq 1..given /\ D \in SUBSET Handle
  BY <1>5, <1>6, HandleAssumption DEF FuseTypeOK, Handle
<1>8. PICK bufs : bufs = or_insert(w.fh, fresh)
  OBVIOUS
<1>9. bufs = [g \in D |-> IF g \in DOMAIN buffer THEN buffer[g] ELSE fresh]
  BY <1>6, <1>8 DEF or_insert
<1>10. /\ bufs \in [D -> BufferState]
       /\ \A g \in DOMAIN buffer : bufs[g] = buffer[g]
       /\ w.fh \notin DOMAIN buffer => bufs[w.fh].path = w.path
  BY <1>4, <1>6, <1>9 DEF FuseTypeOK
<1>11. Splice(w.fh, bufs, w.at, w.byte)
  BY <1>1, <1>3, <1>8 DEF InsertAndWrite
<1> QED BY <1>1, <1>2, <1>3, <1>5, <1>6, <1>7, <1>8, <1>10, <1>11

LEMMA InsertAndWriteType ==
  ASSUME FuseTypeOK, HandlesOK, NEW c \in Call, InsertAndWrite(c)
  PROVE  FuseTypeOK'
<1>1. PICK w, bufs, D :
        /\ w = call[c] /\ w \in Inserting /\ w.fh \in D /\ D \subseteq 1..given /\ D \in SUBSET Handle
        /\ bufs \in [D -> BufferState] /\ Splice(w.fh, bufs, w.at, w.byte)
  BY FirstWritten
<1>2. Goes(c, Done) /\ UNCHANGED <<stored, given, known>>
  BY DEF InsertAndWrite
<1>3. call' \in [Call -> CallState] /\ issued' = issued
  BY <1>2, GoesCall, DoneState DEF FuseTypeOK
<1>4. w.at \in 1..Extent /\ w.byte \in Nat /\ acked \in [Handle -> Acked]
  BY <1>1 DEF Inserting, FuseTypeOK
<1>5. buffer' \in [D -> BufferState] /\ DOMAIN buffer' = D /\ acked' \in [Handle -> Acked]
  BY <1>1, <1>4, SpliceBuffer
<1> QED BY <1>1, <1>2, <1>3, <1>5 DEF FuseTypeOK

\* The buffer whose content is taken to be stored.
LEMMA Taken ==
  ASSUME FuseTypeOK, NEW c \in Call, NEW h \in DOMAIN buffer, NEW closing \in BOOLEAN,
         TakePending(c, h, closing)
  PROVE  /\ buffer[h].dirty /\ h \in Handle
         /\ call[c].pc = "done" /\ call' \in [Call -> CallState] /\ issued' \in Nat
         /\ call'[c] \in Storing /\ call'[c].pc = "store" /\ call'[c].fh = h
         /\ call'[c].closing = closing
         /\ call'[c].path = buffer[h].path /\ call'[c].data = buffer[h].data
         /\ \A d \in Call : d # c => call'[d] = call[d]
         /\ DOMAIN buffer' = DOMAIN buffer /\ buffer' \in [DOMAIN buffer -> BufferState]
         /\ buffer'[h].path = buffer[h].path /\ buffer'[h].data = buffer[h].data
         /\ ~buffer'[h].dirty
         /\ \A g \in DOMAIN buffer : g # h => buffer'[g] = buffer[g]
<1>1. PICK b : b = buffer[h]
  OBVIOUS
<1>2. b \in BufferState /\ h \in Handle
  BY <1>1, HandleAssumption DEF FuseTypeOK, Handle
<1>3. PICK s : s = [pc |-> "store", fh |-> h, closing |-> closing, path |-> b.path, data |-> b.data]
  OBVIOUS
<1>4. s \in Storing /\ s \in CallState
  BY <1>2, <1>3 DEF Storing, CallState, BufferState
<1>5. Issue(c, s)
  BY <1>1, <1>3 DEF TakePending
<1>6. /\ call' \in [Call -> CallState] /\ call'[c] = s /\ call[c].pc = "done" /\ issued' \in Nat
      /\ \A d \in Call : d # c => call'[d] = call[d]
  BY <1>4, <1>5, IssueCall DEF FuseTypeOK
<1>7. buffer' = [buffer EXCEPT ![h] = [b EXCEPT !.dirty = FALSE]]
  BY <1>1 DEF TakePending
<1>8. /\ [b EXCEPT !.dirty = FALSE] \in BufferState
      /\ [b EXCEPT !.dirty = FALSE].path = b.path /\ [b EXCEPT !.dirty = FALSE].data = b.data
      /\ [b EXCEPT !.dirty = FALSE].dirty = FALSE
  BY <1>2 DEF BufferState
<1>9. /\ DOMAIN buffer' = DOMAIN buffer /\ buffer' \in [DOMAIN buffer -> BufferState]
      /\ buffer'[h] = [b EXCEPT !.dirty = FALSE]
      /\ \A g \in DOMAIN buffer : g # h => buffer'[g] = buffer[g]
  BY <1>7, <1>8 DEF FuseTypeOK
<1>10. buffer[h].dirty
  BY DEF TakePending
<1> QED BY <1>1, <1>2, <1>3, <1>4, <1>6, <1>8, <1>9, <1>10

LEMMA FlushType ==
  ASSUME FuseTypeOK, NEW c \in Call, NEW h \in Handle, Flush(c, h)
  PROVE  FuseTypeOK'
<1>1. /\ h \in DOMAIN buffer /\ TakePending(c, h, FALSE)
      /\ UNCHANGED <<stored, given, known, acked>>
  BY DEF Flush
<1> QED BY <1>1, Taken DEF FuseTypeOK

\* A handle that is closed.
LEMMA Forgotten ==
  ASSUME FuseTypeOK, NEW h \in Handle, Forget(h, buffer)
  PROVE  /\ DOMAIN buffer' = DOMAIN buffer \ {h} /\ buffer' \in [DOMAIN buffer' -> BufferState]
         /\ \A g \in DOMAIN buffer' : buffer'[g] = buffer[g]
         /\ acked' \in [Handle -> Acked] /\ acked'[h] = Empty
         /\ \A g \in Handle : g # h => acked'[g] = acked[g] /\ known'[g] = known[g]
         /\ known' \in [Handle -> Name \union {Nowhere}] /\ known'[h] = Nowhere
<1>1. /\ DOMAIN buffer' = DOMAIN buffer \ {h} /\ buffer' \in [DOMAIN buffer' -> BufferState]
      /\ \A g \in DOMAIN buffer' : buffer'[g] = buffer[g]
  BY DEF Forget, Without, FuseTypeOK
<1>2. /\ acked' \in [Handle -> Acked] /\ acked'[h] = Empty
      /\ \A g \in Handle : g # h => acked'[g] = acked[g]
  BY EmptyParts DEF Forget, FuseTypeOK
<1>3. /\ \A g \in Handle : g # h => known'[g] = known[g]
      /\ known' \in [Handle -> Name \union {Nowhere}] /\ known'[h] = Nowhere
  BY DEF Forget, FuseTypeOK
<1> QED BY <1>1, <1>2, <1>3

LEMMA ReleaseType ==
  ASSUME FuseTypeOK, NEW c \in Call, NEW h \in Handle, Release(c, h)
  PROVE  FuseTypeOK'
<1>1. h \in DOMAIN buffer /\ UNCHANGED <<stored, given>>
  BY DEF Release
<1>2. CASE buffer[h].dirty
  <2>1. TakePending(c, h, TRUE) /\ UNCHANGED <<known, acked>>
    BY <1>2 DEF Release
  <2> QED BY <1>1, <2>1, Taken DEF FuseTypeOK
<1>3. CASE ~buffer[h].dirty
  <2>1. Issue(c, Done) /\ Forget(h, buffer)
    BY <1>3 DEF Release
  <2>2. call' \in [Call -> CallState] /\ issued' \in Nat
    BY <2>1, IssueCall, DoneState DEF FuseTypeOK
  <2> QED BY <1>1, <2>1, <2>2, Forgotten DEF FuseTypeOK
<1> QED BY <1>2, <1>3

LEMMA StoreType ==
  ASSUME FuseTypeOK, NEW c \in Call, NEW written \in BOOLEAN, Store(c, written)
  PROVE  FuseTypeOK'
<1>1. PICK w : w = call[c]
  OBVIOUS
<1>2. w \in Storing /\ Goes(c, Done) /\ given' = given
  BY <1>1, CallFields DEF Store, FuseTypeOK
<1>3. w.fh \in Handle /\ w.path \in Name /\ w.data \in Writing
  BY <1>2 DEF Storing
<1>4. call' \in [Call -> CallState] /\ issued' = issued
  BY <1>2, GoesCall, DoneState DEF FuseTypeOK
<1>5. stored' \in [Name -> Writing \union {Nowhere}]
  BY <1>1, <1>3 DEF Store, FuseTypeOK
<1>6. CASE w.closing
  <2>1. Forget(w.fh, buffer)
    BY <1>1, <1>6 DEF Store
  <2> QED BY <1>2, <1>3, <1>4, <1>5, <2>1, Forgotten DEF FuseTypeOK
<1>7. CASE ~w.closing
  <2>1. UNCHANGED <<known, buffer, acked>>
    BY <1>1, <1>7 DEF Store
  <2> QED BY <1>2, <1>4, <1>5, <2>1 DEF FuseTypeOK
<1> QED BY <1>6, <1>7

LEMMA Truncated ==
  ASSUME FuseTypeOK, NEW c \in Call, NEW h \in Handle, NEW size \in 0..Extent,
         TruncateBuffer(c, h, size)
  PROVE  /\ h \in DOMAIN buffer /\ Usable(h) /\ Issue(c, Done)
         /\ DOMAIN buffer' = DOMAIN buffer /\ buffer' \in [DOMAIN buffer -> BufferState]
         /\ buffer'[h].path = buffer[h].path /\ buffer'[h].dirty
         /\ \A g \in DOMAIN buffer : g # h => buffer'[g] = buffer[g]
         /\ acked' \in [Handle -> Acked] /\ acked'[h] = Empty
         /\ \A g \in Handle : g # h => acked'[g] = acked[g]
         /\ UNCHANGED <<stored, given, known, excused, raced>>
<1>1. PICK b : b = buffer[h]
  OBVIOUS
<1>2. h \in DOMAIN buffer /\ b \in BufferState
  BY <1>1 DEF TruncateBuffer, FuseTypeOK
<1>3. PICK d : d = Resized(b.data, size)
  OBVIOUS
<1>4. d \in Writing
  BY <1>2, <1>3, ResizedBytes, ExtentAssumption DEF BufferState
<1>5. PICK n : n = [b EXCEPT !.data = d, !.dirty = TRUE]
  OBVIOUS
<1>6. n \in BufferState /\ n.path = b.path /\ n.dirty
  BY <1>2, <1>4, <1>5 DEF BufferState
<1>7. buffer' = [buffer EXCEPT ![h] = n]
  BY <1>1, <1>2, <1>3, <1>5 DEF TruncateBuffer
<1>8. /\ DOMAIN buffer' = DOMAIN buffer /\ buffer' \in [DOMAIN buffer -> BufferState]
      /\ buffer'[h] = n /\ \A g \in DOMAIN buffer : g # h => buffer'[g] = buffer[g]
  BY <1>2, <1>6, <1>7 DEF FuseTypeOK
<1>9. /\ acked' \in [Handle -> Acked] /\ acked'[h] = Empty
      /\ \A g \in Handle : g # h => acked'[g] = acked[g]
  BY EmptyParts DEF TruncateBuffer, FuseTypeOK
<1> QED BY <1>1, <1>2, <1>6, <1>8, <1>9 DEF TruncateBuffer

LEMMA TruncateType ==
  ASSUME FuseTypeOK, NEW c \in Call, NEW h \in Handle, NEW size \in 0..Extent,
         TruncateBuffer(c, h, size)
  PROVE  FuseTypeOK'
<1>1. call' \in [Call -> CallState] /\ issued' \in Nat
  BY Truncated, IssueCall, DoneState DEF FuseTypeOK
<1> QED BY <1>1, Truncated DEF FuseTypeOK

LEMMA ReadForTruncateType ==
  ASSUME FuseTypeOK, NEW c \in Call, NEW p \in Name, NEW size \in 0..Extent,
         ReadForTruncate(c, p, size)
  PROVE  FuseTypeOK'
<1>1. stored[p] \in Writing /\ size \in Nat
  BY ExtentAssumption DEF ReadForTruncate, FuseTypeOK
<1>2. Resized(stored[p], size) \in Writing
  BY <1>1, ResizedBytes
<1>3. [pc |-> "resize", path |-> p, data |-> Resized(stored[p], size)] \in CallState
  BY <1>2 DEF CallState, Resizing
<1>4. call' \in [Call -> CallState] /\ issued' \in Nat
  BY <1>3, IssueCall DEF ReadForTruncate, FuseTypeOK
<1> QED BY <1>4 DEF ReadForTruncate, FuseTypeOK

LEMMA StoreTruncatedType ==
  ASSUME FuseTypeOK, NEW c \in Call, StoreTruncated(c)
  PROVE  FuseTypeOK'
<1>1. call[c] \in Resizing /\ Goes(c, Done) /\ UNCHANGED <<given, known, buffer, acked>>
  BY CallFields DEF StoreTruncated, FuseTypeOK
<1>2. call' \in [Call -> CallState] /\ issued' = issued
  BY <1>1, GoesCall, DoneState DEF FuseTypeOK
<1>3. call[c].path \in Name /\ call[c].data \in Writing
  BY <1>1 DEF Resizing
<1>4. stored' \in [Name -> Writing \union {Nowhere}]
  BY <1>3 DEF StoreTruncated, FuseTypeOK
<1> QED BY <1>1, <1>2, <1>4 DEF FuseTypeOK

LEMMA RenameType ==
  ASSUME FuseTypeOK, NEW c \in Call, NEW p \in Name, NEW q \in Name, Rename(c, p, q)
  PROVE  FuseTypeOK'
<1>1. [pc |-> "retarget", from |-> p, path |-> q] \in CallState
  BY DEF CallState, Moves
<1>2. call' \in [Call -> CallState] /\ issued' \in Nat
  BY <1>1, IssueCall DEF Rename, FuseTypeOK
<1>3. stored' \in [Name -> Writing \union {Nowhere}]
  BY DEF Rename, FuseTypeOK
<1> QED BY <1>2, <1>3 DEF Rename, FuseTypeOK

LEMMA RetargetedBuffer ==
  ASSUME FuseTypeOK, NEW from \in Name, NEW to \in Name, buffer' = Retargeted(from, to)
  PROVE  /\ DOMAIN buffer' = DOMAIN buffer /\ buffer' \in [DOMAIN buffer -> BufferState]
         /\ \A h \in DOMAIN buffer :
              /\ buffer'[h].path = IF buffer[h].path = from THEN to ELSE buffer[h].path
              /\ buffer'[h].data = buffer[h].data /\ buffer'[h].dirty = buffer[h].dirty
BY DEF Retargeted, FuseTypeOK, BufferState

LEMMA RetargetType ==
  ASSUME FuseTypeOK, NEW c \in Call, Retarget(c)
  PROVE  FuseTypeOK'
<1>1. call[c] \in Moves /\ Goes(c, Done) /\ UNCHANGED <<stored, given, acked>>
  BY CallFields DEF Retarget, FuseTypeOK
<1>2. call' \in [Call -> CallState] /\ issued' = issued
  BY <1>1, GoesCall, DoneState DEF FuseTypeOK
<1>3. call[c].from \in Name /\ call[c].path \in Name
  BY <1>1 DEF Moves
<1>4. DOMAIN buffer' = DOMAIN buffer /\ buffer' \in [DOMAIN buffer -> BufferState]
  BY <1>3, RetargetedBuffer DEF Retarget
<1>5. known' \in [Handle -> Name \union {Nowhere}]
  BY <1>3 DEF Retarget, FuseTypeOK
<1> QED BY <1>1, <1>2, <1>4, <1>5 DEF FuseTypeOK

LEMMA UnlinkType ==
  ASSUME FuseTypeOK, NEW c \in Call, NEW p \in Name, Unlink(c, p)
  PROVE  FuseTypeOK'
<1>1. call' \in [Call -> CallState] /\ issued' \in Nat
  BY IssueCall, DoneState DEF Unlink, FuseTypeOK
<1>2. stored' \in [Name -> Writing \union {Nowhere}]
  BY DEF Unlink, FuseTypeOK
<1>3. known' \in [Handle -> Name \union {Nowhere}]
  BY DEF Unlink, FuseTypeOK
<1> QED BY <1>1, <1>2, <1>3 DEF Unlink, FuseTypeOK

LEMMA FuseTypeStep ==
  ASSUME FuseTypeOK, HandlesOK, [FuseNext]_fuseVars PROVE FuseTypeOK'
<1>1. CASE UNCHANGED fuseVars
  BY <1>1 DEF fuseVars, FuseTypeOK
<1> QED
  BY <1>1, OpenType, BeginCreateType, EndCreateType, WriteBufferedType, ReadForWriteType,
     InsertAndWriteType, FlushType, ReleaseType, StoreType, TruncateType, ReadForTruncateType,
     StoreTruncatedType, RenameType, RetargetType, UnlinkType DEF FuseNext

LEMMA GivenHandles ==
  ASSUME FuseTypeOK
  PROVE  /\ given \in Nat /\ given + 1 \notin DOMAIN buffer /\ given + 1 \notin 1..given
         /\ DOMAIN buffer \subseteq Handle
BY HandleAssumption DEF FuseTypeOK, Handle

LEMMA UsedHandle ==
  ASSUME FuseTypeOK, HandlesOK, NEW c \in Call, call[c].pc \in {"create", "insert", "store"}
  PROVE  call[c].fh \in Handle /\ call[c].fh \in 1..given /\ Uses(c, call[c].fh)
<1>1. call[c].fh \in Handle
  BY CallFields DEF FuseTypeOK, Creating, Inserting, Storing
<1> QED BY <1>1 DEF HandlesOK, Uses, Handle

-----------------------------------------------------------------------------
(* Handles and the calls on them. *)

LEMMA OpenHandles ==
  ASSUME FuseTypeOK, HandlesOK, NEW p \in Name, NEW truncate \in BOOLEAN, Open(p, truncate)
  PROVE  HandlesOK'
<1>1. /\ given' = given + 1 /\ call' = call /\ acked' = acked
      /\ DOMAIN buffer \subseteq DOMAIN buffer' /\ DOMAIN buffer' \subseteq DOMAIN buffer \union {given + 1}
      /\ \A h \in DOMAIN buffer : buffer'[h] = buffer[h]
  BY GivenHandles DEF Open, new_fh
<1>2. \A c \in Call : call[c].pc \in {"create", "insert", "store"} => call[c].fh # given + 1
  BY UsedHandle, GivenHandles
<1>3. given' \in Nat /\ \A h \in Handle : h <= given => h <= given'
  BY <1>1, GivenHandles DEF Handle
<1> QED BY <1>1, <1>2, <1>3 DEF HandlesOK, Uses

LEMMA BeginCreateHandles ==
  ASSUME FuseTypeOK, HandlesOK, NEW c \in Call, NEW p \in Name, BeginCreate(c, p)
  PROVE  HandlesOK'
<1>1. /\ given' = given + 1 /\ given + 1 \in Handle /\ NamesAtRest /\ buffer' = buffer /\ acked' = acked
      /\ Issue(c, [pc |-> "create", fh |-> given + 1, path |-> p])
  BY DEF BeginCreate, new_fh
<1>2. [pc |-> "create", fh |-> given + 1, path |-> p] \in CallState
  BY <1>1 DEF CallState, Creating
<1>3. /\ call'[c] = [pc |-> "create", fh |-> given + 1, path |-> p] /\ call[c].pc = "done"
      /\ \A d \in Call : d # c => call'[d] = call[d]
  BY <1>1, <1>2, IssueCall DEF FuseTypeOK
<1>4. call'[c].pc = "create" /\ call'[c].fh = given + 1
  BY <1>3
<1>5. \A d \in Call : call[d].pc \in {"create", "insert", "store"} => call[d].fh # given + 1
  BY UsedHandle, GivenHandles
<1>6. \A h \in Handle : h <= given => h <= given'
  BY <1>1, GivenHandles DEF Handle
<1>7. given + 1 <= given'
  BY <1>1, GivenHandles
<1> QED BY <1>1, <1>3, <1>4, <1>5, <1>6, <1>7, GivenHandles DEF HandlesOK, Uses, NamesAtRest

LEMMA EndCreateHandles ==
  ASSUME FuseTypeOK, HandlesOK, NEW c \in Call, EndCreate(c)
  PROVE  HandlesOK'
<1>1. /\ call[c].pc = "create" /\ Goes(c, Done) /\ given' = given /\ acked' = acked
      /\ DOMAIN buffer' = DOMAIN buffer \union {call[c].fh}
      /\ \A g \in DOMAIN buffer : g # call[c].fh => buffer'[g] = buffer[g]
  BY DEF EndCreate
<1>2. call'[c].pc = "done" /\ \A d \in Call : d # c => call'[d] = call[d]
  BY <1>1, GoesCall, DoneState DEF FuseTypeOK
<1>3. call[c].fh \notin DOMAIN buffer
  BY <1>1 DEF HandlesOK
<1> QED BY <1>1, <1>2, <1>3 DEF HandlesOK, Uses

\* A call on a handle that is not being made or closed.
LEMMA TouchedHandles ==
  ASSUME FuseTypeOK, HandlesOK, NEW c \in Call, NEW h \in Handle,
         Usable(h), given' = given,
         call'[c].pc \in {"done", "insert", "store"}, call[c].pc = "done",
         call'[c].pc = "done" \/ call'[c].fh = h,
         call'[c].pc = "store" => h \in DOMAIN buffer /\ ~call'[c].closing,
         \A d \in Call : d # c => call'[d] = call[d],
         DOMAIN buffer' = DOMAIN buffer, \A g \in DOMAIN buffer : g # h => buffer'[g] = buffer[g],
         \A g \in Handle : g \notin DOMAIN buffer => acked'[g] = acked[g]
  PROVE  HandlesOK'
<1>1. \A d \in Call : Uses(d, h) => call[d].pc # "create" /\ (call[d].pc = "store" => ~call[d].closing)
  BY UsableUses DEF FuseTypeOK
<1>2. h <= given
  BY GivenHandles, UsableUses DEF FuseTypeOK
<1> QED BY <1>1, <1>2 DEF HandlesOK, Uses

LEMMA WriteBufferedHandles ==
  ASSUME FuseTypeOK, HandlesOK, NEW c \in Call, NEW h \in Handle, NEW i \in 1..Extent,
         WriteBuffered(c, h, i)
  PROVE  HandlesOK'
<1>1. /\ h \in DOMAIN buffer /\ Usable(h) /\ Issue(c, Done) /\ Splice(h, buffer, i, issued')
      /\ given' = given
  BY DEF WriteBuffered
<1>2. /\ call'[c].pc = "done" /\ call[c].pc = "done" /\ issued' \in Nat
      /\ \A d \in Call : d # c => call'[d] = call[d]
  BY <1>1, IssueCall, DoneState DEF FuseTypeOK
<1>3. DOMAIN buffer \in SUBSET Handle /\ buffer \in [DOMAIN buffer -> BufferState]
  BY GivenHandles DEF FuseTypeOK
<1>4. /\ DOMAIN buffer' = DOMAIN buffer /\ \A g \in DOMAIN buffer : g # h => buffer'[g] = buffer[g]
      /\ \A g \in Handle : g # h => acked'[g] = acked[g]
  BY <1>1, <1>2, <1>3, SpliceBuffer DEF FuseTypeOK
<1> QED BY <1>1, <1>2, <1>4, TouchedHandles

LEMMA ReadForWriteHandles ==
  ASSUME FuseTypeOK, HandlesOK, NEW c \in Call, NEW h \in Handle, NEW i \in 1..Extent,
         ReadForWrite(c, h, i)
  PROVE  HandlesOK'
<1>1. PICK s : /\ Issue(c, s) /\ s.pc = "insert" /\ s.fh = h
               /\ Usable(h) /\ UNCHANGED <<given, buffer, acked>>
  BY DEF ReadForWrite
<1>2. call'[c] = s /\ call[c].pc = "done" /\ \A d \in Call : d # c => call'[d] = call[d]
  BY <1>1 DEF Issue, Done, FuseTypeOK
<1> QED BY <1>1, <1>2, TouchedHandles

LEMMA InsertAndWriteHandles ==
  ASSUME FuseTypeOK, HandlesOK, NEW c \in Call, InsertAndWrite(c)
  PROVE  HandlesOK'
<1>10. PICK w : w = call[c]
  OBVIOUS
<1>11. PICK bufs : bufs = or_insert(w.fh, [path |-> w.path, data |-> w.data, dirty |-> FALSE])
  OBVIOUS
<1>12. PICK D : D = DOMAIN buffer \union {w.fh}
  OBVIOUS
<1>1. /\ w \in Inserting /\ D \in SUBSET Handle /\ w.fh \in D
      /\ bufs \in [D -> BufferState] /\ Splice(w.fh, bufs, w.at, w.byte)
      /\ \A g \in DOMAIN buffer : bufs[g] = buffer[g]
  BY <1>10, <1>11, <1>12, FirstWritten
<1>2. Goes(c, Done) /\ given' = given /\ call[c].pc = "insert"
  BY DEF InsertAndWrite
<1>3. call'[c].pc = "done" /\ \A d \in Call : d # c => call'[d] = call[d]
  BY <1>2, GoesCall, DoneState DEF FuseTypeOK
<1>4. w.at \in 1..Extent /\ w.byte \in Nat /\ acked \in [Handle -> Acked]
  BY <1>1 DEF Inserting, FuseTypeOK
<1>13. /\ DOMAIN buffer' = D /\ \A g \in D : g # w.fh => buffer'[g] = bufs[g]
       /\ \A g \in Handle : g # w.fh => acked'[g] = acked[g]
  BY <1>1, <1>4, SpliceBuffer
<1>5. \A g \in DOMAIN buffer : g # w.fh => buffer'[g] = buffer[g]
  BY <1>1, <1>12, <1>13
<1>6. Uses(c, w.fh) /\ w.fh = call[c].fh
  BY <1>10, <1>2 DEF Uses
<1>7. \A d \in Call : call[d].pc = "create" => call[d].fh # w.fh
  BY <1>2, <1>6 DEF HandlesOK
<1>8. \A d \in Call : call[d].pc = "store" /\ call[d].closing => call[d].fh # w.fh
  BY <1>2, <1>6 DEF HandlesOK
<1> QED BY <1>1, <1>2, <1>3, <1>5, <1>7, <1>8, <1>12, <1>13 DEF HandlesOK, Uses

LEMMA FlushHandles ==
  ASSUME FuseTypeOK, HandlesOK, NEW c \in Call, NEW h \in Handle, Flush(c, h)
  PROVE  HandlesOK'
<1>1. h \in DOMAIN buffer /\ Usable(h) /\ TakePending(c, h, FALSE) /\ UNCHANGED <<given, acked>>
  BY DEF Flush
<1> QED BY <1>1, Taken, TouchedHandles

LEMMA NoUses ==
  ASSUME FuseTypeOK, NEW h, On(h) = {} PROVE \A c \in Call : ~Uses(c, h)
BY OnUses DEF FuseTypeOK

LEMMA ReleaseHandles ==
  ASSUME FuseTypeOK, HandlesOK, NEW c \in Call, NEW h \in Handle, Release(c, h)
  PROVE  HandlesOK'
<1>1. h \in DOMAIN buffer /\ given' = given /\ \A d \in Call : ~Uses(d, h)
  BY NoUses DEF Release
<1>2. h \in 1..given /\ h <= given
  BY <1>1, GivenHandles DEF FuseTypeOK
<1>3. CASE buffer[h].dirty
  <2>1. TakePending(c, h, TRUE) /\ acked' = acked
    BY <1>3 DEF Release
  <2>2. /\ call[c].pc = "done" /\ call'[c].pc = "store" /\ call'[c].fh = h
        /\ \A d \in Call : d # c => call'[d] = call[d]
        /\ DOMAIN buffer' = DOMAIN buffer /\ ~buffer'[h].dirty
        /\ \A g \in DOMAIN buffer : g # h => buffer'[g] = buffer[g]
    BY <1>1, <2>1, Taken
  <2> QED BY <1>1, <1>2, <2>1, <2>2 DEF HandlesOK, Uses
<1>4. CASE ~buffer[h].dirty
  <2>1. Issue(c, Done) /\ Forget(h, buffer)
    BY <1>4 DEF Release
  <2>2. call'[c].pc = "done" /\ call[c].pc = "done" /\ \A d \in Call : d # c => call'[d] = call[d]
    BY <2>1, IssueCall, DoneState DEF FuseTypeOK
  <2>3. /\ DOMAIN buffer' = DOMAIN buffer \ {h} /\ \A g \in DOMAIN buffer' : buffer'[g] = buffer[g]
        /\ acked'[h] = Empty /\ \A g \in Handle : g # h => acked'[g] = acked[g]
    BY <2>1, Forgotten
  <2> QED BY <1>1, <2>2, <2>3 DEF HandlesOK, Uses
<1> QED BY <1>3, <1>4

LEMMA StoreHandles ==
  ASSUME FuseTypeOK, HandlesOK, NEW c \in Call, NEW written \in BOOLEAN, Store(c, written)
  PROVE  HandlesOK'
<1>1. PICK h : h = call[c].fh
  OBVIOUS
<1>2. call[c].pc = "store" /\ Goes(c, Done) /\ given' = given
  BY DEF Store
<1>3. h \in Handle /\ Uses(c, h) /\ h \in DOMAIN buffer
  BY <1>1, <1>2, UsedHandle DEF HandlesOK
<1>4. call'[c].pc = "done" /\ \A d \in Call : d # c => call'[d] = call[d]
  BY <1>2, GoesCall, DoneState DEF FuseTypeOK
<1>5. CASE call[c].closing
  <2>1. Forget(h, buffer)
    BY <1>1, <1>5 DEF Store
  <2>2. /\ DOMAIN buffer' = DOMAIN buffer \ {h} /\ \A g \in DOMAIN buffer' : buffer'[g] = buffer[g]
        /\ acked'[h] = Empty /\ \A g \in Handle : g # h => acked'[g] = acked[g]
    BY <1>3, <2>1, Forgotten
  <2>3. \A d \in Call : Uses(d, h) => d = c
    BY <1>1, <1>2, <1>5 DEF HandlesOK
  <2> QED BY <1>1, <1>2, <1>3, <1>4, <2>2, <2>3 DEF HandlesOK, Uses
<1>6. CASE ~call[c].closing
  <2>1. UNCHANGED <<buffer, acked>>
    BY <1>6 DEF Store
  <2> QED BY <1>2, <1>4, <2>1 DEF HandlesOK, Uses
<1> QED BY <1>5, <1>6

LEMMA TruncateHandles ==
  ASSUME FuseTypeOK, HandlesOK, NEW c \in Call, NEW h \in Handle, NEW size \in 0..Extent,
         TruncateBuffer(c, h, size)
  PROVE  HandlesOK'
<1>1. call'[c].pc = "done" /\ call[c].pc = "done" /\ \A d \in Call : d # c => call'[d] = call[d]
  BY Truncated, IssueCall, DoneState DEF FuseTypeOK
<1> QED BY <1>1, Truncated, TouchedHandles

\* Calls that touch no handle: only a rename starts, when no name is in the making.
LEMMA OtherHandles ==
  ASSUME FuseTypeOK, HandlesOK, NEW c \in Call, given' = given, acked' = acked,
         DOMAIN buffer' = DOMAIN buffer, \A h \in DOMAIN buffer : buffer'[h].dirty = buffer[h].dirty,
         call'[c].pc \in {"done", "resize", "retarget"}, call'[c].pc = "retarget" => NamesAtRest,
         \A d \in Call : d # c => call'[d] = call[d]
  PROVE  HandlesOK'
BY DEF HandlesOK, Uses, NamesAtRest

LEMMA RemainingHandles ==
  ASSUME FuseTypeOK, HandlesOK, NEW c \in Call, NEW p \in Name, NEW q \in Name, NEW size \in 0..Extent,
         \/ ReadForTruncate(c, p, size) \/ StoreTruncated(c) \/ Rename(c, p, q) \/ Retarget(c)
         \/ Unlink(c, p)
  PROVE  HandlesOK'
<1> USE DEF FuseTypeOK
<1>1. CASE ReadForTruncate(c, p, size)
  <2>1. call'[c].pc = "resize" /\ \A d \in Call : d # c => call'[d] = call[d]
    BY <1>1 DEF ReadForTruncate, Issue
  <2> QED BY <1>1, <2>1, OtherHandles DEF ReadForTruncate
<1>2. CASE StoreTruncated(c)
  <2>1. call'[c].pc = "done" /\ \A d \in Call : d # c => call'[d] = call[d]
    BY <1>2, GoesCall, DoneState DEF StoreTruncated
  <2> QED BY <1>2, <2>1, OtherHandles DEF StoreTruncated
<1>3. CASE Rename(c, p, q)
  <2>1. call'[c].pc = "retarget" /\ \A d \in Call : d # c => call'[d] = call[d]
    BY <1>3 DEF Rename, Issue
  <2> QED BY <1>3, <2>1, OtherHandles DEF Rename
<1>4. CASE Retarget(c)
  <2>1. call'[c].pc = "done" /\ \A d \in Call : d # c => call'[d] = call[d]
    BY <1>4, GoesCall, DoneState DEF Retarget
  <2>2. call[c].from \in Name /\ call[c].path \in Name
    BY <1>4, CallFields DEF Retarget, Moves
  <2>3. DOMAIN buffer' = DOMAIN buffer /\ \A h \in DOMAIN buffer : buffer'[h].dirty = buffer[h].dirty
    BY <1>4, <2>2, RetargetedBuffer DEF Retarget
  <2> QED BY <1>4, <2>1, <2>3, OtherHandles DEF Retarget
<1>5. CASE Unlink(c, p)
  <2>1. call'[c].pc = "done" /\ \A d \in Call : d # c => call'[d] = call[d]
    BY <1>5, IssueCall, DoneState DEF Unlink
  <2> QED BY <1>5, <2>1, OtherHandles DEF Unlink
<1> QED BY <1>1, <1>2, <1>3, <1>4, <1>5

LEMMA SizeExists == 0 \in 0..Extent
BY ExtentAssumption

LEMMA HandlesStep ==
  ASSUME FuseTypeOK, HandlesOK, [FuseNext]_fuseVars PROVE HandlesOK'
<1>1. CASE UNCHANGED fuseVars
  BY <1>1 DEF fuseVars, HandlesOK, Uses
<1>2. ASSUME NEW c \in Call, StoreTruncated(c) PROVE HandlesOK'
  <2>1. PICK p \in Name : TRUE
    BY <1>2, CallFields DEF StoreTruncated, Resizing, FuseTypeOK
  <2> QED BY <1>2, <2>1, SizeExists, RemainingHandles
<1>3. ASSUME NEW c \in Call, Retarget(c) PROVE HandlesOK'
  <2>1. PICK p \in Name : TRUE
    BY <1>3, CallFields DEF Retarget, Moves, FuseTypeOK
  <2> QED BY <1>3, <2>1, SizeExists, RemainingHandles
<1> QED
  BY <1>1, <1>2, <1>3, OpenHandles, BeginCreateHandles, EndCreateHandles, WriteBufferedHandles,
     ReadForWriteHandles, InsertAndWriteHandles, FlushHandles, ReleaseHandles, StoreHandles,
     TruncateHandles, RemainingHandles, SizeExists DEF FuseNext

-----------------------------------------------------------------------------
(* What was answered for is in the buffers. *)

LEMMA OpenHolds ==
  ASSUME FuseTypeOK, HandlesOK, BufferHoldsWrites, NEW p \in Name, NEW truncate \in BOOLEAN,
         Open(p, truncate)
  PROVE  BufferHoldsWrites'
<1>1. /\ given + 1 \in Handle /\ acked' = acked
      /\ DOMAIN buffer' \subseteq DOMAIN buffer \union {given + 1}
      /\ \A h \in DOMAIN buffer : buffer'[h] = buffer[h]
  BY GivenHandles DEF Open, new_fh
<1>2. DOMAIN acked[given + 1] = {}
  BY <1>1, GivenHandles, EmptyParts DEF HandlesOK
<1> QED BY <1>1, <1>2 DEF BufferHoldsWrites

LEMMA EndCreateHolds ==
  ASSUME FuseTypeOK, HandlesOK, BufferHoldsWrites, NEW c \in Call, EndCreate(c)
  PROVE  BufferHoldsWrites'
<1>1. PICK h : h = call[c].fh
  OBVIOUS
<1>2. /\ call[c].pc = "create" /\ acked' = acked /\ DOMAIN buffer' = DOMAIN buffer \union {h}
      /\ \A g \in DOMAIN buffer : g # h => buffer'[g] = buffer[g]
  BY <1>1 DEF EndCreate
<1>3. h \in Handle /\ h \notin DOMAIN buffer
  BY <1>1, <1>2, UsedHandle DEF HandlesOK
<1>4. DOMAIN acked[h] = {}
  BY <1>3, EmptyParts DEF HandlesOK
<1> QED BY <1>2, <1>3, <1>4 DEF BufferHoldsWrites

LEMMA WriteBufferedHolds ==
  ASSUME FuseTypeOK, BufferHoldsWrites, NEW c \in Call, NEW h \in Handle, NEW i \in 1..Extent,
         WriteBuffered(c, h, i)
  PROVE  BufferHoldsWrites'
<1>1. h \in DOMAIN buffer /\ Issue(c, Done) /\ Splice(h, buffer, i, issued')
  BY DEF WriteBuffered
<1>2. issued' \in Nat
  BY <1>1 DEF Issue, FuseTypeOK
<1>3. DOMAIN buffer \in SUBSET Handle /\ buffer \in [DOMAIN buffer -> BufferState]
  BY GivenHandles DEF FuseTypeOK
<1>4. \A j \in DOMAIN acked[h] : j \in DOMAIN buffer[h].data /\ buffer[h].data[j] = acked[h][j]
  BY <1>1 DEF BufferHoldsWrites
<1>5. /\ DOMAIN buffer' = DOMAIN buffer /\ \A g \in DOMAIN buffer : g # h => buffer'[g] = buffer[g]
      /\ \A g \in Handle : g # h => acked'[g] = acked[g]
      /\ \A j \in DOMAIN acked'[h] :
           j \in DOMAIN buffer'[h].data /\ buffer'[h].data[j] = acked'[h][j]
  BY <1>1, <1>2, <1>3, <1>4, SpliceBuffer DEF FuseTypeOK
<1> QED BY <1>3, <1>5 DEF BufferHoldsWrites

LEMMA InsertAndWriteHolds ==
  ASSUME FuseTypeOK, HandlesOK, BufferHoldsWrites, NEW c \in Call, InsertAndWrite(c)
  PROVE  BufferHoldsWrites'
<1>1. PICK w : w = call[c]
  OBVIOUS
<1>2. PICK bufs : bufs = or_insert(w.fh, [path |-> w.path, data |-> w.data, dirty |-> FALSE])
  OBVIOUS
<1>3. PICK D : D = DOMAIN buffer \union {w.fh}
  OBVIOUS
<1>4. /\ w \in Inserting /\ D \in SUBSET Handle /\ w.fh \in D
      /\ bufs \in [D -> BufferState] /\ Splice(w.fh, bufs, w.at, w.byte)
      /\ \A g \in DOMAIN buffer : bufs[g] = buffer[g]
  BY <1>1, <1>2, <1>3, FirstWritten
<1>5. w.at \in 1..Extent /\ w.byte \in Nat /\ w.fh \in Handle
  BY <1>4 DEF Inserting
<1>6. \A j \in DOMAIN acked[w.fh] :
        j \in DOMAIN bufs[w.fh].data /\ bufs[w.fh].data[j] = acked[w.fh][j]
  <2>1. CASE w.fh \in DOMAIN buffer
    BY <1>4, <2>1 DEF BufferHoldsWrites
  <2>2. CASE w.fh \notin DOMAIN buffer
    BY <1>5, <2>2, EmptyParts DEF HandlesOK
  <2> QED BY <2>1, <2>2
<1>7. /\ DOMAIN buffer' = D /\ \A g \in D : g # w.fh => buffer'[g] = bufs[g]
      /\ \A g \in Handle : g # w.fh => acked'[g] = acked[g]
      /\ \A j \in DOMAIN acked'[w.fh] :
           j \in DOMAIN buffer'[w.fh].data /\ buffer'[w.fh].data[j] = acked'[w.fh][j]
  <2>1. PICK h, i, byte : h = w.fh /\ i = w.at /\ byte = w.byte
    OBVIOUS
  <2>2. /\ h \in D /\ i \in 1..Extent /\ byte \in Nat /\ acked \in [Handle -> Acked]
        /\ Splice(h, bufs, i, byte)
    BY <1>4, <1>5, <2>1 DEF FuseTypeOK
  <2>3. \A j \in DOMAIN acked[h] : j \in DOMAIN bufs[h].data /\ bufs[h].data[j] = acked[h][j]
    BY <1>6, <2>1
  <2>4. /\ DOMAIN buffer' = D /\ \A g \in D : g # h => buffer'[g] = bufs[g]
        /\ \A g \in Handle : g # h => acked'[g] = acked[g]
        /\ \A j \in DOMAIN acked'[h] :
             j \in DOMAIN buffer'[h].data /\ buffer'[h].data[j] = acked'[h][j]
    BY <1>4, <2>2, <2>3, SpliceBuffer
  <2> QED BY <2>1, <2>4
<1>8. \A g \in DOMAIN buffer : g # w.fh => buffer'[g] = buffer[g]
  BY <1>3, <1>4, <1>7
<1> QED BY <1>3, <1>4, <1>7, <1>8 DEF BufferHoldsWrites

\* Nothing else changes what a buffer that stays holds, or what was answered for.
LEMMA SameHolds ==
  ASSUME BufferHoldsWrites, DOMAIN buffer' \subseteq DOMAIN buffer,
         \A h \in DOMAIN buffer' : buffer'[h].data = buffer[h].data /\ acked'[h] = acked[h]
  PROVE  BufferHoldsWrites'
BY DEF BufferHoldsWrites

LEMMA TakenHolds ==
  ASSUME FuseTypeOK, BufferHoldsWrites, NEW c \in Call, NEW h \in DOMAIN buffer,
         NEW closing \in BOOLEAN, TakePending(c, h, closing), acked' = acked
  PROVE  BufferHoldsWrites'
BY Taken, SameHolds

LEMMA ForgottenHolds ==
  ASSUME FuseTypeOK, BufferHoldsWrites, NEW h \in Handle, Forget(h, buffer)
  PROVE  BufferHoldsWrites'
BY Forgotten, SameHolds, GivenHandles

LEMMA StoreHolds ==
  ASSUME FuseTypeOK, BufferHoldsWrites, NEW c \in Call, NEW written \in BOOLEAN, Store(c, written)
  PROVE  BufferHoldsWrites'
<1>1. call[c].fh \in Handle
  BY CallFields DEF Store, Storing, FuseTypeOK
<1>2. CASE call[c].closing
  BY <1>1, <1>2, ForgottenHolds DEF Store
<1>3. CASE ~call[c].closing
  BY <1>3, SameHolds DEF Store
<1> QED BY <1>2, <1>3

LEMMA TruncateHolds ==
  ASSUME FuseTypeOK, BufferHoldsWrites, NEW c \in Call, NEW h \in Handle, NEW size \in 0..Extent,
         TruncateBuffer(c, h, size)
  PROVE  BufferHoldsWrites'
<1>1. /\ DOMAIN buffer' = DOMAIN buffer /\ \A g \in DOMAIN buffer : g # h => buffer'[g] = buffer[g]
      /\ DOMAIN acked'[h] = {} /\ \A g \in Handle : g # h => acked'[g] = acked[g]
  BY Truncated, EmptyParts
<1> QED BY <1>1, GivenHandles DEF BufferHoldsWrites

LEMMA RetargetHolds ==
  ASSUME FuseTypeOK, BufferHoldsWrites, NEW c \in Call, Retarget(c)
  PROVE  BufferHoldsWrites'
<1>1. call[c].from \in Name /\ call[c].path \in Name
  BY CallFields DEF Retarget, Moves, FuseTypeOK
<1> QED BY <1>1, RetargetedBuffer, SameHolds DEF Retarget

LEMMA HoldsStep ==
  ASSUME FuseTypeOK, HandlesOK, BufferHoldsWrites, [FuseNext]_fuseVars PROVE BufferHoldsWrites'
<1>1. CASE UNCHANGED <<buffer, acked>>
  BY <1>1 DEF BufferHoldsWrites
<1>2. ASSUME NEW c \in Call, NEW h \in Handle, Release(c, h) PROVE BufferHoldsWrites'
  BY <1>2, TakenHolds, ForgottenHolds DEF Release
<1>3. ASSUME NEW c \in Call, NEW h \in Handle, Flush(c, h) PROVE BufferHoldsWrites'
  BY <1>3, TakenHolds DEF Flush
<1>5. ASSUME NEW c \in Call, StoreTruncated(c) PROVE UNCHANGED <<buffer, acked>>
  BY <1>5 DEF StoreTruncated
<1>6. ASSUME NEW c \in Call, NEW p \in Name, BeginCreate(c, p) PROVE UNCHANGED <<buffer, acked>>
  BY <1>6 DEF BeginCreate
<1>7. ASSUME NEW c \in Call, NEW h \in Handle, NEW i \in 1..Extent, ReadForWrite(c, h, i)
      PROVE UNCHANGED <<buffer, acked>>
  BY <1>7 DEF ReadForWrite
<1>8. ASSUME NEW c \in Call, NEW p \in Name, NEW size \in 0..Extent, ReadForTruncate(c, p, size)
      PROVE UNCHANGED <<buffer, acked>>
  BY <1>8 DEF ReadForTruncate
<1>9. ASSUME NEW c \in Call, NEW p \in Name, NEW q \in Name, Rename(c, p, q)
      PROVE UNCHANGED <<buffer, acked>>
  BY <1>9 DEF Rename
<1>10. ASSUME NEW c \in Call, NEW p \in Name, Unlink(c, p) PROVE UNCHANGED <<buffer, acked>>
  BY <1>10 DEF Unlink
<1>11. CASE UNCHANGED fuseVars
  BY <1>1, <1>11 DEF fuseVars
<1> QED
  BY <1>1, <1>2, <1>3, <1>5, <1>6, <1>7, <1>8, <1>9, <1>10, <1>11, OpenHolds, EndCreateHolds,
     WriteBufferedHolds, InsertAndWriteHolds, StoreHolds, TruncateHolds, RetargetHolds DEF FuseNext

-----------------------------------------------------------------------------
(* Buffers follow their files. *)

Follows == Loads /\ FollowUnlessRaced

LEMMA OpenFollows ==
  ASSUME FuseTypeOK, HandlesOK, Follows, NEW p \in Name, NEW truncate \in BOOLEAN, Open(p, truncate)
  PROVE  Follows'
<1>1. /\ given + 1 \in Handle /\ call' = call /\ raced' = raced
      /\ DOMAIN buffer' \subseteq DOMAIN buffer \union {given + 1}
      /\ \A h \in DOMAIN buffer : buffer'[h] = buffer[h]
      /\ given + 1 \in DOMAIN buffer' => buffer'[given + 1].path = p
  BY GivenHandles DEF Open, new_fh
<1>2. known'[given + 1] = p /\ \A h \in Handle : h # given + 1 => known'[h] = known[h]
  BY <1>1 DEF Open, new_fh, FuseTypeOK
<1>3. \A c \in Call : call[c].pc \in {"create", "insert"} =>
        call[c].fh # given + 1 /\ call[c].fh \in Handle
  BY UsedHandle, GivenHandles
<1> QED BY <1>1, <1>2, <1>3, GivenHandles DEF Follows, Loads, FollowUnlessRaced

LEMMA BeginCreateFollows ==
  ASSUME FuseTypeOK, HandlesOK, Follows, NEW c \in Call, NEW p \in Name, BeginCreate(c, p)
  PROVE  Follows'
<1>1. /\ given + 1 \in Handle /\ buffer' = buffer /\ raced' = raced
      /\ Issue(c, [pc |-> "create", fh |-> given + 1, path |-> p])
  BY DEF BeginCreate, new_fh
<1>2. /\ call'[c].pc = "create" /\ call'[c].fh = given + 1 /\ call'[c].path = p
      /\ \A d \in Call : d # c => call'[d] = call[d]
  BY <1>1 DEF Issue, FuseTypeOK
<1>3. known'[given + 1] = p /\ \A h \in Handle : h # given + 1 => known'[h] = known[h]
  BY <1>1 DEF BeginCreate, new_fh, FuseTypeOK
<1>4. \A d \in Call : call[d].pc \in {"create", "insert"} =>
        call[d].fh # given + 1 /\ call[d].fh \in Handle
  BY UsedHandle, GivenHandles
<1> QED BY <1>1, <1>2, <1>3, <1>4, GivenHandles DEF Follows, Loads, FollowUnlessRaced

LEMMA EndCreateFollows ==
  ASSUME FuseTypeOK, HandlesOK, Follows, NEW c \in Call, EndCreate(c)
  PROVE  Follows'
<1>1. PICK h : h = call[c].fh
  OBVIOUS
<1>2. /\ call[c].pc = "create" /\ Goes(c, Done) /\ DOMAIN buffer' = DOMAIN buffer \union {h}
      /\ \A g \in DOMAIN buffer : g # h => buffer'[g] = buffer[g]
      /\ buffer'[h].path = call[c].path
      /\ UNCHANGED <<known, raced>>
  BY <1>1 DEF EndCreate
<1>3. call'[c].pc = "done" /\ \A d \in Call : d # c => call'[d] = call[d]
  BY <1>2, GoesCall, DoneState DEF FuseTypeOK
<1>4. known[h] # Nowhere /\ h \notin raced => call[c].path = known[h]
  BY <1>1, <1>2 DEF Follows, Loads
<1> QED BY <1>2, <1>3, <1>4 DEF Follows, Loads, FollowUnlessRaced

\* A call that keeps the paths of the buffers, and reads a file by the path the
\* kernel knows.
LEMMA SameFollows ==
  ASSUME FuseTypeOK, HandlesOK, Follows, NEW c \in Call, \A d \in Call : d # c => call'[d] = call[d],
         call'[c].pc # "create", call'[c].pc = "insert" => call'[c].path = known'[call'[c].fh],
         raced \subseteq raced', \A h \in Handle : known'[h] \in {known[h], Nowhere},
         DOMAIN buffer' \subseteq DOMAIN buffer,
         \A h \in DOMAIN buffer' : buffer'[h].path = buffer[h].path
  PROVE  Follows'
<1>1. \A d \in Call : call[d].pc \in {"create", "insert"} => call[d].fh \in Handle
  BY UsedHandle
<1>2. Loads'
  BY <1>1 DEF Follows, Loads
<1>3. FollowUnlessRaced'
  BY GivenHandles DEF Follows, FollowUnlessRaced
<1> QED BY <1>2, <1>3 DEF Follows

LEMMA WriteBufferedFollows ==
  ASSUME FuseTypeOK, HandlesOK, Follows, NEW c \in Call, NEW h \in Handle, NEW i \in 1..Extent,
         WriteBuffered(c, h, i)
  PROVE  Follows'
<1>1. /\ h \in DOMAIN buffer /\ Issue(c, Done) /\ Splice(h, buffer, i, issued')
      /\ UNCHANGED <<known, raced>>
  BY DEF WriteBuffered
<1>2. call'[c].pc = "done" /\ issued' \in Nat /\ \A d \in Call : d # c => call'[d] = call[d]
  BY <1>1, IssueCall, DoneState DEF FuseTypeOK
<1>3. DOMAIN buffer \in SUBSET Handle /\ buffer \in [DOMAIN buffer -> BufferState]
  BY GivenHandles DEF FuseTypeOK
<1>4. /\ DOMAIN buffer' = DOMAIN buffer /\ buffer'[h].path = buffer[h].path
      /\ \A g \in DOMAIN buffer : g # h => buffer'[g] = buffer[g]
  BY <1>1, <1>2, <1>3, SpliceBuffer DEF FuseTypeOK
<1> QED BY <1>1, <1>2, <1>4, SameFollows

LEMMA ReadForWriteFollows ==
  ASSUME FuseTypeOK, HandlesOK, Follows, NEW c \in Call, NEW h \in Handle, NEW i \in 1..Extent,
         ReadForWrite(c, h, i)
  PROVE  Follows'
<1>1. PICK s : /\ Issue(c, s) /\ s.pc = "insert" /\ s.fh = h /\ s.path = known[h]
               /\ UNCHANGED <<known, buffer, raced>>
  BY DEF ReadForWrite
<1>2. call'[c] = s /\ \A d \in Call : d # c => call'[d] = call[d]
  BY <1>1 DEF Issue, FuseTypeOK
<1> QED BY <1>1, <1>2, SameFollows

LEMMA InsertAndWriteFollows ==
  ASSUME FuseTypeOK, HandlesOK, Follows, NEW c \in Call, InsertAndWrite(c)
  PROVE  Follows'
<1>1. PICK w : w = call[c]
  OBVIOUS
<1>2. PICK bufs : bufs = or_insert(w.fh, [path |-> w.path, data |-> w.data, dirty |-> FALSE])
  OBVIOUS
<1>3. PICK D : D = DOMAIN buffer \union {w.fh}
  OBVIOUS
<1>4. /\ w \in Inserting /\ D \in SUBSET Handle /\ w.fh \in D
      /\ bufs \in [D -> BufferState] /\ Splice(w.fh, bufs, w.at, w.byte)
      /\ \A g \in DOMAIN buffer : bufs[g] = buffer[g]
      /\ w.fh \notin DOMAIN buffer => bufs[w.fh].path = w.path
  BY <1>1, <1>2, <1>3, FirstWritten
<1>5. w.at \in 1..Extent /\ w.byte \in Nat /\ w.fh \in Handle
  BY <1>4 DEF Inserting
<1>12. acked \in [Handle -> Acked]
  BY DEF FuseTypeOK
<1>13. DOMAIN buffer' = D /\ \A g \in D : g # w.fh => buffer'[g] = bufs[g]
  BY <1>4, <1>5, <1>12, SpliceBuffer
<1>14. buffer'[w.fh].path = bufs[w.fh].path
  <2>1. PICK h \in D, i \in 1..Extent, byte \in Nat : h = w.fh /\ i = w.at /\ byte = w.byte
    BY <1>4, <1>5
  <2>2. Splice(h, bufs, i, byte)
    BY <1>4, <2>1
  <2>3. buffer'[h].path = bufs[h].path
    BY <1>4, <1>12, <2>2, SpliceBuffer
  <2> QED BY <2>1, <2>3
<1>6. /\ DOMAIN buffer' = D /\ buffer'[w.fh].path = bufs[w.fh].path
      /\ \A g \in D : g # w.fh => buffer'[g] = bufs[g]
  BY <1>13, <1>14
<1>7. call[c].pc = "insert" /\ Goes(c, Done) /\ UNCHANGED <<known, raced>>
  BY DEF InsertAndWrite
<1>8. call'[c].pc = "done" /\ \A d \in Call : d # c => call'[d] = call[d]
  BY <1>7, GoesCall, DoneState DEF FuseTypeOK
<1>9. known[w.fh] # Nowhere /\ w.fh \notin raced => w.path = known[w.fh]
  BY <1>1, <1>7 DEF Follows, Loads
<1>10. Loads'
  BY <1>7, <1>8 DEF Follows, Loads
<1>11. FollowUnlessRaced'
  <2>1. SUFFICES ASSUME NEW h \in D, known[h] # Nowhere, h \notin raced
                 PROVE  buffer'[h].path = known[h]
    BY <1>6, <1>7 DEF FollowUnlessRaced
  <2>2. buffer'[h].path = bufs[h].path
    BY <1>6
  <2>3. CASE h \in DOMAIN buffer
    BY <1>4, <2>1, <2>2, <2>3 DEF Follows, FollowUnlessRaced
  <2>4. CASE h \notin DOMAIN buffer
    BY <1>3, <1>4, <1>9, <2>1, <2>2, <2>4
  <2> QED BY <2>3, <2>4
<1> QED BY <1>10, <1>11 DEF Follows

LEMMA TakenFollows ==
  ASSUME FuseTypeOK, HandlesOK, Follows, NEW c \in Call, NEW h \in DOMAIN buffer,
         NEW closing \in BOOLEAN, TakePending(c, h, closing), UNCHANGED <<known, raced>>
  PROVE  Follows'
BY Taken, SameFollows

LEMMA ForgottenFollows ==
  ASSUME FuseTypeOK, HandlesOK, Follows, NEW c \in Call, NEW h \in Handle, Forget(h, buffer),
         raced' = raced, call'[c].pc = "done", \A d \in Call : d # c => call'[d] = call[d]
  PROVE  Follows'
<1>1. \A g \in Handle : known'[g] \in {known[g], Nowhere}
  BY Forgotten
<1> QED BY <1>1, Forgotten, SameFollows

LEMMA ReleaseFollows ==
  ASSUME FuseTypeOK, HandlesOK, Follows, NEW c \in Call, NEW h \in Handle, Release(c, h)
  PROVE  Follows'
<1>1. CASE buffer[h].dirty
  BY <1>1, TakenFollows DEF Release
<1>2. CASE ~buffer[h].dirty
  <2>1. Issue(c, Done) /\ Forget(h, buffer) /\ raced' = raced
    BY <1>2 DEF Release
  <2>2. call'[c].pc = "done" /\ \A d \in Call : d # c => call'[d] = call[d]
    BY <2>1, IssueCall, DoneState DEF FuseTypeOK
  <2> QED BY <2>1, <2>2, ForgottenFollows
<1> QED BY <1>1, <1>2

LEMMA StoreFollows ==
  ASSUME FuseTypeOK, HandlesOK, Follows, NEW c \in Call, NEW written \in BOOLEAN, Store(c, written)
  PROVE  Follows'
<1>1. call[c].fh \in Handle
  BY CallFields DEF Store, Storing, FuseTypeOK
<1>2. Goes(c, Done) /\ raced' = raced
  BY DEF Store
<1>3. call'[c].pc = "done" /\ \A d \in Call : d # c => call'[d] = call[d]
  BY <1>2, GoesCall, DoneState DEF FuseTypeOK
<1>4. CASE call[c].closing
  BY <1>1, <1>2, <1>3, <1>4, ForgottenFollows DEF Store
<1>5. CASE ~call[c].closing
  <2>1. UNCHANGED <<known, buffer>>
    BY <1>5 DEF Store
  <2> QED BY <1>2, <1>3, <2>1, SameFollows
<1> QED BY <1>4, <1>5

LEMMA RetargetFollows ==
  ASSUME FuseTypeOK, HandlesOK, Follows, NEW c \in Call, Retarget(c)
  PROVE  Follows'
<1>1. PICK from, to : from = call[c].from /\ to = call[c].path
  OBVIOUS
<1>2. from \in Name /\ to \in Name /\ from # Nowhere
  BY <1>1, CallFields, NowhereAssumption DEF Retarget, Moves, FuseTypeOK
<1>3. Goes(c, Done) /\ buffer' = Retargeted(from, to)
      /\ \A h \in Handle : known'[h] = IF known[h] = from THEN to
                                       ELSE IF known[h] = to THEN Nowhere ELSE known[h]
  BY <1>1 DEF Retarget
<1>4. call'[c].pc = "done" /\ \A d \in Call : d # c => call'[d] = call[d]
  BY <1>3, GoesCall, DoneState DEF FuseTypeOK
<1>5. /\ DOMAIN buffer' = DOMAIN buffer
      /\ \A h \in DOMAIN buffer :
           buffer'[h].path = IF buffer[h].path = from THEN to ELSE buffer[h].path
  BY <1>2, <1>3, RetargetedBuffer
<1>6. raced \subseteq raced'
      /\ \A h \in Handle, d \in Call :
           Uses(d, h) /\ call[d].pc \in {"insert", "create"} /\ call[d].path = from => h \in raced'
  <2>1. \A h \in Handle : On(h) = {d \in Call : Uses(d, h)}
    BY OnUses DEF FuseTypeOK
  <2> QED BY <1>1, <2>1 DEF Retarget
<1>7. Loads'
  <2>1. SUFFICES ASSUME NEW d \in Call, call'[d].pc \in {"insert", "create"},
                        known'[call'[d].fh] # Nowhere, call'[d].fh \notin raced'
                 PROVE  call'[d].path = known'[call'[d].fh]
    BY DEF Loads
  <2>2. call'[d] = call[d] /\ call[d].pc \in {"insert", "create"}
    BY <1>4, <2>1
  <2>3. PICK h \in Handle : h = call[d].fh /\ Uses(d, h)
    BY <2>2, UsedHandle
  <2>4. h \notin raced /\ call[d].path # from
    BY <1>6, <2>1, <2>2, <2>3
  <2>5. known[h] # Nowhere
    BY <1>2, <1>3, <2>1, <2>2, <2>3
  <2>6. call[d].path = known[h]
    BY <2>2, <2>3, <2>4, <2>5 DEF Follows, Loads
  <2> QED BY <1>3, <2>1, <2>2, <2>3, <2>4, <2>6
<1>8. FollowUnlessRaced'
  <2>1. SUFFICES ASSUME NEW h \in DOMAIN buffer, known'[h] # Nowhere, h \notin raced'
                 PROVE  buffer'[h].path = known'[h]
    BY <1>5 DEF FollowUnlessRaced
  <2>2. h \in Handle /\ h \notin raced /\ known[h] # Nowhere
    BY <1>2, <1>3, <1>6, <2>1, GivenHandles
  <2>3. buffer[h].path = known[h]
    BY <2>2 DEF Follows, FollowUnlessRaced
  <2> QED BY <1>3, <1>5, <2>1, <2>2, <2>3
<1> QED BY <1>7, <1>8 DEF Follows

LEMMA RemainingFollows ==
  ASSUME FuseTypeOK, HandlesOK, Follows, NEW c \in Call, NEW p \in Name, NEW q \in Name,
         NEW size \in 0..Extent,
         \/ ReadForTruncate(c, p, size) \/ StoreTruncated(c) \/ Rename(c, p, q) \/ Unlink(c, p)
  PROVE  Follows'
<1>1. /\ buffer' = buffer /\ raced' = raced
      /\ \A h \in Handle : known'[h] \in {known[h], Nowhere}
  BY DEF ReadForTruncate, StoreTruncated, Rename, Unlink
<1>2. /\ call'[c].pc \in {"resize", "done", "retarget"}
      /\ \A d \in Call : d # c => call'[d] = call[d]
  BY DEF ReadForTruncate, StoreTruncated, Rename, Unlink, Issue, Goes, Done, FuseTypeOK
<1> QED BY <1>1, <1>2, SameFollows

LEMMA TruncateFollows ==
  ASSUME FuseTypeOK, HandlesOK, Follows, NEW c \in Call, NEW h \in Handle, NEW size \in 0..Extent,
         TruncateBuffer(c, h, size)
  PROVE  Follows'
<1>1. call'[c].pc = "done" /\ \A d \in Call : d # c => call'[d] = call[d]
  BY Truncated, IssueCall, DoneState DEF FuseTypeOK
<1> QED BY <1>1, Truncated, SameFollows

LEMMA FollowsStep ==
  ASSUME FuseTypeOK, HandlesOK, Follows, [FuseNext]_fuseVars PROVE Follows'
<1>1. CASE UNCHANGED fuseVars
  BY <1>1 DEF fuseVars, Follows, Loads, FollowUnlessRaced
<1>2. ASSUME NEW c \in Call, StoreTruncated(c) PROVE Follows'
  <2>1. PICK p \in Name : TRUE
    BY <1>2, CallFields DEF StoreTruncated, Resizing, FuseTypeOK
  <2> QED BY <1>2, <2>1, SizeExists, RemainingFollows
<1>3. ASSUME NEW c \in Call, NEW h \in Handle, Flush(c, h) PROVE Follows'
  BY <1>3, TakenFollows DEF Flush
<1> QED
  BY <1>1, <1>2, <1>3, OpenFollows, BeginCreateFollows, EndCreateFollows, WriteBufferedFollows,
     ReadForWriteFollows, InsertAndWriteFollows, ReleaseFollows, StoreFollows, TruncateFollows,
     RemainingFollows, RetargetFollows, SizeExists DEF FuseNext

-----------------------------------------------------------------------------
(* Commits reach their files. *)

Stores(c, h) == call[c].pc = "store" /\ call[c].fh = h
MovesFrom(c, p) == call[c].pc = "retarget" /\ call[c].from = p

\* The file of a handle, wherever a rename under way has put it, is its buffer.
Placed(h) ==
  /\ (\A d \in Call : ~MovesFrom(d, buffer[h].path)) => stored[buffer[h].path] = buffer[h].data
  /\ \A d \in Call : MovesFrom(d, buffer[h].path) => stored[call[d].path] = buffer[h].data

\* The commit under way of a handle that is not excused is its only one, is of
\* where and, unless it was written to since, of what its buffer holds, and no
\* rename of its file is under way.
StoresAgree ==
  \A h \in DOMAIN buffer, c \in Call : h \notin excused /\ Stores(c, h) =>
    /\ \A d \in Call : Stores(d, h) => d = c
    /\ call[c].path = buffer[h].path
    /\ ~buffer[h].dirty => call[c].data = buffer[h].data
    /\ \A d \in Call : ~MovesFrom(d, buffer[h].path)

\* With nothing to commit and nothing under way, the file is there.
CommittedIsPlaced ==
  \A h \in DOMAIN buffer :
    /\ h \notin excused /\ h \notin raced /\ known[h] # Nowhere /\ ~buffer[h].dirty
    /\ \A c \in Call : ~Stores(c, h)
    => Placed(h)

CommitsOK == StoresAgree /\ CommittedIsPlaced

LEMMA PathsMean ==
  ASSUME NEW h, NEW p
  PROVE  p \in Paths(h) <=>
           \/ p = buffer[h].path
           \/ \E d \in Call : MovesFrom(d, buffer[h].path) /\ call[d].path = p
BY DEF Paths, MovesFrom

LEMMA NotUpset ==
  ASSUME FuseTypeOK, NEW P, NEW h \in DOMAIN buffer, NEW g, h # g, h \notin Upset(P, g)
  PROVE  /\ buffer[h].path \notin P
         /\ \A d \in Call : MovesFrom(d, buffer[h].path) => call[d].path \notin P
<1>1. Paths(h) \intersect P = {}
  BY DEF Upset
<1> QED BY <1>1, PathsMean

\* A step that neither starts nor ends a commit or a rename.
LEMMA QuietStep ==
  ASSUME FuseTypeOK, HandlesOK, CommitsOK, NEW P,
         \A d \in Call : \/ call'[d] = call[d]
                         \/ call[d].pc \notin {"store", "retarget"} /\ call'[d].pc \notin {"store", "retarget"},
         \A p \in Name : p \notin P => stored'[p] = stored[p],
         \A h \in DOMAIN buffer \intersect DOMAIN buffer' :
           /\ buffer'[h].path = buffer[h].path
           /\ ~buffer'[h].dirty => ~buffer[h].dirty /\ buffer'[h].data = buffer[h].data
           /\ h \notin excused' => h \notin Upset(P, 0)
           /\ known'[h] \in {known[h], Nowhere},
         \A h \in DOMAIN buffer' \ DOMAIN buffer :
           buffer'[h].dirty \/ h \in excused' \/ Placed(h)',
         excused \subseteq excused', raced \subseteq raced'
  PROVE  CommitsOK'
<1>1. \A d \in Call : \A h : Stores(d, h)' <=> Stores(d, h)
  BY DEF Stores
<1>2. \A d \in Call : \A p : MovesFrom(d, p)' <=> MovesFrom(d, p)
  BY DEF MovesFrom
<1>3. \A d \in Call : \A h : Stores(d, h) => h \in DOMAIN buffer /\ call'[d] = call[d]
  BY DEF HandlesOK, Stores
<1>4. \A d \in Call : \A p : MovesFrom(d, p) => call'[d] = call[d]
  BY DEF MovesFrom
<1>5. StoresAgree'
  <2>1. SUFFICES ASSUME NEW h \in DOMAIN buffer', NEW c \in Call, h \notin excused', Stores(c, h)
                 PROVE  /\ \A d \in Call : Stores(d, h) => d = c
                        /\ call'[c].path = buffer'[h].path
                        /\ ~buffer'[h].dirty => call'[c].data = buffer'[h].data
                        /\ \A d \in Call : ~MovesFrom(d, buffer'[h].path)
    BY <1>1, <1>2 DEF StoresAgree
  <2>2. h \in DOMAIN buffer /\ call'[c] = call[c] /\ h \notin excused
    BY <1>3, <2>1
  <2>3. /\ \A d \in Call : Stores(d, h) => d = c
        /\ call[c].path = buffer[h].path
        /\ ~buffer[h].dirty => call[c].data = buffer[h].data
        /\ \A d \in Call : ~MovesFrom(d, buffer[h].path)
    BY <2>1, <2>2 DEF CommitsOK, StoresAgree
  <2> QED BY <2>1, <2>2, <2>3
<1>6. CommittedIsPlaced'
  <2>1. SUFFICES ASSUME NEW h \in DOMAIN buffer', h \notin excused', h \notin raced',
                        known'[h] # Nowhere, ~buffer'[h].dirty, \A c \in Call : ~Stores(c, h)
                 PROVE  Placed(h)'
    BY <1>1 DEF CommittedIsPlaced
  <2>2. CASE h \notin DOMAIN buffer
    BY <2>1, <2>2
  <2>3. CASE h \in DOMAIN buffer
    <3>1. /\ buffer'[h].path = buffer[h].path /\ ~buffer[h].dirty /\ buffer'[h].data = buffer[h].data
          /\ known[h] # Nowhere /\ h \notin excused /\ h \notin raced /\ h # 0
      BY <2>1, <2>3, GivenHandles DEF Handle
    <3>2. Placed(h)
      BY <2>1, <2>3, <3>1 DEF CommitsOK, CommittedIsPlaced
    <3>3. /\ buffer[h].path \notin P
          /\ \A d \in Call : MovesFrom(d, buffer[h].path) => call[d].path \notin P
      BY <2>1, <2>3, <3>1, NotUpset
    <3>4. buffer[h].path \in Name /\ \A d \in Call : MovesFrom(d, buffer[h].path) => call[d].path \in Name
      BY <2>3, CallFields DEF FuseTypeOK, BufferState, MovesFrom, Moves
    <3> QED BY <1>2, <1>4, <3>1, <3>2, <3>3, <3>4 DEF Placed
  <2> QED BY <2>2, <2>3
<1> QED BY <1>5, <1>6 DEF CommitsOK

LEMMA UpsetNothing == ASSUME NEW h, NEW g PROVE h \notin Upset({}, g)
BY DEF Upset

LEMMA OpenCommits ==
  ASSUME FuseTypeOK, HandlesOK, CommitsOK, NEW p \in Name, NEW truncate \in BOOLEAN, Open(p, truncate)
  PROVE  CommitsOK'
<1>1. /\ given + 1 \in Handle /\ UNCHANGED <<stored, call, excused, raced>>
      /\ DOMAIN buffer' \subseteq DOMAIN buffer \union {given + 1}
      /\ \A h \in DOMAIN buffer : buffer'[h] = buffer[h]
      /\ given + 1 \in DOMAIN buffer' => buffer'[given + 1].dirty
  BY GivenHandles DEF Open, new_fh
<1>2. \A h \in DOMAIN buffer : known'[h] = known[h]
  BY <1>1, GivenHandles DEF Open, new_fh, FuseTypeOK
<1> QED BY <1>1, <1>2, UpsetNothing, QuietStep

LEMMA BeginCreateCommits ==
  ASSUME FuseTypeOK, HandlesOK, CommitsOK, NEW c \in Call, NEW p \in Name, BeginCreate(c, p)
  PROVE  CommitsOK'
<1>1. /\ given + 1 \in Handle /\ buffer' = buffer /\ raced' = raced
      /\ Issue(c, [pc |-> "create", fh |-> given + 1, path |-> p])
      /\ excused' = excused \union Upset({p}, 0)
  BY DEF BeginCreate, new_fh
<1>2. /\ call'[c].pc = "create" /\ call[c].pc = "done"
      /\ \A d \in Call : d # c => call'[d] = call[d]
  BY <1>1 DEF Issue, FuseTypeOK, Done
<1>3. \A h \in DOMAIN buffer : known'[h] = known[h]
  BY <1>1, GivenHandles DEF BeginCreate, new_fh, FuseTypeOK
<1>4. \A x \in Name : x \notin {p} => stored'[x] = stored[x]
  BY DEF BeginCreate, FuseTypeOK
<1> QED BY <1>1, <1>2, <1>3, <1>4, QuietStep

LEMMA EndCreateCommits ==
  ASSUME FuseTypeOK, HandlesOK, CommitsOK, NEW c \in Call, EndCreate(c)
  PROVE  CommitsOK'
<1>1. PICK h : h = call[c].fh
  OBVIOUS
<1>2. /\ call[c].pc = "create" /\ Goes(c, Done) /\ DOMAIN buffer' = DOMAIN buffer \union {h}
      /\ \A g \in DOMAIN buffer : g # h => buffer'[g] = buffer[g]
      /\ buffer'[h].path = call[c].path /\ buffer'[h].data = <<>>
      /\ excused \subseteq excused' /\ (stored[call[c].path] # <<>> => h \in excused')
      /\ UNCHANGED <<stored, known, raced>>
  BY <1>1 DEF EndCreate
<1>3. call'[c].pc = "done" /\ \A d \in Call : d # c => call'[d] = call[d]
  BY <1>2, GoesCall, DoneState DEF FuseTypeOK
<1>4. h \notin DOMAIN buffer
  BY <1>1, <1>2 DEF HandlesOK
<1>5. \A d \in Call : \A p : ~MovesFrom(d, p)'
  <2>1. \A d \in Call : call[d].pc # "retarget"
    BY <1>2 DEF HandlesOK
  <2> QED BY <1>3, <2>1 DEF MovesFrom
<1>6. h \in excused' \/ Placed(h)'
  BY <1>2, <1>5 DEF Placed
<1> QED BY <1>2, <1>3, <1>4, <1>6, UpsetNothing, QuietStep

LEMMA WriteBufferedCommits ==
  ASSUME FuseTypeOK, HandlesOK, CommitsOK, NEW c \in Call, NEW h \in Handle, NEW i \in 1..Extent,
         WriteBuffered(c, h, i)
  PROVE  CommitsOK'
<1>1. /\ h \in DOMAIN buffer /\ Issue(c, Done) /\ Splice(h, buffer, i, issued')
      /\ UNCHANGED <<stored, known, excused, raced>>
  BY DEF WriteBuffered
<1>2. /\ call'[c].pc = "done" /\ call[c].pc = "done" /\ issued' \in Nat
      /\ \A d \in Call : d # c => call'[d] = call[d]
  BY <1>1, IssueCall, DoneState DEF FuseTypeOK
<1>3. DOMAIN buffer \in SUBSET Handle /\ buffer \in [DOMAIN buffer -> BufferState]
  BY GivenHandles DEF FuseTypeOK
<1>4. /\ DOMAIN buffer' = DOMAIN buffer /\ buffer'[h].path = buffer[h].path /\ buffer'[h].dirty
      /\ \A g \in DOMAIN buffer : g # h => buffer'[g] = buffer[g]
  BY <1>1, <1>2, <1>3, SpliceBuffer DEF FuseTypeOK
<1> QED BY <1>1, <1>2, <1>4, UpsetNothing, QuietStep

LEMMA ReadForWriteCommits ==
  ASSUME FuseTypeOK, HandlesOK, CommitsOK, NEW c \in Call, NEW h \in Handle, NEW i \in 1..Extent,
         ReadForWrite(c, h, i)
  PROVE  CommitsOK'
<1>1. PICK s : /\ Issue(c, s) /\ s.pc = "insert"
               /\ UNCHANGED <<stored, known, buffer, excused, raced>>
  BY DEF ReadForWrite
<1>2. call'[c] = s /\ call[c].pc = "done" /\ \A d \in Call : d # c => call'[d] = call[d]
  BY <1>1 DEF Issue, Done, FuseTypeOK
<1> QED BY <1>1, <1>2, UpsetNothing, QuietStep

LEMMA InsertAndWriteCommits ==
  ASSUME FuseTypeOK, HandlesOK, CommitsOK, NEW c \in Call, InsertAndWrite(c)
  PROVE  CommitsOK'
<1>1. PICK w : w = call[c]
  OBVIOUS
<1>2. PICK bufs : bufs = or_insert(w.fh, [path |-> w.path, data |-> w.data, dirty |-> FALSE])
  OBVIOUS
<1>3. PICK D : D = DOMAIN buffer \union {w.fh}
  OBVIOUS
<1>4. /\ w \in Inserting /\ D \in SUBSET Handle /\ w.fh \in D
      /\ bufs \in [D -> BufferState] /\ Splice(w.fh, bufs, w.at, w.byte)
      /\ \A g \in DOMAIN buffer : bufs[g] = buffer[g]
  BY <1>1, <1>2, <1>3, FirstWritten
<1>5. PICK h \in D, i \in 1..Extent, byte \in Nat : h = w.fh /\ i = w.at /\ byte = w.byte
  BY <1>4 DEF Inserting
<1>6. Splice(h, bufs, i, byte) /\ acked \in [Handle -> Acked]
  BY <1>4, <1>5 DEF FuseTypeOK
<1>7. DOMAIN buffer' = D /\ \A g \in D : g # h => buffer'[g] = bufs[g]
  BY <1>4, <1>6, SpliceBuffer
<1>8. buffer'[h].path = bufs[h].path /\ buffer'[h].dirty
  BY <1>4, <1>6, SpliceBuffer
<1>9. /\ call[c].pc = "insert" /\ Goes(c, Done)
      /\ UNCHANGED <<stored, known, excused, raced>>
  BY DEF InsertAndWrite
<1>10. call'[c].pc = "done" /\ \A d \in Call : d # c => call'[d] = call[d]
  BY <1>9, GoesCall, DoneState DEF FuseTypeOK
<1>11. \A g \in DOMAIN buffer \intersect DOMAIN buffer' :
         /\ buffer'[g].path = buffer[g].path
         /\ ~buffer'[g].dirty => ~buffer[g].dirty /\ buffer'[g].data = buffer[g].data
  BY <1>4, <1>7, <1>8
<1>12. \A g \in DOMAIN buffer' \ DOMAIN buffer : buffer'[g].dirty
  BY <1>3, <1>5, <1>7, <1>8
<1> QED BY <1>9, <1>10, <1>11, <1>12, UpsetNothing, QuietStep

LEMMA TruncateCommits ==
  ASSUME FuseTypeOK, HandlesOK, CommitsOK, NEW c \in Call, NEW h \in Handle, NEW size \in 0..Extent,
         TruncateBuffer(c, h, size)
  PROVE  CommitsOK'
<1>1. call'[c].pc = "done" /\ call[c].pc = "done" /\ \A d \in Call : d # c => call'[d] = call[d]
  BY Truncated, IssueCall, DoneState DEF FuseTypeOK
<1> QED BY <1>1, Truncated, UpsetNothing, QuietStep

LEMMA ReadForTruncateCommits ==
  ASSUME FuseTypeOK, HandlesOK, CommitsOK, NEW c \in Call, NEW p \in Name, NEW size \in 0..Extent,
         ReadForTruncate(c, p, size)
  PROVE  CommitsOK'
<1>1. /\ call'[c].pc = "resize" /\ call[c].pc = "done"
      /\ \A d \in Call : d # c => call'[d] = call[d]
      /\ UNCHANGED <<stored, known, buffer, excused, raced>>
  BY DEF ReadForTruncate, Issue, Done, FuseTypeOK
<1> QED BY <1>1, UpsetNothing, QuietStep

LEMMA StoreTruncatedCommits ==
  ASSUME FuseTypeOK, HandlesOK, CommitsOK, NEW c \in Call, StoreTruncated(c)
  PROVE  CommitsOK'
<1>1. /\ call[c].pc = "resize" /\ Goes(c, Done) /\ UNCHANGED <<known, buffer, raced>>
      /\ excused' = excused \union Upset({call[c].path}, 0)
      /\ \A p \in Name : p \notin {call[c].path} => stored'[p] = stored[p]
  BY DEF StoreTruncated, FuseTypeOK
<1>2. call'[c].pc = "done" /\ \A d \in Call : d # c => call'[d] = call[d]
  BY <1>1, GoesCall, DoneState DEF FuseTypeOK
<1> QED BY <1>1, <1>2, QuietStep

LEMMA UnlinkCommits ==
  ASSUME FuseTypeOK, HandlesOK, CommitsOK, NEW c \in Call, NEW p \in Name, Unlink(c, p)
  PROVE  CommitsOK'
<1>1. /\ Issue(c, Done) /\ UNCHANGED <<buffer, raced>>
      /\ excused' = excused \union Upset({p}, 0)
      /\ \A x \in Name : x \notin {p} => stored'[x] = stored[x]
      /\ \A h \in DOMAIN buffer : known'[h] \in {known[h], Nowhere}
  BY GivenHandles DEF Unlink, FuseTypeOK
<1>2. call'[c].pc = "done" /\ call[c].pc = "done" /\ \A d \in Call : d # c => call'[d] = call[d]
  BY <1>1, IssueCall, DoneState DEF FuseTypeOK
<1> QED BY <1>1, <1>2, QuietStep

\* A commit starts: it overlaps nothing of its file, or is excused.
LEMMA TakenCommits ==
  ASSUME FuseTypeOK, HandlesOK, CommitsOK, NEW c \in Call, NEW h \in DOMAIN buffer,
         NEW closing \in BOOLEAN, TakePending(c, h, closing), UNCHANGED <<stored, known, raced>>
  PROVE  CommitsOK'
<1>1. /\ call[c].pc = "done" /\ call'[c].pc = "store" /\ call'[c].fh = h
      /\ call'[c].path = buffer[h].path /\ call'[c].data = buffer[h].data
      /\ \A d \in Call : d # c => call'[d] = call[d]
      /\ DOMAIN buffer' = DOMAIN buffer
      /\ buffer'[h].path = buffer[h].path /\ buffer'[h].data = buffer[h].data
      /\ \A g \in DOMAIN buffer : g # h => buffer'[g] = buffer[g]
  BY Taken
<1>2. \A d \in Call : \A p : MovesFrom(d, p)' <=> MovesFrom(d, p)
  BY <1>1 DEF MovesFrom
<1>3. \A d \in Call : \A g : Stores(d, g)' <=> Stores(d, g) \/ (d = c /\ g = h)
  BY <1>1 DEF Stores
<1>4. \A g : g # h => (g \in excused' <=> g \in excused)
  BY DEF TakePending
<1>5. h \notin excused' => /\ \A d \in Call : ~Stores(d, h)
                           /\ \A d \in Call : ~MovesFrom(d, buffer[h].path)
  <2>1. h \notin excused' => ~Overlaps(h)
    BY DEF TakePending
  <2>2. On(h) = {d \in Call : Uses(d, h)}
    BY OnUses DEF FuseTypeOK
  <2> QED BY <2>1, <2>2 DEF Overlaps, Uses, Stores, MovesFrom
<1>6. StoresAgree'
  <2>1. SUFFICES ASSUME NEW g \in DOMAIN buffer, NEW d \in Call, g \notin excused', Stores(d, g)'
                 PROVE  /\ \A e \in Call : Stores(e, g)' => e = d
                        /\ call'[d].path = buffer'[g].path
                        /\ ~buffer'[g].dirty => call'[d].data = buffer'[g].data
                        /\ \A e \in Call : ~MovesFrom(e, buffer'[g].path)
    BY <1>1, <1>2 DEF StoresAgree
  <2>2. CASE g = h
    <3>1. d = c /\ \A e \in Call : Stores(e, g)' => e = c
      BY <1>3, <1>5, <2>1, <2>2
    <3> QED BY <1>1, <1>5, <2>1, <2>2, <3>1
  <2>3. CASE g # h
    <3>1. Stores(d, g) /\ g \notin excused /\ d # c /\ buffer'[g] = buffer[g] /\ call'[d] = call[d]
      BY <1>1, <1>3, <1>4, <2>1, <2>3 DEF Stores
    <3>2. /\ \A e \in Call : Stores(e, g) => e = d
          /\ call[d].path = buffer[g].path
          /\ ~buffer[g].dirty => call[d].data = buffer[g].data
          /\ \A e \in Call : ~MovesFrom(e, buffer[g].path)
      BY <2>1, <3>1 DEF CommitsOK, StoresAgree
    <3> QED BY <1>3, <2>3, <3>1, <3>2
  <2> QED BY <2>2, <2>3
<1>7. CommittedIsPlaced'
  <2>1. SUFFICES ASSUME NEW g \in DOMAIN buffer, g \notin excused', g \notin raced, known[g] # Nowhere,
                        ~buffer'[g].dirty, \A d \in Call : ~Stores(d, g)'
                 PROVE  Placed(g)'
    BY <1>1 DEF CommittedIsPlaced
  <2>2. g # h
    BY <1>3, <2>1
  <2>3. buffer'[g] = buffer[g] /\ g \notin excused /\ \A d \in Call : ~Stores(d, g)
    BY <1>1, <1>3, <1>4, <2>1, <2>2
  <2>4. Placed(g)
    BY <2>1, <2>3 DEF CommitsOK, CommittedIsPlaced
  <2>5. \A d \in Call : \A p : MovesFrom(d, p) => call'[d] = call[d]
    BY <1>1 DEF MovesFrom
  <2> QED BY <1>2, <2>3, <2>4, <2>5 DEF Placed
<1> QED BY <1>6, <1>7 DEF CommitsOK

LEMMA ReleaseCommits ==
  ASSUME FuseTypeOK, HandlesOK, CommitsOK, NEW c \in Call, NEW h \in Handle, Release(c, h)
  PROVE  CommitsOK'
<1>1. CASE buffer[h].dirty
  BY <1>1, TakenCommits DEF Release
<1>2. CASE ~buffer[h].dirty
  <2>1. Issue(c, Done) /\ Forget(h, buffer) /\ UNCHANGED <<stored, excused, raced>>
    BY <1>2 DEF Release
  <2>2. call'[c].pc = "done" /\ call[c].pc = "done" /\ \A d \in Call : d # c => call'[d] = call[d]
    BY <2>1, IssueCall, DoneState DEF FuseTypeOK
  <2>3. /\ DOMAIN buffer' \subseteq DOMAIN buffer /\ \A g \in DOMAIN buffer' : buffer'[g] = buffer[g]
        /\ \A g \in Handle : known'[g] \in {known[g], Nowhere}
    BY <2>1, Forgotten
  <2> QED BY <2>1, <2>2, <2>3, GivenHandles, UpsetNothing, QuietStep
<1> QED BY <1>1, <1>2

\* What a store leaves: the buffers of the handles that stay, and the file.
LEMMA StoredEffect ==
  ASSUME FuseTypeOK, HandlesOK, NEW c \in Call, NEW written \in BOOLEAN, Store(c, written)
  PROVE  LET h == call[c].fh
         IN  /\ Stores(c, h) /\ h \in DOMAIN buffer /\ h \in Handle
             /\ call[c].path \in Name
             /\ call'[c].pc = "done" /\ \A d \in Call : d # c => call'[d] = call[d]
             /\ DOMAIN buffer' \subseteq DOMAIN buffer
             /\ \A g \in DOMAIN buffer' : buffer'[g] = buffer[g] /\ known'[g] \in {known[g], Nowhere}
             /\ raced' = raced /\ excused \subseteq excused'
             /\ ~written => h \in excused' /\ stored' = stored
             /\ written => /\ \A g : g \in Upset({call[c].path}, h) => g \in excused'
                           /\ stored'[call[c].path] = call[c].data
                           /\ \A p \in Name : p # call[c].path => stored'[p] = stored[p]
<1>1. PICK h : h = call[c].fh
  OBVIOUS
<1>2. call[c].pc = "store" /\ Goes(c, Done) /\ raced' = raced
  BY DEF Store
<1>3. call[c] \in Storing
  BY <1>2, CallFields DEF FuseTypeOK
<1>4. h \in Handle /\ call[c].path \in Name /\ h \in DOMAIN buffer /\ Stores(c, h)
  BY <1>1, <1>2, <1>3 DEF Storing, HandlesOK, Stores
<1>5. call'[c].pc = "done" /\ \A d \in Call : d # c => call'[d] = call[d]
  BY <1>2, GoesCall, DoneState DEF FuseTypeOK
<1>6. /\ DOMAIN buffer' \subseteq DOMAIN buffer
      /\ \A g \in DOMAIN buffer' : buffer'[g] = buffer[g] /\ known'[g] \in {known[g], Nowhere}
  <2>1. CASE call[c].closing
    <3>1. Forget(h, buffer)
      BY <1>1, <2>1 DEF Store
    <3>2. DOMAIN buffer' = DOMAIN buffer \ {h} /\ \A g \in DOMAIN buffer' : buffer'[g] = buffer[g]
      BY <1>4, <3>1, Forgotten
    <3>3. \A g \in Handle : g # h => known'[g] = known[g]
      BY <1>4, <3>1, Forgotten
    <3> QED BY <3>2, <3>3, GivenHandles
  <2>2. CASE ~call[c].closing
    BY <2>2 DEF Store
  <2> QED BY <2>1, <2>2
<1>7. excused \subseteq excused' /\ (~written => h \in excused' /\ stored' = stored)
      /\ (written => \A g : g \in Upset({call[c].path}, h) => g \in excused')
  BY <1>1 DEF Store
<1>8. written => /\ stored'[call[c].path] = call[c].data
                 /\ \A p \in Name : p # call[c].path => stored'[p] = stored[p]
  BY <1>4 DEF Store, FuseTypeOK
<1> QED BY <1>1, <1>2, <1>4, <1>5, <1>6, <1>7, <1>8

LEMMA StoreCommits ==
  ASSUME FuseTypeOK, HandlesOK, CommitsOK, NEW c \in Call, NEW written \in BOOLEAN, Store(c, written)
  PROVE  CommitsOK'
<1>1. PICK h : h = call[c].fh
  OBVIOUS
<1>2. PICK path, data : path = call[c].path /\ data = call[c].data
  OBVIOUS
<1>3. /\ Stores(c, h) /\ h \in DOMAIN buffer /\ path \in Name
      /\ call'[c].pc = "done" /\ \A d \in Call : d # c => call'[d] = call[d]
      /\ DOMAIN buffer' \subseteq DOMAIN buffer
      /\ \A g \in DOMAIN buffer' : buffer'[g] = buffer[g] /\ known'[g] \in {known[g], Nowhere}
      /\ raced' = raced /\ excused \subseteq excused'
  BY <1>1, <1>2, StoredEffect
<1>4. ~written => h \in excused' /\ stored' = stored
  BY <1>1, StoredEffect
<1>5. written => /\ \A g : g \in Upset({path}, h) => g \in excused'
                 /\ stored'[path] = data
                 /\ \A p \in Name : p # path => stored'[p] = stored[p]
  BY <1>1, <1>2, StoredEffect
<1>6. \A d \in Call : \A p : MovesFrom(d, p)' <=> MovesFrom(d, p)
  BY <1>3 DEF MovesFrom, Stores
<1>7. \A d \in Call : \A g : Stores(d, g)' <=> Stores(d, g) /\ d # c
  BY <1>3 DEF Stores
<1>8. \A d \in Call : \A p : MovesFrom(d, p) => call'[d] = call[d]
  BY <1>3 DEF MovesFrom, Stores
<1>9. StoresAgree'
  <2>1. SUFFICES ASSUME NEW g \in DOMAIN buffer', NEW d \in Call, g \notin excused', Stores(d, g), d # c
                 PROVE  /\ \A e \in Call : Stores(e, g) => e = d
                        /\ call[d].path = buffer[g].path
                        /\ ~buffer[g].dirty => call[d].data = buffer[g].data
                        /\ \A e \in Call : ~MovesFrom(e, buffer[g].path)
    BY <1>3, <1>6, <1>7 DEF StoresAgree
  <2> QED BY <1>3, <2>1 DEF CommitsOK, StoresAgree
<1>10. CommittedIsPlaced'
  <2>1. SUFFICES ASSUME NEW g \in DOMAIN buffer', g \notin excused', g \notin raced, known'[g] # Nowhere,
                        ~buffer'[g].dirty, \A d \in Call : ~Stores(d, g)'
                 PROVE  Placed(g)'
    BY <1>3 DEF CommittedIsPlaced
  <2>2. /\ g \in DOMAIN buffer /\ buffer'[g] = buffer[g] /\ known[g] # Nowhere /\ g \notin excused
        /\ ~buffer[g].dirty /\ \A d \in Call : Stores(d, g) => d = c
    BY <1>3, <1>7, <2>1
  <2>3. CASE g = h
    <3>1. /\ path = buffer[h].path /\ data = buffer[h].data
          /\ \A d \in Call : ~MovesFrom(d, buffer[h].path)
      BY <1>2, <1>3, <2>2, <2>3 DEF CommitsOK, StoresAgree
    <3>2. stored'[path] = data
      BY <1>4, <1>5, <2>1, <2>3
    <3> QED BY <1>6, <2>2, <2>3, <3>1, <3>2 DEF Placed
  <2>4. CASE g # h
    <3>1. Placed(g)
      BY <1>3, <2>1, <2>2, <2>4 DEF CommitsOK, CommittedIsPlaced, Stores
    <3>2. /\ buffer[g].path \in Name
          /\ \A d \in Call : MovesFrom(d, buffer[g].path) => call[d].path \in Name
      BY <2>2, CallFields DEF FuseTypeOK, BufferState, MovesFrom, Moves
    <3>3. \/ stored' = stored
          \/ /\ \A p \in Name : p # path => stored'[p] = stored[p]
             /\ g \notin Upset({path}, h)
      BY <1>4, <1>5, <2>1
    <3>4. \/ stored' = stored
          \/ /\ \A p \in Name : p # path => stored'[p] = stored[p]
             /\ buffer[g].path # path
             /\ \A d \in Call : MovesFrom(d, buffer[g].path) => call[d].path # path
      BY <2>2, <2>4, <3>3, NotUpset
    <3> QED BY <1>6, <1>8, <2>2, <3>1, <3>2, <3>4 DEF Placed
  <2> QED BY <2>3, <2>4
<1> QED BY <1>9, <1>10 DEF CommitsOK

LEMMA RenameCommits ==
  ASSUME FuseTypeOK, HandlesOK, CommitsOK, NEW c \in Call, NEW p \in Name, NEW q \in Name,
         Rename(c, p, q)
  PROVE  CommitsOK'
<1>1. /\ p # q /\ NamesAtRest /\ UNCHANGED <<known, buffer, raced>>
      /\ \A h : h \in excused \/ h \in Upset({q}, 0) \/ h \in Moving(p) => h \in excused'
  BY DEF Rename
<1>2. /\ call[c].pc = "done" /\ call'[c].pc = "retarget" /\ call'[c].from = p /\ call'[c].path = q
      /\ \A d \in Call : d # c => call'[d] = call[d]
  BY DEF Rename, Issue, Done, FuseTypeOK
<1>3. stored'[q] = stored[p] /\ \A x \in Name : x # p /\ x # q => stored'[x] = stored[x]
  BY <1>1 DEF Rename, FuseTypeOK
<1>4. \A d \in Call : \A x : ~MovesFrom(d, x) /\ (MovesFrom(d, x)' => d = c /\ x = p)
  BY <1>1, <1>2 DEF MovesFrom, NamesAtRest
<1>5. MovesFrom(c, p)'
  BY <1>2 DEF MovesFrom
<1>6. \A d \in Call : \A h : (Stores(d, h)' <=> Stores(d, h)) /\ (Stores(d, h) => call'[d] = call[d])
  BY <1>2 DEF Stores
<1>7. StoresAgree'
  <2>1. SUFFICES ASSUME NEW h \in DOMAIN buffer, NEW d \in Call, h \notin excused', Stores(d, h)
                 PROVE  /\ \A e \in Call : Stores(e, h) => e = d
                        /\ call[d].path = buffer[h].path
                        /\ ~buffer[h].dirty => call[d].data = buffer[h].data
                        /\ \A e \in Call : ~MovesFrom(e, buffer[h].path)'
    BY <1>1, <1>6 DEF StoresAgree
  <2>2. /\ \A e \in Call : Stores(e, h) => e = d
        /\ call[d].path = buffer[h].path
        /\ ~buffer[h].dirty => call[d].data = buffer[h].data
    BY <1>1, <2>1 DEF CommitsOK, StoresAgree
  <2>3. call[d].path # p
    <3>1. On(h) = {e \in Call : Uses(e, h)}
      BY OnUses DEF FuseTypeOK
    <3>2. d \in On(h) /\ call[d].pc = "store"
      BY <2>1, <3>1 DEF Stores, Uses
    <3>3. call[d].path = p => h \in Moving(p)
      BY <3>2 DEF Moving
    <3>4. h \notin Moving(p)
      BY <1>1, <2>1
    <3> QED BY <3>3, <3>4
  <2>4. buffer'[h].path # p
    BY <1>1, <2>2, <2>3
  <2>5. \A e \in Call : ~MovesFrom(e, buffer[h].path)'
    BY <1>4, <2>4
  <2> QED BY <2>2, <2>5
<1>8. CommittedIsPlaced'
  <2>1. SUFFICES ASSUME NEW h \in DOMAIN buffer, h \notin excused', h \notin raced, known[h] # Nowhere,
                        ~buffer[h].dirty, \A d \in Call : ~Stores(d, h)
                 PROVE  Placed(h)'
    BY <1>1, <1>6 DEF CommittedIsPlaced
  <2>2. Placed(h)
    BY <1>1, <2>1 DEF CommitsOK, CommittedIsPlaced
  <2>3. stored[buffer[h].path] = buffer[h].data /\ buffer[h].path \in Name
    BY <1>4, <2>2 DEF Placed, FuseTypeOK, BufferState
  <2>4. h # 0
    BY GivenHandles DEF Handle
  <2>5. buffer[h].path # q
    BY <1>1, <2>1, <2>4, NotUpset
  <2>6. CASE buffer[h].path = p
    BY <1>1, <1>2, <1>3, <1>4, <1>5, <2>3, <2>6 DEF Placed
  <2>7. CASE buffer[h].path # p
    BY <1>1, <1>3, <1>4, <2>3, <2>5, <2>7 DEF Placed
  <2> QED BY <2>6, <2>7
<1> QED BY <1>7, <1>8 DEF CommitsOK

LEMMA RetargetCommits ==
  ASSUME FuseTypeOK, HandlesOK, Follows, CommitsOK, NEW c \in Call, Retarget(c)
  PROVE  CommitsOK'
<1>1. PICK from, to : from = call[c].from /\ to = call[c].path
  OBVIOUS
<1>2. from \in Name /\ to \in Name /\ from # Nowhere
  BY <1>1, CallFields, NowhereAssumption DEF Retarget, Moves, FuseTypeOK
<1>3. /\ call[c].pc = "retarget" /\ Goes(c, Done) /\ buffer' = Retargeted(from, to)
      /\ \A h \in Handle : known'[h] = IF known[h] = from THEN to
                                       ELSE IF known[h] = to THEN Nowhere ELSE known[h]
      /\ raced \subseteq raced' /\ UNCHANGED <<stored, excused>>
  BY <1>1 DEF Retarget
<1>4. call'[c].pc = "done" /\ \A d \in Call : d # c => call'[d] = call[d]
  BY <1>3, GoesCall, DoneState DEF FuseTypeOK
<1>5. /\ DOMAIN buffer' = DOMAIN buffer
      /\ \A h \in DOMAIN buffer :
           /\ buffer'[h].path = IF buffer[h].path = from THEN to ELSE buffer[h].path
           /\ buffer'[h].data = buffer[h].data /\ buffer'[h].dirty = buffer[h].dirty
  BY <1>2, <1>3, RetargetedBuffer
<1>6. MovesFrom(c, from) /\ \A d \in Call : \A x : MovesFrom(d, x) => d = c /\ x = from
  BY <1>1, <1>3 DEF HandlesOK, MovesFrom
<1>7. \A d \in Call : \A x : ~MovesFrom(d, x)'
  BY <1>4, <1>6 DEF MovesFrom
<1>8. \A d \in Call : \A h : (Stores(d, h)' <=> Stores(d, h)) /\ (Stores(d, h) => call'[d] = call[d])
  BY <1>3, <1>4 DEF Stores
<1>9. StoresAgree'
  <2>1. SUFFICES ASSUME NEW h \in DOMAIN buffer, NEW d \in Call, h \notin excused, Stores(d, h)
                 PROVE  /\ \A e \in Call : Stores(e, h) => e = d
                        /\ call[d].path = buffer'[h].path
                        /\ ~buffer[h].dirty => call[d].data = buffer[h].data
    BY <1>3, <1>5, <1>7, <1>8 DEF StoresAgree
  <2>2. /\ \A e \in Call : Stores(e, h) => e = d
        /\ call[d].path = buffer[h].path
        /\ ~buffer[h].dirty => call[d].data = buffer[h].data
        /\ \A e \in Call : ~MovesFrom(e, buffer[h].path)
    BY <2>1 DEF CommitsOK, StoresAgree
  <2>3. buffer[h].path # from
    BY <1>6, <2>2
  <2> QED BY <1>5, <2>2, <2>3
<1>10. CommittedIsPlaced'
  <2>1. SUFFICES ASSUME NEW h \in DOMAIN buffer, h \notin excused, h \notin raced', known'[h] # Nowhere,
                        ~buffer[h].dirty, \A d \in Call : ~Stores(d, h)
                 PROVE  stored[buffer'[h].path] = buffer[h].data
    BY <1>3, <1>5, <1>7, <1>8 DEF CommittedIsPlaced, Placed
  <2>2. h \in Handle /\ h \notin raced /\ known[h] # Nowhere
    BY <1>2, <1>3, <2>1, GivenHandles
  <2>3. Placed(h) /\ buffer[h].path = known[h]
    BY <2>1, <2>2 DEF CommitsOK, CommittedIsPlaced, Follows, FollowUnlessRaced
  <2>4. CASE buffer[h].path = from
    BY <1>1, <1>5, <1>6, <2>3, <2>4 DEF Placed
  <2>5. CASE buffer[h].path # from
    <3>1. \A d \in Call : ~MovesFrom(d, buffer[h].path)
      BY <1>6, <2>5
    <3> QED BY <1>5, <2>3, <2>5, <3>1 DEF Placed
  <2> QED BY <2>4, <2>5
<1> QED BY <1>9, <1>10 DEF CommitsOK

LEMMA CommitsStep ==
  ASSUME FuseTypeOK, HandlesOK, Follows, CommitsOK, [FuseNext]_fuseVars PROVE CommitsOK'
<1>1. CASE UNCHANGED fuseVars
  BY <1>1 DEF fuseVars, CommitsOK, StoresAgree, CommittedIsPlaced, Placed, Stores, MovesFrom
<1>2. ASSUME NEW c \in Call, NEW h \in Handle, Flush(c, h) PROVE CommitsOK'
  BY <1>2, TakenCommits DEF Flush
<1> QED
  BY <1>1, <1>2, OpenCommits, BeginCreateCommits, EndCreateCommits, WriteBufferedCommits,
     ReadForWriteCommits, InsertAndWriteCommits, ReleaseCommits, StoreCommits, TruncateCommits,
     ReadForTruncateCommits, StoreTruncatedCommits, RenameCommits, RetargetCommits,
     UnlinkCommits DEF FuseNext

LEMMA InitCommits == ASSUME FuseInit PROVE CommitsOK
BY DEF FuseInit, Empty, CommitsOK, StoresAgree, CommittedIsPlaced

-----------------------------------------------------------------------------
\* Types and handles say which calls can meet.  Following is needed where a
\* rename ends: only a buffer whose path the kernel knows moves with its file.
\* The commits are needed where a handle closes: what its last commit stored is
\* not in the state any more, that it is the buffer's content is the invariant.
FuseInv == FuseTypeOK /\ HandlesOK /\ BufferHoldsWrites /\ Follows /\ CommitsOK

\* What a handle's file holds when the handle is gone.
Leaves(h) ==
  h \in excused' \/ h \in raced \/ known[h] = Nowhere
    \/ \E p \in Paths(h) : stored'[p] = buffer[h].data

LEMMA ReleaseLeaves ==
  ASSUME FuseInv, NEW c \in Call, NEW h \in Handle, Release(c, h),
         NEW g \in DOMAIN buffer, g \notin DOMAIN buffer'
  PROVE  Leaves(g)
<1>1. h \in DOMAIN buffer /\ On(h) = {} /\ stored' = stored
  BY DEF Release
<1>2. CASE buffer[h].dirty
  <2>1. TakePending(c, h, TRUE)
    BY <1>2 DEF Release
  <2>2. DOMAIN buffer' = DOMAIN buffer
    BY <1>1, <2>1, Taken DEF FuseInv
  <2> QED BY <2>2
<1>3. CASE ~buffer[h].dirty
  <2>1. Forget(h, buffer) /\ excused' = excused
    BY <1>3 DEF Release
  <2>2. DOMAIN buffer' = DOMAIN buffer \ {h}
    BY <2>1, Forgotten DEF FuseInv
  <2>3. g = h
    BY <2>2
  <2>4. \A d \in Call : ~Stores(d, h)
    BY <1>1, NoUses DEF FuseInv, Uses, Stores
  <2>5. SUFFICES ASSUME h \notin excused, h \notin raced, known[h] # Nowhere
                 PROVE  \E p \in Paths(h) : stored[p] = buffer[h].data
    BY <1>1, <2>1, <2>3 DEF Leaves
  <2>6. Placed(h)
    BY <1>1, <1>3, <2>4, <2>5 DEF FuseInv, CommitsOK, CommittedIsPlaced
  <2>7. CASE \E d \in Call : MovesFrom(d, buffer[h].path)
    BY <2>6, <2>7, PathsMean DEF Placed
  <2>8. CASE ~ \E d \in Call : MovesFrom(d, buffer[h].path)
    BY <2>6, <2>8, PathsMean DEF Placed
  <2> QED BY <2>7, <2>8
<1> QED BY <1>2, <1>3

LEMMA StoreLeaves ==
  ASSUME FuseInv, NEW c \in Call, NEW written \in BOOLEAN, Store(c, written),
         NEW g \in DOMAIN buffer, g \notin DOMAIN buffer'
  PROVE  Leaves(g)
<1>1. PICK h : h = call[c].fh
  OBVIOUS
<1>2. call[c].pc = "store"
  BY DEF Store
<1>3. CASE ~call[c].closing
  BY <1>3 DEF Store
<1>4. CASE call[c].closing
  <2>1. Forget(h, buffer)
    BY <1>1, <1>4 DEF Store
  <2>2. h \in Handle /\ h \in DOMAIN buffer /\ Stores(c, h) /\ excused \subseteq excused'
    BY <1>1, StoredEffect DEF FuseInv
  <2>3. g = h
    BY <2>1, <2>2, Forgotten DEF FuseInv
  <2>4. ~buffer[h].dirty
    BY <1>1, <1>2, <1>4 DEF FuseInv, HandlesOK
  <2>5. SUFFICES ASSUME h \notin excused'
                 PROVE  \E p \in Paths(h) : stored'[p] = buffer[h].data
    BY <2>3 DEF Leaves
  <2>6. written /\ stored'[call[c].path] = call[c].data
    BY <1>1, <2>5, StoredEffect DEF FuseInv
  <2>7. call[c].path = buffer[h].path /\ call[c].data = buffer[h].data
    BY <2>2, <2>4, <2>5 DEF FuseInv, CommitsOK, StoresAgree
  <2> QED BY <2>6, <2>7, PathsMean
<1> QED BY <1>3, <1>4

\* The other calls take no buffer away.
LEMMA OthersKeep ==
  ASSUME FuseInv,
         \/ \E p \in Name, truncate \in BOOLEAN : Open(p, truncate)
         \/ \E c \in Call, p \in Name : BeginCreate(c, p)
         \/ \E c \in Call : EndCreate(c)
         \/ \E c \in Call, h \in Handle, i \in 1..Extent : WriteBuffered(c, h, i)
         \/ \E c \in Call, h \in Handle, i \in 1..Extent : ReadForWrite(c, h, i)
         \/ \E c \in Call : InsertAndWrite(c)
         \/ \E c \in Call, h \in Handle : Flush(c, h)
         \/ \E c \in Call, h \in Handle, size \in 0..Extent : TruncateBuffer(c, h, size)
         \/ \E c \in Call, p \in Name, size \in 0..Extent : ReadForTruncate(c, p, size)
         \/ \E c \in Call : StoreTruncated(c)
         \/ \E c \in Call, p \in Name, q \in Name : Rename(c, p, q)
         \/ \E c \in Call : Retarget(c)
         \/ \E c \in Call, p \in Name : Unlink(c, p)
         \/ UNCHANGED fuseVars
  PROVE  DOMAIN buffer \subseteq DOMAIN buffer'
BY DEF Open, BeginCreate, EndCreate, WriteBuffered, ReadForWrite, InsertAndWrite, Flush,
       TruncateBuffer, ReadForTruncate, StoreTruncated, Rename, Retarget, Unlink, fuseVars, Splice,
       or_insert, TakePending, Retargeted

LEMMA CloseStep ==
  ASSUME FuseInv, [FuseNext]_fuseVars, NEW h \in DOMAIN buffer, h \notin DOMAIN buffer'
  PROVE  Leaves(h)
BY ReleaseLeaves, StoreLeaves, OthersKeep DEF FuseNext

LEMMA FuseInductive == FuseSpec => []FuseInv
<1>1. FuseInit => FuseInv
  BY InitFuse, InitCommits DEF FuseInv, Follows
<1>2. FuseInv /\ [FuseNext]_fuseVars => FuseInv'
  BY FuseTypeStep, HandlesStep, HoldsStep, FollowsStep, CommitsStep DEF FuseInv
<1> QED BY <1>1, <1>2, PTL DEF FuseSpec

\* The variables of the mount keep their types.
THEOREM FuseTypeCorrect == FuseSpec => []FuseTypeOK
BY FuseInductive, PTL DEF FuseInv

\* write in fuse.rs loses no write it has answered for, however many handles
\* are written to, committed, truncated and renamed at once.
THEOREM BufferHoldsWritesHolds == FuseSpec => []BufferHoldsWrites
BY FuseInductive, PTL DEF FuseInv

\* rename in fuse.rs retargets every open buffer, but for a handle whose first
\* write had read the file and not yet put its buffer in place.
THEOREM FollowUnlessRacedHolds == FuseSpec => []FollowUnlessRaced
BY FuseInductive, PTL DEF FuseInv, Follows

\* release in fuse.rs drops a buffer only when its file holds it, wherever a
\* rename has put the file, unless a commit failed or overlapped something.
THEOREM CloseStoresHolds == FuseSpec => CloseStores
<1>1. FuseInv /\ [FuseNext]_fuseVars
        => [\A h \in DOMAIN buffer \ DOMAIN buffer' :
              h \in excused' \/ h \in raced \/ known[h] = Nowhere
                \/ \E p \in Paths(h) : stored'[p] = buffer[h].data]_fuseVars
  BY CloseStep DEF Leaves
<1> QED BY <1>1, FuseInductive, PTL DEF FuseSpec, CloseStores

-----------------------------------------------------------------------------
(* Paths.                                                                  *)

LEMMA PathIs ==
  ASSUME MaxDepth \in Nat, NEW p \in TreePath
  PROVE  p \in Seq(Component) /\ Len(p) \in 1..MaxDepth /\ Len(p) \in Nat
<1>1. PICK n \in 1..MaxDepth : p \in [1..n -> Component]
  BY DEF TreePath
<1>2. n \in Nat /\ n \in 1..MaxDepth
  BY <1>1
<1>3. p \in Seq(Component) /\ Len(p) = n
  BY <1>1, <1>2
<1> QED BY <1>2, <1>3

LEMMA IsPath ==
  ASSUME MaxDepth \in Nat, NEW p \in Seq(Component), Len(p) \in 1..MaxDepth
  PROVE  p \in TreePath
<1>1. p \in [1..Len(p) -> Component]
  BY LenProperties
<1> QED BY <1>1 DEF TreePath

LEMMA WithinIs ==
  ASSUME NEW p \in Seq(Component), NEW q \in Seq(Component)
  PROVE  Within(p, q) <=> Len(q) <= Len(p) /\ \A i \in 1..Len(q) : p[i] = q[i]
<1>1. PICK n \in Nat : n = Len(q)
  BY LenProperties
<1>2. PICK m \in Nat : m = Len(p)
  BY LenProperties
<1>3. SUFFICES ASSUME n <= m
               PROVE  SubSeq(p, 1, n) = q <=> \A i \in 1..n : p[i] = q[i]
  BY <1>1, <1>2 DEF Within
<1>4. \A i \in 1..n : p[i] \in Component
  BY <1>2, <1>3, ElementOfSeq
<1>5. /\ SubSeq(p, 1, n) \in Seq(Component) /\ Len(SubSeq(p, 1, n)) = n
      /\ \A i \in 1..n : SubSeq(p, 1, n)[i] = p[i]
  BY <1>4, SubSeqProperties
<1>6. ASSUME SubSeq(p, 1, n) = q PROVE \A i \in 1..n : p[i] = q[i]
  BY <1>5, <1>6
<1>7. ASSUME \A i \in 1..n : p[i] = q[i] PROVE SubSeq(p, 1, n) = q
  BY <1>1, <1>5, <1>7, SeqEqual
<1> QED BY <1>6, <1>7

LEMMA AncestorIs ==
  ASSUME MaxDepth \in Nat, NEW p \in TreePath, NEW q
  PROVE  q \in Ancestors(p) <=> q \in TreePath /\ Within(p, q) /\ q # p
<1>1. PICK m \in 1..MaxDepth : m = Len(p) /\ m \in Nat
  BY PathIs
<1>2. p \in Seq(Component) /\ \A i \in 1..m : p[i] \in Component
  BY <1>1, PathIs, ElementOfSeq
<1>3. ASSUME q \in Ancestors(p)
      PROVE  q \in TreePath /\ Within(p, q) /\ q # p
  <2>1. PICK n \in 1..m - 1 : q = SubSeq(p, 1, n)
    BY <1>1, <1>3 DEF Ancestors
  <2>2. n \in Nat /\ n >= 1 /\ n < m /\ \A i \in 1..n : p[i] \in Component
    BY <1>2
  <2>3. q \in Seq(Component) /\ Len(q) = n
    BY <2>1, <2>2, SubSeqProperties
  <2>4. q \in TreePath
    BY <1>1, <2>2, <2>3, IsPath
  <2>5. Within(p, q)
    BY <1>1, <2>1, <2>2, <2>3 DEF Within
  <2> QED BY <1>1, <2>2, <2>3, <2>4, <2>5
<1>4. ASSUME q \in TreePath, Within(p, q), q # p
      PROVE  q \in Ancestors(p)
  <2>1. PICK n \in 1..MaxDepth : n = Len(q) /\ n \in Nat
    BY <1>4, PathIs
  <2>2. n <= m /\ q = SubSeq(p, 1, n)
    BY <1>1, <1>4, <2>1 DEF Within
  <2>3. n # m
    BY <1>1, <1>2, <1>4, <2>2, SubSeqFull
  <2>4. n \in 1..m - 1
    BY <2>1, <2>2, <2>3
  <2> QED BY <1>1, <2>2, <2>4 DEF Ancestors
<1> QED BY <1>3, <1>4

LEMMA WithinItself ==
  ASSUME MaxDepth \in Nat, NEW p \in TreePath
  PROVE  Within(p, p) /\ p \notin Ancestors(p)
BY PathIs, WithinIs, AncestorIs

LEMMA WithinPasses ==
  ASSUME MaxDepth \in Nat, NEW p \in TreePath, NEW q \in TreePath, NEW r \in TreePath,
         Within(p, q), Within(q, r)
  PROVE  Within(p, r)
<1>1. PICK k \in Nat, m \in Nat, n \in Nat : k = Len(p) /\ m = Len(q) /\ n = Len(r)
  BY PathIs
<1>2. m <= k /\ n <= m /\ (\A i \in 1..m : p[i] = q[i]) /\ \A i \in 1..n : q[i] = r[i]
  BY <1>1, PathIs, WithinIs
<1>3. n <= k /\ \A i \in 1..n : p[i] = r[i]
  BY <1>2
<1> QED BY <1>1, <1>3, PathIs, WithinIs

LEMMA WithinBoth ==
  ASSUME MaxDepth \in Nat, NEW p \in TreePath, NEW q \in TreePath, Within(p, q), Within(q, p)
  PROVE  p = q
<1>1. PICK m \in Nat, n \in Nat : m = Len(p) /\ n = Len(q)
  BY PathIs
<1>2. m = n /\ \A i \in 1..m : p[i] = q[i]
  BY <1>1, PathIs, WithinIs
<1> QED BY <1>1, <1>2, PathIs, SeqEqual

\* Two that are above one path are above one another.
LEMMA WithinInLine ==
  ASSUME MaxDepth \in Nat, NEW p \in TreePath, NEW q \in TreePath, NEW r \in TreePath,
         Within(p, q), Within(p, r)
  PROVE  /\ Within(q, r) \/ Within(r, q)
         /\ Len(r) <= Len(q) <=> Within(q, r)
<1>1. PICK k \in Nat, m \in Nat, n \in Nat : k = Len(p) /\ m = Len(q) /\ n = Len(r)
  BY PathIs
<1>2. m <= k /\ n <= k /\ (\A i \in 1..m : p[i] = q[i]) /\ \A i \in 1..n : p[i] = r[i]
  BY <1>1, PathIs, WithinIs
<1>3. ASSUME n <= m PROVE Within(q, r)
  BY <1>1, <1>2, <1>3, PathIs, WithinIs
<1>4. ASSUME m <= n PROVE Within(r, q)
  BY <1>1, <1>2, <1>4, PathIs, WithinIs
<1>5. Within(q, r) => n <= m
  BY <1>1, PathIs, WithinIs
<1> QED BY <1>1, <1>3, <1>4, <1>5

\* What is below p is in one of p's entries, or is one.
LEMMA ThroughEntry ==
  ASSUME MaxDepth \in Nat, NEW p \in TreePath, NEW q \in TreePath, Within(q, p), q # p
  PROVE  \E r \in TreePath : Len(r) = Len(p) + 1 /\ Within(r, p) /\ Within(q, r)
<1>1. PICK k \in Nat, m \in Nat : k = Len(q) /\ m = Len(p) /\ k \in 1..MaxDepth
  BY PathIs
<1>2. m <= k /\ \A i \in 1..m : q[i] = p[i]
  BY <1>1, PathIs, WithinIs
<1>3. m # k
  BY <1>1, <1>2, PathIs, SeqEqual
<1>4. PICK n \in Nat : n = m + 1 /\ n <= k
  BY <1>2, <1>3
<1>5. \A i \in 1..n : q[i] \in Component
  BY <1>1, <1>4, PathIs, ElementOfSeq
<1>6. PICK r : r = SubSeq(q, 1, n)
  OBVIOUS
<1>7. r \in Seq(Component) /\ Len(r) = n /\ \A i \in 1..n : r[i] = q[i]
  BY <1>5, <1>6, SubSeqProperties
<1>8. r \in TreePath
  BY <1>1, <1>4, <1>7, IsPath
<1>9. Within(r, p)
  BY <1>1, <1>2, <1>4, <1>7, PathIs, WithinIs
<1>10. Within(q, r)
  BY <1>1, <1>4, <1>7, PathIs, WithinIs
<1> QED BY <1>1, <1>4, <1>7, <1>8, <1>9, <1>10

LEMMA SuffixIs ==
  ASSUME MaxDepth \in Nat, NEW s \in Suffix
  PROVE  s \in Seq(Component) /\ Len(s) \in Nat /\ (s = <<>> \/ Len(s) \in 1..MaxDepth - 1)
<1>1. CASE s = <<>>
  BY <1>1
<1>2. CASE s # <<>>
  <2>1. PICK n \in 1..MaxDepth - 1 : s \in [1..n -> Component]
    BY <1>2 DEF Suffix
  <2>2. n \in Nat
    BY <2>1
  <2> QED BY <2>1, <2>2
<1> QED BY <1>1, <1>2

LEMMA IsSuffix ==
  ASSUME MaxDepth \in Nat, NEW s \in Seq(Component), Len(s) < MaxDepth
  PROVE  s \in Suffix
<1>1. s \in [1..Len(s) -> Component] /\ Len(s) \in Nat
  BY LenProperties
<1>2. CASE Len(s) = 0
  BY <1>2, EmptySeq DEF Suffix
<1>3. CASE Len(s) # 0
  <2>1. PICK n \in Nat : n = Len(s) /\ s \in [1..n -> Component]
    BY <1>1
  <2>2. n \in 1..MaxDepth - 1
    BY <1>3, <2>1
  <2> QED BY <2>1, <2>2 DEF Suffix
<1> QED BY <1>2, <1>3

LEMMA NoSuffix ==
  ASSUME MaxDepth \in Nat, NEW p \in TreePath
  PROVE  <<>> \in Suffix /\ p \o <<>> = p
BY PathIs, ConcatEmptySeq DEF Suffix

\* What is below q is q and a suffix.
LEMMA After ==
  ASSUME MaxDepth \in Nat, NEW p \in TreePath, NEW q \in TreePath, Within(p, q)
  PROVE  SubSeq(p, Len(q) + 1, Len(p)) \in Suffix /\ q \o SubSeq(p, Len(q) + 1, Len(p)) = p
<1>1. PICK k \in Nat, m \in Nat : /\ k = Len(p) /\ m = Len(q)
                                  /\ k \in 1..MaxDepth /\ m \in 1..MaxDepth
  BY PathIs
<1>2. m <= k /\ \A i \in 1..m : p[i] = q[i]
  BY <1>1, PathIs, WithinIs
<1>3. \A i \in m + 1..k : p[i] \in Component
  BY <1>1, PathIs, ElementOfSeq
<1>4. PICK s : s = SubSeq(p, m + 1, k)
  OBVIOUS
<1>5. /\ s \in Seq(Component) /\ Len(s) = k - m
      /\ \A i \in 1..k - m : s[i] = p[m + i]
  <2>1. /\ s \in Seq(Component) /\ Len(s) = IF m + 1 <= k THEN k - (m + 1) + 1 ELSE 0
        /\ \A i \in 1..k - (m + 1) + 1 : s[i] = p[m + 1 + i - 1]
    BY <1>1, <1>3, <1>4, SubSeqProperties
  <2>2. \A i \in 1..k - m : i \in 1..k - (m + 1) + 1 /\ m + 1 + i - 1 = m + i
    BY <1>1
  <2>3. \A i \in 1..k - m : s[i] = p[m + i]
    BY <2>1, <2>2
  <2> QED BY <1>1, <1>2, <2>1, <2>3
<1>6. s \in Suffix
  <2>1. Len(s) < MaxDepth
    BY <1>1, <1>2, <1>5
  <2> QED BY <1>5, <2>1, IsSuffix
<1>7. q \o s = p
  <2>1. /\ q \o s \in Seq(Component) /\ Len(q \o s) = m + (k - m)
        /\ \A i \in 1..m + (k - m) : (q \o s)[i] = IF i <= m THEN q[i] ELSE s[i - m]
    BY <1>1, <1>5, PathIs, ConcatProperties
  <2>2. m + (k - m) = k
    BY <1>1
  <2>3. ASSUME NEW i \in 1..k PROVE (q \o s)[i] = p[i]
    <3>1. CASE i <= m
      <4>1. i \in 1..m /\ i \in 1..m + (k - m)
        BY <1>1, <2>2, <3>1
      <4> QED BY <1>2, <2>1, <3>1, <4>1
    <3>2. CASE ~(i <= m)
      <4>1. i - m \in 1..k - m /\ m + (i - m) = i
        BY <1>1, <3>2
      <4> QED BY <1>5, <2>1, <2>2, <3>2, <4>1
    <3> QED BY <3>1, <3>2
  <2> QED BY <1>1, <2>1, <2>2, <2>3, PathIs, SeqEqual
<1> QED BY <1>1, <1>4, <1>6, <1>7

LEMMA Extended ==
  ASSUME MaxDepth \in Nat, NEW q \in TreePath, NEW s \in Suffix
  PROVE  /\ Len(q \o s) = Len(q) + Len(s) /\ q \o s \in Seq(Component)
         /\ \A i \in 1..Len(q) + Len(s) : (q \o s)[i] = IF i <= Len(q) THEN q[i] ELSE s[i - Len(q)]
BY PathIs, SuffixIs, ConcatProperties

LEMMA ExtendedWithin ==
  ASSUME MaxDepth \in Nat, NEW q \in TreePath, NEW s \in Suffix, q \o s \in TreePath
  PROVE  Within(q \o s, q) /\ SubSeq(q \o s, Len(q) + 1, Len(q \o s)) = s
<1>1. PICK m \in Nat, n \in Nat : m = Len(q) /\ n = Len(s)
  BY PathIs, SuffixIs
<1>2. PICK p \in TreePath : p = q \o s
  OBVIOUS
<1>3. /\ p \in Seq(Component) /\ Len(p) = m + n
      /\ \A i \in 1..m + n : p[i] = IF i <= m THEN q[i] ELSE s[i - m]
  BY <1>1, <1>2, Extended
<1>4. Within(p, q)
  BY <1>1, <1>3, PathIs, WithinIs
<1>5. PICK u : u = SubSeq(p, m + 1, m + n)
  OBVIOUS
<1>6. \A i \in m + 1..m + n : p[i] \in Component
  BY <1>3, ElementOfSeq
<1>7. /\ u \in Seq(Component) /\ Len(u) = IF m + 1 <= m + n THEN (m + n) - (m + 1) + 1 ELSE 0
      /\ \A i \in 1..(m + n) - (m + 1) + 1 : u[i] = p[m + 1 + i - 1]
  BY <1>5, <1>6, SubSeqProperties
<1>8. Len(u) = n
  BY <1>7
<1>9. ASSUME NEW i \in 1..n PROVE u[i] = s[i]
  <2>1. i \in 1..(m + n) - (m + 1) + 1 /\ m + 1 + i - 1 = m + i /\ m + i \in 1..m + n
        /\ ~(m + i <= m) /\ (m + i) - m = i
    BY <1>1
  <2>2. u[i] = p[m + i]
    BY <1>7, <2>1
  <2> QED BY <1>3, <2>1, <2>2
<1>10. u = s
  BY <1>1, <1>7, <1>8, <1>9, SuffixIs, SeqEqual
<1> QED BY <1>1, <1>2, <1>3, <1>4, <1>5, <1>10

\* What is above to and a suffix, and not above to, is to and a suffix; and what
\* is so under to is so under from.
LEMMA SameUnder ==
  ASSUME MaxDepth \in Nat, NEW from \in TreePath, NEW to \in TreePath, NEW s \in Suffix,
         from \o s \in TreePath, to \o s \in TreePath,
         NEW a \in Ancestors(to \o s), Within(a, to)
  PROVE  \E r \in Suffix : /\ a = to \o r /\ from \o r \in TreePath
                           /\ from \o r \in Ancestors(from \o s)
<1>1. PICK p \in TreePath, f \in TreePath : p = to \o s /\ f = from \o s
  OBVIOUS
<1>2. a \in TreePath /\ Within(p, a) /\ a # p
  BY <1>1, AncestorIs
<1>3. PICK r \in Suffix : a = to \o r
  BY <1>2, After
<1>4. PICK k \in Nat, m \in Nat, n \in Nat, l \in Nat :
        k = Len(to) /\ m = Len(from) /\ n = Len(s) /\ l = Len(r)
  BY PathIs, SuffixIs
<1>5. /\ p \in Seq(Component) /\ Len(p) = k + n
      /\ \A i \in 1..k + n : p[i] = IF i <= k THEN to[i] ELSE s[i - k]
  BY <1>1, <1>4, Extended
<1>6. /\ a \in Seq(Component) /\ Len(a) = k + l
      /\ \A i \in 1..k + l : a[i] = IF i <= k THEN to[i] ELSE r[i - k]
  BY <1>3, <1>4, Extended
<1>7. k + l <= k + n /\ \A i \in 1..k + l : p[i] = a[i]
  BY <1>2, <1>5, <1>6, WithinIs
<1>8. k + l # k + n
  BY <1>2, <1>5, <1>6, <1>7, SeqEqual
<1>9. l < n
  BY <1>7, <1>8
<1>10. ASSUME NEW i \in 1..l PROVE r[i] = s[i]
  <2>1. k + i \in 1..k + l /\ k + i \in 1..k + n /\ ~(k + i <= k) /\ (k + i) - k = i
    BY <1>9
  <2> QED BY <1>5, <1>6, <1>7, <2>1
<1>11. PICK b : b = from \o r
  OBVIOUS
<1>12. /\ b \in Seq(Component) /\ Len(b) = m + l
       /\ \A i \in 1..m + l : b[i] = IF i <= m THEN from[i] ELSE r[i - m]
  BY <1>4, <1>11, Extended
<1>13. /\ f \in Seq(Component) /\ Len(f) = m + n
       /\ \A i \in 1..m + n : f[i] = IF i <= m THEN from[i] ELSE s[i - m]
  BY <1>1, <1>4, Extended
<1>14. b \in TreePath
  <2>1. m >= 1 /\ m + n <= MaxDepth
    BY <1>4, <1>13, PathIs
  <2>2. m + l \in 1..MaxDepth
    BY <1>9, <2>1
  <2> QED BY <1>12, <2>2, IsPath
<1>15. ASSUME NEW i \in 1..m + l PROVE f[i] = b[i]
  <2>1. i \in 1..m + n
    BY <1>9
  <2>2. CASE i <= m
    BY <1>12, <1>13, <2>1, <2>2
  <2>3. CASE ~(i <= m)
    <3>1. i - m \in 1..l
      BY <2>3
    <3> QED BY <1>10, <1>12, <1>13, <2>1, <2>3, <3>1
  <2> QED BY <2>2, <2>3
<1>16. Within(f, b) /\ b # f
  <2>1. m + l <= m + n /\ m + l # m + n
    BY <1>9
  <2>2. Within(f, b)
    BY <1>12, <1>13, <1>15, <2>1, WithinIs
  <2> QED BY <1>12, <1>13, <2>1, <2>2
<1> QED BY <1>1, <1>3, <1>11, <1>14, <1>16, AncestorIs

-----------------------------------------------------------------------------
(* Nodes, and what a path shows.                                           *)

LEMMA Kinds ==
  /\ Nothing \notin Node /\ Gone \notin Node /\ Unchanged \notin Node /\ Submodule \notin Node
  /\ Gone # Unchanged /\ Nothing # Submodule
  /\ Directory \in Node /\ Link \in Node /\ FileNode \subseteq Node
  /\ Directory \notin FileNode /\ Link \notin FileNode /\ Directory # Link
  /\ \A n \in Node : n \in FileNode \/ n = Directory \/ n = Link
<1>1. \A n \in FileNode : n.kind = "file"
  BY DEF FileNode, FileEntry
<1>2. /\ Nothing.kind = "absent" /\ Gone.kind = "gone" /\ Unchanged.kind = "unchanged"
      /\ Submodule.kind = "submodule" /\ Directory.kind = "dir" /\ Link.kind = "link"
  BY DEF Nothing, Gone, Unchanged, Submodule, Directory, Link
<1> QED BY <1>1, <1>2 DEF Node

LEMMA Files ==
  /\ \A n \in FileNode : /\ n.data \in Bytes /\ n.exec \in BOOLEAN
                         /\ n = [kind |-> "file", data |-> n.data, exec |-> n.exec]
  /\ \A c \in Bytes, x \in BOOLEAN : [kind |-> "file", data |-> c, exec |-> x] \in FileNode
BY DEF FileNode, FileEntry

LEMMA Laid ==
  ASSUME NEW e \in BaseEntry, NEW c \in Change
  PROVE  /\ c \in Node => Over(e, c) = c
         /\ Over(e, Gone) = Nothing
         /\ Over(e, Unchanged) = AsShown(e)
         /\ AsShown(e) \in Node \union {Nothing}
         /\ Over(e, c) \in Node \union {Nothing}
<1>1. AsShown(e) \in Node \union {Nothing}
  BY Kinds DEF AsShown, BaseEntry
<1>2. /\ c \in Node => Over(e, c) = c
      /\ Over(e, Gone) = Nothing
      /\ Over(e, Unchanged) = AsShown(e)
  BY Kinds DEF Over
<1>3. c \in Node \/ c = Gone \/ c = Unchanged
  BY DEF Change
<1> QED BY <1>1, <1>2, <1>3

Typed == baseTree \in [TreePath -> BaseEntry] /\ changes \in [TreePath -> Change]

LEMMA Views ==
  ASSUME Typed, NEW p \in TreePath
  PROVE  View(p) \in Node \union {Nothing} /\ tree[p] = View(p)
<1>1. baseTree[p] \in BaseEntry /\ changes[p] \in Change
  BY DEF Typed
<1> QED BY <1>1, Laid DEF View, tree

\* ViewTree's paths and nodes are ViewVfs's.
LEMMA SameTerms ==
  /\ T!TreePath = TreePath /\ T!Nothing = Nothing /\ T!Dir = Directory /\ T!Link = Link
  /\ T!FileNode = FileNode /\ T!Node = Node
  /\ \A c, x : T!FileEntry(c, x) = FileEntry(c, x)
  /\ \A p, q : T!Within(p, q) <=> Within(p, q)
  /\ \A p : T!Ancestors(p) = Ancestors(p)
<1>1. T!TreePath = TreePath /\ T!Nothing = Nothing /\ T!Dir = Directory /\ T!Link = Link
  BY DEF T!TreePath, TreePath, T!Nothing, Nothing, T!Dir, Directory, T!Link, Link
<1>2. \A c, x : T!FileEntry(c, x) = FileEntry(c, x)
  BY DEF T!FileEntry, FileEntry
<1>3. T!FileNode = FileNode
  BY <1>2 DEF T!FileNode, FileNode
<1>4. T!Node = Node
  BY <1>1, <1>3 DEF T!Node, Node
<1>5. \A p, q : T!Within(p, q) <=> Within(p, q)
  BY DEF T!Within, Within
<1>6. \A p : T!Ancestors(p) = Ancestors(p)
  BY DEF T!Ancestors, Ancestors
<1> QED BY <1>1, <1>2, <1>3, <1>4, <1>5, <1>6

LEMMA Trees ==
  ASSUME NEW tr
  PROVE  T!IsTree(tr) <=> \A p \in TreePath : tr[p] # Nothing => \A q \in Ancestors(p) : tr[q] = Directory
BY SameTerms DEF T!IsTree

LEMMA ViewIsTree ==
  ASSUME MaxDepth \in Nat, Typed
  PROVE  T!IsTree(tree) <=>
           \A p \in TreePath : View(p) # Nothing => \A q \in Ancestors(p) : View(q) = Directory
BY Trees, Views, AncestorIs

LEMMA TreeNext ==
  ASSUME MaxDepth \in Nat,
         \A p \in TreePath : View(p)' # Nothing => \A q \in Ancestors(p) : View(q)' = Directory
  PROVE  T!IsTree(tree)'
<1>1. \A p \in TreePath : tree'[p] = View(p)'
  BY DEF tree
<1>2. \A p \in TreePath : tree'[p] # Nothing => \A q \in Ancestors(p) : tree'[q] = Directory
  BY <1>1, AncestorIs
<1> QED BY <1>2, SameTerms DEF T!IsTree

-----------------------------------------------------------------------------
(* What the code looks for in a view that is a tree.                       *)

\* ensure_parents finds the missing directories, and that none is something else.
LEMMA Parents ==
  ASSUME MaxDepth \in Nat, Typed, T!IsTree(tree), NEW p \in TreePath, ParentsFit(p)
  PROVE  /\ \A q \in Ancestors(p) : View(q) \in {Nothing, Directory}
         /\ Missing(p) = {q \in Ancestors(p) : View(q) = Nothing}
<1>1. ASSUME NEW q \in Ancestors(p), View(q) # Directory, NEW r \in Ancestors(p), Len(q) <= Len(r)
      PROVE  r = q \/ View(r) = Nothing
  <2>1. q \in TreePath /\ r \in TreePath /\ Within(p, q) /\ Within(p, r)
    BY AncestorIs
  <2>2. Within(r, q)
    BY <1>1, <2>1, WithinInLine
  <2>3. r # q => q \in Ancestors(r)
    BY <2>1, <2>2, AncestorIs
  <2> QED BY <1>1, <2>1, <2>3, ViewIsTree
<1>2. ASSUME NEW q \in Ancestors(p), View(q) # Nothing
      PROVE  View(q) = Directory
  <2>1. SUFFICES ASSUME View(q) # Directory PROVE FALSE
    OBVIOUS
  <2>2. ASSUME NEW r \in Ancestors(p), Len(q) < Len(r)
        PROVE  View(r) = Nothing
    <3>1. q \in TreePath /\ r \in TreePath
      BY AncestorIs
    <3>2. PICK m \in Nat, n \in Nat : m = Len(q) /\ n = Len(r)
      BY <3>1, PathIs
    <3>3. Len(q) <= Len(r) /\ r # q
      BY <2>2, <3>2
    <3> QED BY <1>1, <2>1, <3>3
  <2> QED BY <1>2, <2>1, <2>2 DEF ParentsFit
<1>3. \A q \in Ancestors(p) : View(q) \in {Nothing, Directory}
  BY <1>2
<1>4. ASSUME NEW q \in Ancestors(p) PROVE q \in Missing(p) <=> View(q) = Nothing
  <2>1. q \in TreePath
    BY AncestorIs
  <2>2. q \in Missing(p) => View(q) = Nothing
    <3>1. Len(q) <= Len(q)
      BY <2>1, PathIs
    <3> QED BY <3>1 DEF Missing
  <2>3. View(q) = Nothing => q \in Missing(p)
    <3>1. View(q) = Nothing => View(q) # Directory
      BY Kinds
    <3> QED BY <1>1, <3>1 DEF Missing
  <2> QED BY <2>2, <2>3
<1> QED BY <1>3, <1>4 DEF Missing

\* A directory with no entry has nothing below it.
LEMMA ShowsNothing ==
  ASSUME MaxDepth \in Nat, Typed, T!IsTree(tree), NEW p \in TreePath, NoNames(p),
         NEW q \in TreePath, Within(q, p), q # p
  PROVE  View(q) = Nothing
<1>1. PICK r \in TreePath : Len(r) = Len(p) + 1 /\ Within(r, p) /\ Within(q, r)
  BY ThroughEntry
<1>2. View(r) = Nothing
  BY <1>1 DEF NoNames
<1>3. r = q \/ r \in Ancestors(q)
  BY <1>1, AncestorIs
<1> QED BY <1>2, <1>3, ViewIsTree, Kinds

-----------------------------------------------------------------------------
(* What a change does to what the view shows.                              *)

\* One path is changed, and the directories it needs.
LEMMA InsertTyped ==
  ASSUME Typed, baseTree' = baseTree, NEW p \in TreePath, NEW node \in Node, Insert(p, node)
  PROVE  /\ Typed'
         /\ \A q \in TreePath :
              View(q)' = IF q = p THEN node ELSE IF q \in Missing(p) THEN Directory ELSE View(q)
<1>1. \A q \in TreePath :
        changes'[q] = IF q = p THEN node ELSE IF q \in Missing(p) THEN Directory ELSE changes[q]
  BY DEF Insert
<1>2. changes' = [q \in TreePath |-> changes'[q]]
  BY DEF Insert
<1>3. \A q \in TreePath : changes'[q] \in Change
  BY <1>1, Kinds DEF Change, Typed
<1>4. Typed'
  BY <1>2, <1>3 DEF Typed
<1>5. ASSUME NEW q \in TreePath
      PROVE  View(q)' = IF q = p THEN node ELSE IF q \in Missing(p) THEN Directory ELSE View(q)
  <2>1. baseTree[q] \in BaseEntry /\ Directory \in Change /\ node \in Change
    BY Kinds DEF Typed, Change
  <2>2. Over(baseTree[q], node) = node /\ Over(baseTree[q], Directory) = Directory
    BY <2>1, Laid, Kinds
  <2> QED BY <1>1, <2>2 DEF View
<1> QED BY <1>4, <1>5

LEMMA Inserted ==
  ASSUME MaxDepth \in Nat, Typed, baseTree' = baseTree, T!IsTree(tree), NEW p \in TreePath,
         ParentsFit(p), NEW node \in Node, View(p) = Directory => node = Directory, Insert(p, node)
  PROVE  /\ T!IsTree(tree)' /\ T!HasRoom(p)
         /\ tree' = T!With([q \in {p} |-> node], p)
<1>1. Typed' /\ \A q \in TreePath :
        View(q)' = IF q = p THEN node ELSE IF q \in Missing(p) THEN Directory ELSE View(q)
  BY InsertTyped
<1>2. \A q \in Ancestors(p) : View(q) \in {Nothing, Directory} /\ q \in TreePath /\ q # p
  BY Parents, AncestorIs
<1>3. \A q \in TreePath :
        View(q)' = IF q = p THEN node ELSE IF q \in Ancestors(p) THEN Directory ELSE View(q)
  BY <1>1, <1>2, Parents
<1>4. T!HasRoom(p)
  BY <1>2, Views, SameTerms DEF T!HasRoom
<1>5. tree' = T!With([q \in {p} |-> node], p)
  <2>1. T!With([q \in {p} |-> node], p) =
          [q \in TreePath |-> IF q = p THEN node ELSE IF q \in Ancestors(p) THEN Directory ELSE View(q)]
    BY Views, SameTerms DEF T!With
  <2> QED BY <1>3, <2>1 DEF tree
<1>6. ASSUME NEW q \in TreePath, View(q)' # Nothing, NEW r \in Ancestors(q)
      PROVE  View(r)' = Directory
  <2>1. r \in TreePath /\ Within(q, r) /\ r # q
    BY AncestorIs
  <2>2. CASE q = p
    BY <1>3, <2>1, <2>2
  <2>3. CASE q \in Ancestors(p)
    <3>1. r \in Ancestors(p)
      BY <1>2, <2>1, <2>3, AncestorIs, WithinPasses, WithinBoth
    <3> QED BY <1>2, <1>3, <2>1, <3>1
  <2>4. CASE q # p /\ q \notin Ancestors(p)
    <3>1. View(q) # Nothing /\ View(r) = Directory
      BY <1>3, <1>6, <2>4, ViewIsTree
    <3> QED BY <1>3, <2>1, <3>1
  <2> QED BY <2>2, <2>3, <2>4
<1>7. T!IsTree(tree)'
  BY <1>6, TreeNext
<1> QED BY <1>4, <1>5, <1>7

\* One path is changed, and what it needs is there.
LEMMA Assigned ==
  ASSUME MaxDepth \in Nat, Typed, baseTree' = baseTree, NEW p \in TreePath, NEW change \in Node \union {Gone},
         changes' = [changes EXCEPT ![p] = change]
  PROVE  /\ Typed'
         /\ tree' = [tree EXCEPT ![p] = IF change = Gone THEN Nothing ELSE change]
         /\ \A q \in TreePath :
              View(q)' = IF q # p THEN View(q) ELSE IF change = Gone THEN Nothing ELSE change
<1>1. change \in Change /\ changes \in [TreePath -> Change]
  BY DEF Change, Typed
<1>2. Typed'
  BY <1>1 DEF Typed
<1>3. \A q \in TreePath : changes'[q] = IF q = p THEN change ELSE changes[q]
  BY <1>1
<1>4. ASSUME NEW q \in TreePath
      PROVE  View(q)' = IF q # p THEN View(q) ELSE IF change = Gone THEN Nothing ELSE change
  <2>1. baseTree[q] \in BaseEntry
    BY DEF Typed
  <2>2. Over(baseTree[q], change) = IF change = Gone THEN Nothing ELSE change
    BY <1>1, <2>1, Laid
  <2> QED BY <1>3, <2>2 DEF View
<1>5. tree' = [tree EXCEPT ![p] = IF change = Gone THEN Nothing ELSE change]
  BY <1>4, Views DEF tree
<1> QED BY <1>2, <1>4, <1>5

LEMMA Cleared ==
  ASSUME MaxDepth \in Nat, Typed, baseTree' = baseTree, T!IsTree(tree), NEW p \in TreePath, NoNames(p),
         changes' = [changes EXCEPT ![p] = Gone]
  PROVE  T!IsTree(tree)' /\ T!IsEmpty(p) /\ tree' = [tree EXCEPT ![p] = T!Nothing]
<1>1. tree' = [tree EXCEPT ![p] = Nothing] /\ \A q \in TreePath : View(q)' = IF q # p THEN View(q) ELSE Nothing
  BY Assigned
<1>2. T!IsEmpty(p)
  BY ShowsNothing, Views, SameTerms DEF T!IsEmpty
<1>3. ASSUME NEW q \in TreePath, View(q)' # Nothing, NEW r \in Ancestors(q)
      PROVE  View(r)' = Directory
  <2>1. r \in TreePath /\ Within(q, r) /\ r # q
    BY AncestorIs
  <2>2. View(q) # Nothing /\ View(r) = Directory
    BY <1>1, <1>3, ViewIsTree
  <2>3. r # p
    BY <2>1, <2>2, ShowsNothing
  <2> QED BY <1>1, <2>1, <2>2, <2>3
<1>4. T!IsTree(tree)'
  BY <1>3, TreeNext
<1> QED BY <1>1, <1>2, <1>4, SameTerms

\* A file stays a file, a directory one.
LEMMA KindKept ==
  ASSUME MaxDepth \in Nat, Typed, baseTree' = baseTree, T!IsTree(tree), NEW p \in TreePath, NEW node \in Node,
         View(p) # Nothing, node = Directory <=> View(p) = Directory,
         changes' = [changes EXCEPT ![p] = node]
  PROVE  T!IsTree(tree)' /\ tree' = [tree EXCEPT ![p] = node]
<1>0. node # Gone
  BY Kinds
<1>1. /\ tree' = [tree EXCEPT ![p] = node]
      /\ \A q \in TreePath : View(q)' = IF q # p THEN View(q) ELSE node
  BY <1>0, Assigned
<1>2. ASSUME NEW q \in TreePath, View(q)' # Nothing, NEW r \in Ancestors(q)
      PROVE  View(r)' = Directory
  <2>1. r \in TreePath
    BY AncestorIs
  <2>2. View(q) # Nothing /\ View(r) = Directory
    BY <1>1, <1>2, ViewIsTree
  <2> QED BY <1>1, <2>1, <2>2
<1>3. T!IsTree(tree)'
  BY <1>2, TreeNext
<1> QED BY <1>1, <1>3

\* All that was found under from goes to the same place under to.
IsMove(from, to, found) ==
  LET there == {to \o s : s \in DOMAIN found}
      away == {from \o s : s \in DOMAIN found}
  IN  changes' = [p \in TreePath |->
                    IF p \in away THEN Left(p)
                    ELSE IF p \in there THEN found[SubSeq(p, Len(to) + 1, Len(p))]
                    ELSE IF p \in Missing(to) THEN Directory
                    ELSE changes[p]]

\* What a move may hold: nodes, each with its place at both ends.
Carried(from, to, found) ==
  /\ DOMAIN found \subseteq Suffix /\ <<>> \in DOMAIN found
  /\ \A s \in DOMAIN found :
       from \o s \in TreePath /\ to \o s \in TreePath /\ found[s] \in Node

\* What the view shows after one.
MovedView(from, to, found) ==
  /\ \A p \in TreePath : (\E s \in DOMAIN found : p = from \o s) => View(p)' = Nothing
  /\ \A s \in DOMAIN found, p \in TreePath :
       p = to \o s => View(p)' = found[s] \/ \E r \in DOMAIN found : p = from \o r
  /\ \A p \in TreePath :
       (\A s \in DOMAIN found : p # from \o s /\ p # to \o s)
         => View(p)' = IF p \in Missing(to) THEN Directory ELSE View(p)

LEMMA MovedTyped ==
  ASSUME MaxDepth \in Nat, Typed, baseTree' = baseTree, NEW from \in TreePath, NEW to \in TreePath,
         NEW found, Carried(from, to, found), IsMove(from, to, found)
  PROVE  Typed' /\ MovedView(from, to, found)
<1> USE DEF Carried
<1> DEFINE there == {to \o s : s \in DOMAIN found}
           away == {from \o s : s \in DOMAIN found}
<1>1. \A p \in TreePath :
        changes'[p] = IF p \in away THEN Left(p)
                      ELSE IF p \in there THEN found[SubSeq(p, Len(to) + 1, Len(p))]
                      ELSE IF p \in Missing(to) THEN Directory
                      ELSE changes[p]
  BY DEF IsMove
<1>2. changes' = [p \in TreePath |-> changes'[p]]
  BY DEF IsMove
<1>3. \A s \in DOMAIN found : SubSeq(to \o s, Len(to) + 1, Len(to \o s)) = s
  BY ExtendedWithin
<1>4. \A p \in TreePath : Left(p) \in {Gone, Unchanged} /\ Over(baseTree[p], Left(p)) = Nothing
  <2> SUFFICES ASSUME NEW p \in TreePath
               PROVE  Left(p) \in {Gone, Unchanged} /\ Over(baseTree[p], Left(p)) = Nothing
    OBVIOUS
  <2>1. baseTree[p] \in BaseEntry /\ Gone \in Change
    BY DEF Typed, Change
  <2>2. Over(baseTree[p], Gone) = Nothing /\ Over(baseTree[p], Unchanged) = AsShown(baseTree[p])
    BY <2>1, Laid
  <2>3. baseTree[p] = Nothing => AsShown(baseTree[p]) = Nothing
    BY Kinds DEF AsShown
  <2> QED BY <2>2, <2>3 DEF Left
<1>5. ASSUME NEW p \in TreePath PROVE changes'[p] \in Change
  <2>1. CASE p \in away
    BY <1>1, <1>4, <2>1 DEF Change
  <2>2. CASE p \notin away /\ p \in there
    <3>1. PICK s \in DOMAIN found : p = to \o s
      BY <2>2
    <3>2. changes'[p] = found[s]
      BY <1>1, <1>3, <2>2, <3>1
    <3> QED BY <3>2 DEF Change
  <2>3. CASE p \notin away /\ p \notin there
    BY <1>1, <2>3, Kinds DEF Change, Typed
  <2> QED BY <2>1, <2>2, <2>3
<1>6. Typed'
  BY <1>2, <1>5 DEF Typed
<1>7. ASSUME NEW p \in TreePath, p \in away PROVE View(p)' = Nothing
  BY <1>1, <1>4, <1>7 DEF View
<1>8. ASSUME NEW s \in DOMAIN found, NEW p \in TreePath, p = to \o s, p \notin away
      PROVE  View(p)' = found[s]
  <2>2. p \in there /\ p \notin away
    BY <1>8
  <2>3. changes'[p] = found[s]
    BY <1>1, <1>3, <1>8, <2>2
  <2>4. baseTree[p] \in BaseEntry /\ found[s] \in Change /\ found[s] \in Node
    BY DEF Typed, Change
  <2> QED BY <2>3, <2>4, Laid DEF View
<1>9. ASSUME NEW p \in TreePath, p \notin away, p \notin there
      PROVE  View(p)' = IF p \in Missing(to) THEN Directory ELSE View(p)
  <2>1. baseTree[p] \in BaseEntry /\ Directory \in Change /\ Directory \in Node
    BY Kinds DEF Typed, Change
  <2>2. Over(baseTree[p], Directory) = Directory
    BY <2>1, Laid
  <2> QED BY <1>1, <1>9, <2>2 DEF View
<1>10. \A p : p \in away <=> \E s \in DOMAIN found : p = from \o s
  OBVIOUS
<1>11. \A p : p \in there <=> \E s \in DOMAIN found : p = to \o s
  OBVIOUS
<1> HIDE DEF there, away
<1> QED BY <1>6, <1>7, <1>8, <1>9, <1>10, <1>11 DEF MovedView

\* found is all there is at and under from.
AllUnder(from, found) ==
  /\ \A s \in DOMAIN found : View(from \o s) = found[s] /\ View(from \o s) # Nothing
  /\ \A p \in TreePath :
       Within(p, from) /\ View(p) # Nothing => \E s \in DOMAIN found : p = from \o s

LEMMA Moved ==
  ASSUME MaxDepth \in Nat, Typed, baseTree' = baseTree, T!IsTree(tree),
         NEW from \in TreePath, NEW to \in TreePath, NEW found,
         Carried(from, to, found), AllUnder(from, found),
         ~Within(to, from), View(to) = Directory => NoNames(to), ParentsFit(to),
         IsMove(from, to, found)
  PROVE  T!IsTree(tree)' /\ T!Move(from, to)
<1> DEFINE Away(p) == \E s \in DOMAIN found : p = from \o s
           There(p) == \E s \in DOMAIN found : p = to \o s
<1>0. /\ DOMAIN found \subseteq Suffix /\ <<>> \in DOMAIN found
      /\ \A s \in DOMAIN found :
           from \o s \in TreePath /\ to \o s \in TreePath /\ found[s] \in Node
  BY DEF Carried
<1>1. \A p \in TreePath : Away(p) <=> Within(p, from) /\ View(p) # Nothing
  BY <1>0, ExtendedWithin DEF AllUnder
<1>2. \A p \in TreePath : There(p) => Within(p, to)
  BY <1>0, ExtendedWithin
<1>3. View(from) # Nothing
  BY <1>0, NoSuffix DEF AllUnder
<1>4. \A q \in Ancestors(to) : View(q) \in {Nothing, Directory} /\ q \in TreePath /\ Within(to, q) /\ q # to
  BY Parents, AncestorIs
<1>5. Missing(to) = {q \in Ancestors(to) : View(q) = Nothing}
  BY Parents
<1>6. ASSUME NEW p \in TreePath, Away(p) PROVE ~There(p)
  <2>1. SUFFICES ASSUME Within(p, to) PROVE FALSE
    BY <1>2
  <2>2. Within(from, to) /\ from # to
    BY <1>1, <1>6, <2>1, WithinInLine, WithinItself
  <2>3. View(to) = Directory
    BY <1>3, <2>2, AncestorIs, ViewIsTree
  <2> QED BY <1>3, <2>2, <2>3, ShowsNothing
<1>7. \A q \in Ancestors(to) : ~Away(q) /\ ~There(q)
  BY <1>1, <1>2, <1>4, WithinPasses, WithinBoth
<1>8. /\ \A p \in TreePath : Away(p) => View(p)' = Nothing
      /\ \A s \in DOMAIN found, p \in TreePath : p = to \o s => View(p)' = found[s]
      /\ \A p \in TreePath :
           ~Away(p) /\ ~There(p) => View(p)' = IF p \in Ancestors(to) THEN Directory ELSE View(p)
  <2>1. /\ \A p \in TreePath : Away(p) => View(p)' = Nothing
        /\ \A s \in DOMAIN found, p \in TreePath : p = to \o s /\ ~Away(p) => View(p)' = found[s]
        /\ \A p \in TreePath :
             ~Away(p) /\ ~There(p) => View(p)' = IF p \in Missing(to) THEN Directory ELSE View(p)
    <3>1. MovedView(from, to, found)
      BY MovedTyped
    <3> QED BY <3>1 DEF MovedView
  <2>2. \A s \in DOMAIN found : ~Away(to \o s)
    BY <1>0, <1>6
  <2>3. \A p \in TreePath : (IF p \in Missing(to) THEN Directory ELSE View(p))
                              = IF p \in Ancestors(to) THEN Directory ELSE View(p)
    BY <1>4, <1>5
  <2> QED BY <2>1, <2>2, <2>3
<1>9. ASSUME NEW p \in TreePath, View(p)' # Nothing, NEW a \in Ancestors(p)
      PROVE  View(a)' = Directory
  <2>1. a \in TreePath /\ Within(p, a) /\ a # p
    BY AncestorIs
  <2>2. ~Away(p)
    BY <1>8, <1>9
  <2>3. CASE There(p)
    <3>1. PICK s \in DOMAIN found : p = to \o s
      BY <2>3
    <3>2. CASE Within(a, to)
      <4>1. PICK r \in Suffix : /\ a = to \o r /\ from \o r \in TreePath
                               /\ from \o r \in Ancestors(from \o s)
        BY <1>0, <3>1, <3>2, SameUnder
      <4>2. View(from \o r) = Directory
        BY <1>0, <4>1, ViewIsTree DEF AllUnder
      <4>3. Within(from \o r, from)
        BY <4>1, ExtendedWithin
      <4>4. PICK u \in DOMAIN found : from \o r = from \o u
        BY <4>1, <4>2, <4>3, Kinds DEF AllUnder
      <4>5. r = u
        BY <1>0, <4>1, <4>4, ExtendedWithin
      <4>6. found[r] = Directory
        BY <4>2, <4>4, <4>5 DEF AllUnder
      <4> QED BY <1>8, <2>1, <4>1, <4>4, <4>5, <4>6
    <3>3. CASE ~Within(a, to)
      <4>1. Within(to, a) /\ a # to
        BY <1>2, <2>1, <2>3, <3>3, WithinInLine, WithinItself
      <4>2. a \in Ancestors(to)
        BY <2>1, <4>1, AncestorIs
      <4> QED BY <1>7, <1>8, <2>1, <4>2
    <3> QED BY <3>2, <3>3
  <2>4. CASE p \in Ancestors(to)
    <3>1. a \in Ancestors(to)
      BY <1>4, <2>1, <2>4, AncestorIs, WithinPasses, WithinBoth
    <3> QED BY <1>7, <1>8, <2>1, <3>1
  <2>5. CASE ~There(p) /\ p \notin Ancestors(to)
    <3>1. View(p) # Nothing
      BY <1>8, <1>9, <2>2, <2>5
    <3>2. View(a) = Directory
      BY <3>1, ViewIsTree
    <3>3. ~Away(a)
      BY <1>1, <2>1, <2>2, <3>1, WithinPasses
    <3>4. ~There(a)
      <4>1. SUFFICES ASSUME Within(a, to) PROVE FALSE
        BY <1>2, <2>1
      <4>2. Within(p, to) /\ p # to
        BY <2>1, <4>1, WithinPasses, WithinBoth
      <4>3. View(to) = Directory
        BY <3>1, <4>2, AncestorIs, ViewIsTree
      <4> QED BY <3>1, <4>2, <4>3, ShowsNothing
    <3> QED BY <1>8, <2>1, <3>2, <3>3, <3>4
  <2> QED BY <2>3, <2>4, <2>5
<1>10. T!IsTree(tree)'
  BY <1>9, TreeNext
<1>11. T!HasRoom(to)
  BY <1>4, Views, SameTerms DEF T!HasRoom
<1>12. tree[to] = Directory => T!IsEmpty(to)
  BY ShowsNothing, Views, SameTerms DEF T!IsEmpty
<1> DEFINE moved == {q \in TreePath : Within(q, from) /\ tree[q] # Nothing}
           At(q) == to \o SubSeq(q, Len(from) + 1, Len(q))
           targets == {At(q) : q \in moved}
           put == [q \in targets \union moved |->
                     IF q \in targets
                       THEN tree[from \o SubSeq(q, Len(to) + 1, Len(q))]
                       ELSE Nothing]
<1>13. \A p \in TreePath : p \in moved <=> Away(p)
  BY <1>1, Views
<1>14. \A s \in DOMAIN found : from \o s \in moved /\ At(from \o s) = to \o s
  BY <1>0, <1>1, <1>13, ExtendedWithin
<1>15. \A p : p \in targets <=> There(p)
  <2>1. ASSUME NEW p, p \in targets PROVE There(p)
    <3>1. PICK q \in moved : p = At(q)
      BY <2>1
    <3>2. PICK s \in DOMAIN found : q = from \o s
      BY <1>13, <3>1
    <3> QED BY <1>14, <3>1, <3>2
  <2>2. ASSUME NEW p, There(p) PROVE p \in targets
    <3>1. PICK s \in DOMAIN found : p = to \o s
      BY <2>2
    <3> QED BY <1>14, <3>1
  <2> QED BY <2>1, <2>2
<1>16. \A s \in DOMAIN found :
         tree[from \o SubSeq(to \o s, Len(to) + 1, Len(to \o s))] = found[s]
  BY <1>0, ExtendedWithin, Views DEF AllUnder
<1>17. targets \subseteq TreePath /\ moved \subseteq TreePath
  BY <1>0, <1>15
<1> HIDE DEF Away, There, moved, At, targets
<1>18. tree' = [q \in TreePath |-> IF q \in DOMAIN put THEN put[q]
                                 ELSE IF q \in Ancestors(to) THEN Directory ELSE tree[q]]
  <2>1. ASSUME NEW p \in TreePath
        PROVE  View(p)' = IF p \in DOMAIN put THEN put[p]
                          ELSE IF p \in Ancestors(to) THEN Directory ELSE tree[p]
    <3>1. CASE p \in targets
      <4>1. PICK s \in DOMAIN found : p = to \o s
        BY <1>15, <3>1 DEF There
      <4>2. put[p] = found[s]
        BY <1>16, <3>1, <4>1
      <4> QED BY <1>8, <3>1, <4>1, <4>2
    <3>2. CASE p \notin targets /\ p \in moved
      BY <1>8, <1>13, <3>2
    <3>3. CASE p \notin targets /\ p \notin moved
      BY <1>8, <1>13, <1>15, <3>3, Views
    <3> QED BY <3>1, <3>2, <3>3
  <2> HIDE DEF put
  <2> QED BY <2>1 DEF tree
<1>19. tree[from] # Nothing
  BY <1>3, Views
<1>20. ~T!Within(to, from) /\ tree[from] # T!Nothing /\ (tree[to] = T!Dir => T!IsEmpty(to))
  BY <1>12, <1>19, SameTerms
<1>21. targets \subseteq T!TreePath
  BY <1>17, SameTerms
<1>22. tree' = T!With(put, to)
  <2> HIDE DEF put
  <2> QED BY <1>18, SameTerms DEF T!With
<1>23. moved = {q \in T!TreePath : T!Within(q, from) /\ tree[q] # T!Nothing}
  BY SameTerms DEF moved
<1>24. put = [q \in targets \union moved |->
                IF q \in targets
                  THEN tree[from \o SubSeq(q, Len(to) + 1, Len(q))]
                  ELSE T!Nothing]
  BY SameTerms
<1> HIDE DEF put
<1>25. T!Move(from, to)
  BY <1>11, <1>20, <1>21, <1>22, <1>23, <1>24 DEF T!Move, targets, At
<1> QED BY <1>10, <1>25

-----------------------------------------------------------------------------
(* Operations underway.                                                    *)

\* What an operation found is still there: unless overtaken, it takes effect on
\* what it saw.
StillFound(o) ==
  \/ /\ o.kind = "set"
     /\ View(o.from) # Nothing
     /\ \/ o.found[<<>>] = View(o.from)
        \/ /\ View(o.from) \in FileNode
           /\ \E x \in BOOLEAN : o.found[<<>>] = [View(o.from) EXCEPT !.exec = x]
  \/ /\ o.kind = "move"
     /\ View(o.to) = Directory => NoNames(o.to)
     /\ AllUnder(o.from, o.found)

OpOK(o) == o = Idle \/ (o \in OpState /\ Underway(o) /\ (~o.overtaken => StillFound(o)))

IInv ==
  /\ Typed
  /\ op \in [Caller -> OpState \union {Idle}]
  /\ \A t \in Caller : OpOK(op[t])
  /\ ops \in 0..MaxOps /\ torn \in BOOLEAN
  /\ ~torn => T!IsTree(tree)

LEMMA OpFields ==
  ASSUME NEW o \in OpState
  PROVE  /\ o # Idle
         /\ o.kind \in {"move", "set"} /\ o.from \in TreePath /\ o.to \in TreePath
         /\ o.found \in [DOMAIN o.found -> Node] /\ DOMAIN o.found \subseteq Suffix
         /\ o.unread \subseteq Suffix /\ o.overtaken \in BOOLEAN
<1>1. /\ o.kind \in {"move", "set"} /\ o.from \in TreePath /\ o.to \in TreePath
      /\ o.unread \subseteq Suffix /\ o.overtaken \in BOOLEAN
      /\ o.found \in UNION {[D -> Node] : D \in SUBSET Suffix}
  BY DEF OpState
<1>2. PICK D \in SUBSET Suffix : o.found \in [D -> Node]
  BY <1>1
<1>3. o # Idle
  <2>1. Idle.kind = "none"
    BY DEF Idle
  <2> QED BY <1>1, <2>1
<1> QED BY <1>1, <1>2, <1>3

LEMMA FreshStays ==
  ASSUME MaxDepth \in Nat, NEW o \in OpState, Underway(o), StillFound(o),
         \A p \in Watched(o) : View(p)' = View(p)
  PROVE  StillFound(o)'
<1>1. o.from \in TreePath /\ o.to \in TreePath
  BY OpFields
<1>2. \A p \in TreePath : Within(p, o.from) \/ Within(p, o.to) => View(p)' = View(p)
  BY DEF Watched
<1>3. View(o.from)' = View(o.from) /\ View(o.to)' = View(o.to)
  BY <1>1, <1>2, WithinItself
<1>4. NoNames(o.to) => NoNames(o.to)'
  BY <1>2 DEF NoNames
<1>5. AllUnder(o.from, o.found) => AllUnder(o.from, o.found)'
  <2> SUFFICES ASSUME AllUnder(o.from, o.found) PROVE AllUnder(o.from, o.found)'
    OBVIOUS
  <2>1. ASSUME NEW s \in DOMAIN o.found
        PROVE  View(o.from \o s)' = o.found[s] /\ View(o.from \o s)' # Nothing
    <3>1. PICK p \in TreePath : p = o.from \o s /\ Within(p, o.from)
      BY <1>1, OpFields, ExtendedWithin DEF Underway
    <3>2. View(p)' = View(p) /\ View(p) = o.found[s] /\ View(p) # Nothing
      BY <1>2, <3>1 DEF AllUnder
    <3> QED BY <3>1, <3>2
  <2>2. \A p \in TreePath :
          Within(p, o.from) /\ View(p)' # Nothing => \E s \in DOMAIN o.found : p = o.from \o s
    BY <1>2 DEF AllUnder
  <2> QED BY <2>1, <2>2 DEF AllUnder
<1> QED BY <1>3, <1>4, <1>5 DEF StillFound

LEMMA SameWritable ==
  ASSUME baseTree' = baseTree, NEW o
  PROVE  Underway(o)' <=> Underway(o)
BY DEF Underway, Writable

\* The same operation, seen to have been overtaken or not.
LEMMA SameOp ==
  ASSUME NEW o \in OpState, NEW b \in BOOLEAN, NEW n, n = [o EXCEPT !.overtaken = b]
  PROVE  /\ n \in OpState /\ n.overtaken = b
         /\ Underway(o) => Underway(n)
         /\ StillFound(o)' => StillFound(n)'
<1>1. /\ n \in OpState /\ n.overtaken = b /\ n.kind = o.kind /\ n.from = o.from /\ n.to = o.to
      /\ n.found = o.found /\ n.unread = o.unread
  BY DEF OpState
<1>2. Underway(o) => Underway(n)
  BY <1>1 DEF Underway
<1>3. StillFound(o)' => StillFound(n)'
  BY <1>1 DEF StillFound
<1> QED BY <1>1, <1>2, <1>3

LEMMA OpNext ==
  ASSUME NEW t, NEW n, n = op'[t], baseTree' = baseTree,
         n = Idle \/ (n \in OpState /\ Underway(n) /\ (~n.overtaken => StillFound(n)'))
  PROVE  OpOK(op[t])'
<1>1. n # Idle => Underway(n)'
  BY SameWritable
<1>2. OpOK(n)'
  BY <1>1 DEF OpOK
<1> QED BY <1>2 DEF OpOK, StillFound, Underway, AllUnder, NoNames, Writable

LEMMA Finished ==
  ASSUME MaxDepth \in Nat, IInv, baseTree' = baseTree, NEW t \in Caller, Finish(t)
  PROVE  op' \in [Caller -> OpState \union {Idle}] /\ \A u \in Caller : OpOK(op[u])'
<1>1. \A u \in Caller :
        op'[u] = IF u = t \/ op[u] = Idle THEN Idle
                 ELSE [op[u] EXCEPT !.overtaken =
                         @ \/ \E p \in Watched(op[u]) : Over(baseTree[p], changes'[p]) # View(p)]
  BY DEF Finish
<1>2. op' = [u \in Caller |-> op'[u]]
  BY DEF Finish
<1>3. ASSUME NEW u \in Caller
      PROVE  op'[u] \in OpState \union {Idle} /\ OpOK(op[u])'
  <2>1. PICK o : o = op[u]
    OBVIOUS
  <2>2. PICK n : n = op'[u]
    OBVIOUS
  <2>3. CASE u = t \/ o = Idle
    <3>1. n = Idle
      BY <1>1, <2>1, <2>2, <2>3
    <3> QED BY <2>2, <3>1, OpNext
  <2>4. CASE ~(u = t \/ o = Idle)
    <3>1. o \in OpState /\ Underway(o) /\ (~o.overtaken => StillFound(o))
      BY <2>1, <2>4 DEF IInv, OpOK
    <3>2. PICK b \in BOOLEAN :
            b <=> o.overtaken \/ \E p \in Watched(o) : Over(baseTree[p], changes'[p]) # View(p)
      OBVIOUS
    <3>3. n = [o EXCEPT !.overtaken = b]
      BY <1>1, <2>1, <2>2, <2>4, <3>2
    <3>4. n \in OpState /\ n.overtaken = b /\ Underway(n) /\ (StillFound(o)' => StillFound(n)')
      BY <3>1, <3>3, SameOp
    <3>5. ~b => StillFound(o)'
      <4> SUFFICES ASSUME ~b PROVE StillFound(o)'
        OBVIOUS
      <4>1. \A p \in Watched(o) : View(p)' = View(p)
        BY <3>2 DEF View
      <4>2. StillFound(o)
        BY <3>1, <3>2
      <4> QED BY <3>1, <4>1, <4>2, FreshStays
    <3> QED BY <2>2, <3>4, <3>5, OpNext
  <2> QED BY <2>3, <2>4
<1> QED BY <1>2, <1>3

LEMMA SameViews ==
  ASSUME UNCHANGED <<baseTree, changes>>
  PROVE  /\ \A p \in TreePath : View(p)' = View(p)
         /\ tree' = tree /\ (T!IsTree(tree)' <=> T!IsTree(tree)) /\ (Typed' <=> Typed)
         /\ \A o : StillFound(o)' <=> StillFound(o)
<1>1. \A p \in TreePath : View(p)' = View(p)
  BY DEF View
<1>2. tree' = tree
  BY <1>1 DEF tree
<1>3. T!IsTree(tree)' <=> T!IsTree(tree)
  BY <1>2, SameTerms DEF T!IsTree
<1>4. \A o : StillFound(o)' <=> StillFound(o)
  BY DEF StillFound, NoNames, AllUnder, View
<1> QED BY <1>1, <1>2, <1>3, <1>4 DEF Typed

LEMMA HoldsOn ==
  ASSUME MaxDepth \in Nat, IInv, UNCHANGED <<baseTree, changes, torn>>, NEW t \in Caller, NEW o,
         ops' \in 0..MaxOps, Hold(t, o), OpOK(o)
  PROVE  IInv' /\ tree' = tree
<1>1. o \in OpState \union {Idle}
  BY DEF OpOK
<1>2. op' \in [Caller -> OpState \union {Idle}] /\ \A u \in Caller : op'[u] = IF u = t THEN o ELSE op[u]
  BY <1>1 DEF Hold, IInv
<1>3. ASSUME NEW u \in Caller PROVE OpOK(op[u])'
  <2>1. PICK n : n = op'[u]
    OBVIOUS
  <2>2. OpOK(n)
    BY <1>2, <2>1 DEF IInv
  <2>3. n = Idle \/ (n \in OpState /\ Underway(n) /\ (~n.overtaken => StillFound(n)'))
    BY <2>2, SameViews DEF OpOK
  <2> QED BY <2>1, <2>3, OpNext
<1> QED BY <1>2, <1>3, SameViews DEF IInv

-----------------------------------------------------------------------------
(* Steps.                                                                  *)

\* What a step may do to what the view shows.
ViewStep == UNCHANGED tree \/ T!Next \/ OvertakenStep \/ ~T!IsTree(tree)

LEMMA AsNext ==
  ASSUME MaxDepth \in Nat, baseTree' = baseTree, NEW p \in TreePath, Writable(p),
         \/ \E c \in Bytes : T!Write(p, c)
         \/ \E node \in {Directory, Link} : T!Make(p, node)
         \/ T!Remove(p)
         \/ \E x \in BOOLEAN : T!SetExecutable(p, x)
         \/ \E q \in TreePath : Writable(q) /\ T!Move(p, q)
  PROVE  T!Next
<1>1. ASSUME NEW q \in TreePath, Writable(q)
      PROVE  q \in T!TreePath \ Opened(baseTree).sealed
  <2>1. \A r \in TreePath : Within(q, r) => r \in Ancestors(q) \union {q}
    BY AncestorIs
  <2>2. Opened(baseTree).sealed =
          {r \in TreePath : \E u \in TreePath : Within(r, u) /\ baseTree[u] = Submodule}
    BY DEF Opened
  <2> QED BY <1>1, <2>1, <2>2, SameTerms DEF Writable
<1>2. UNCHANGED Opened(baseTree).sealed
  BY DEF Opened
<1> QED BY <1>1, <1>2, SameTerms DEF T!Next

LEMMA WriteStep ==
  ASSUME MaxDepth \in Nat, MaxOps \in Nat, IInv, NEW t \in Caller, NEW p \in TreePath,
         NEW c \in Bytes, WriteFile(t, p, c)
  PROVE  IInv' /\ ViewStep
<1>1. /\ Writable(p) /\ View(p) # Directory /\ ParentsFit(p) /\ ops' \in 0..MaxOps
      /\ Finish(t) /\ baseTree' = baseTree /\ torn' = torn
  BY DEF WriteFile, Begin, IInv
<1>2. PICK x \in BOOLEAN : x <=> View(p) \in FileNode /\ View(p).exec
  OBVIOUS
<1>3. PICK node : node = FileEntry(c, x)
  OBVIOUS
<1>4. node \in FileNode /\ node \in Node
  BY <1>3, Kinds DEF FileNode
<1>5. Insert(p, node)
  <2>1. (View(p) \in FileNode /\ View(p).exec) = x
    BY <1>2
  <2> QED BY <1>3, <2>1 DEF WriteFile
<1>6. Typed'
  BY <1>1, <1>4, <1>5, InsertTyped DEF IInv
<1>7. T!IsTree(tree) => /\ T!IsTree(tree)' /\ T!HasRoom(p)
                        /\ tree' = T!With([q \in {p} |-> node], p)
  BY <1>1, <1>4, <1>5, Inserted DEF IInv
<1>8. IInv'
  BY <1>1, <1>6, <1>7, Finished DEF IInv
<1>9. ASSUME T!IsTree(tree) PROVE T!Write(p, c)
  <2>1. tree[p] = View(p)
    BY Views DEF IInv
  <2>2. T!FileEntry(c, tree[p] \in T!FileNode /\ tree[p].exec) = node
    BY <1>2, <1>3, <2>1, SameTerms
  <2>3. tree[p] # T!Dir /\ T!HasRoom(p)
    BY <1>1, <1>7, <1>9, <2>1, SameTerms
  <2> QED BY <1>7, <1>9, <2>2, <2>3 DEF T!Write
<1> QED BY <1>1, <1>8, <1>9, AsNext DEF ViewStep

LEMMA MakeStep ==
  ASSUME MaxDepth \in Nat, MaxOps \in Nat, IInv, NEW t \in Caller, NEW p \in TreePath,
         NEW node \in {Directory, Link}, Make(t, p, node)
  PROVE  IInv' /\ ViewStep
<1>1. /\ Writable(p) /\ View(p) = Nothing /\ ParentsFit(p) /\ Insert(p, node)
      /\ ops' \in 0..MaxOps /\ Finish(t) /\ baseTree' = baseTree /\ torn' = torn
  BY DEF Make, Begin, IInv
<1>2. node \in Node /\ View(p) # Directory
  BY <1>1, Kinds
<1>3. Typed'
  BY <1>1, <1>2, InsertTyped DEF IInv
<1>4. T!IsTree(tree) => /\ T!IsTree(tree)' /\ T!HasRoom(p)
                        /\ tree' = T!With([q \in {p} |-> node], p)
  BY <1>1, <1>2, Inserted DEF IInv
<1>5. IInv'
  BY <1>1, <1>3, <1>4, Finished DEF IInv
<1>6. ASSUME T!IsTree(tree) PROVE T!Make(p, node)
  BY <1>1, <1>4, <1>6, Views, SameTerms DEF T!Make, IInv
<1> QED BY <1>1, <1>5, <1>6, AsNext DEF ViewStep

LEMMA RemoveStep ==
  ASSUME MaxDepth \in Nat, MaxOps \in Nat, IInv, NEW t \in Caller, NEW p \in TreePath, Remove(t, p)
  PROVE  IInv' /\ ViewStep
<1>1. /\ Writable(p) /\ View(p) # Nothing /\ NoNames(p) /\ changes' = [changes EXCEPT ![p] = Gone]
      /\ ops' \in 0..MaxOps /\ Finish(t) /\ baseTree' = baseTree /\ torn' = torn
  BY DEF Remove, Begin, IInv
<1>2. Typed'
  BY <1>1, Assigned DEF IInv
<1>3. T!IsTree(tree) => /\ T!IsTree(tree)' /\ T!IsEmpty(p)
                        /\ tree' = [tree EXCEPT ![p] = T!Nothing]
  BY <1>1, Cleared DEF IInv
<1>4. IInv'
  BY <1>1, <1>2, <1>3, Finished DEF IInv
<1>5. ASSUME T!IsTree(tree) PROVE T!Remove(p)
  BY <1>1, <1>3, <1>5, Views, SameTerms DEF T!Remove, IInv
<1> QED BY <1>1, <1>4, <1>5, AsNext DEF ViewStep

\* What chmod and touch found at one path.
LEMMA OneFound ==
  ASSUME MaxDepth \in Nat, NEW p \in TreePath, Writable(p), View(p) # Nothing, NEW v \in Node,
         NEW unread \in SUBSET {<<>>}, unread # {} => v \in FileNode,
         \/ v = View(p)
         \/ View(p) \in FileNode /\ \E x \in BOOLEAN : v = [View(p) EXCEPT !.exec = x],
         NEW o, o = [kind |-> "set", from |-> p, to |-> p, found |-> [s \in {<<>>} |-> v],
                     unread |-> unread, overtaken |-> FALSE]
  PROVE  OpOK(o)
<1>1. PICK found : found = [s \in {<<>>} |-> v]
  OBVIOUS
<1>2. {<<>>} \in SUBSET Suffix /\ found \in [{<<>>} -> Node] /\ unread \in SUBSET Suffix
  BY <1>1, NoSuffix
<1>3. found \in UNION {[D -> Node] : D \in SUBSET Suffix}
  BY <1>2
<1>4. o \in OpState
  BY <1>1, <1>2, <1>3 DEF OpState
<1>5. /\ o.kind = "set" /\ o.from = p /\ o.to = p /\ o.found = found /\ o.unread = unread
      /\ DOMAIN found = {<<>>} /\ found[<<>>] = v
  BY <1>1
<1>6. Underway(o)
  BY <1>5, NoSuffix DEF Underway
<1>7. StillFound(o)
  BY <1>5 DEF StillFound
<1> QED BY <1>4, <1>6, <1>7 DEF OpOK

LEMMA ExecSet ==
  ASSUME NEW v \in FileNode, NEW x \in BOOLEAN
  PROVE  [v EXCEPT !.exec = x] \in FileNode
<1>1. v.data \in Bytes /\ v = [kind |-> "file", data |-> v.data, exec |-> v.exec]
  BY Files
<1>2. PICK n : n = [kind |-> "file", data |-> v.data, exec |-> x]
  OBVIOUS
<1>3. [v EXCEPT !.exec = x] = n
  BY <1>1, <1>2
<1> QED BY <1>1, <1>2, <1>3, Files

LEMMA ChmodStep ==
  ASSUME MaxDepth \in Nat, MaxOps \in Nat, IInv, NEW t \in Caller, NEW p \in TreePath,
         NEW x \in BOOLEAN, Chmod(t, p, x)
  PROVE  IInv' /\ ViewStep
<1>1. /\ Writable(p) /\ View(p) \in FileNode /\ ops' \in 0..MaxOps
      /\ UNCHANGED <<baseTree, changes, torn>>
  BY DEF Chmod, Begin, IInv
<1>2. PICK v : v = [View(p) EXCEPT !.exec = x]
  OBVIOUS
<1>3. v \in FileNode /\ v \in Node /\ View(p) # Nothing
  BY <1>1, <1>2, ExecSet, Kinds
<1>4. PICK o : o = [kind |-> "set", from |-> p, to |-> p, found |-> [s \in {<<>>} |-> v],
                    unread |-> {}, overtaken |-> FALSE]
  OBVIOUS
<1>5. Hold(t, o)
  BY <1>2, <1>4 DEF Chmod
<1>6. OpOK(o)
  BY <1>1, <1>2, <1>3, <1>4, OneFound
<1> QED BY <1>1, <1>5, <1>6, HoldsOn DEF ViewStep

LEMMA TouchStep ==
  ASSUME MaxDepth \in Nat, MaxOps \in Nat, IInv, NEW t \in Caller, NEW p \in TreePath, Touch(t, p)
  PROVE  IInv' /\ ViewStep
<1>1. /\ Writable(p) /\ View(p) \in FileNode \union {Directory} /\ ops' \in 0..MaxOps
      /\ UNCHANGED <<baseTree, changes, torn>>
  BY DEF Touch, Begin, IInv
<1>2. PICK v, unread : v = View(p) /\ unread = IF View(p) = Directory THEN {} ELSE {<<>>}
  OBVIOUS
<1>3. v \in Node /\ View(p) # Nothing /\ unread \in SUBSET {<<>>} /\ (unread # {} => v \in FileNode)
  BY <1>1, <1>2, Kinds
<1>4. PICK o : o = [kind |-> "set", from |-> p, to |-> p, found |-> [s \in {<<>>} |-> v],
                    unread |-> unread, overtaken |-> FALSE]
  OBVIOUS
<1>5. Hold(t, o)
  BY <1>2, <1>4 DEF Touch
<1>6. OpOK(o)
  BY <1>1, <1>2, <1>3, <1>4, OneFound
<1> QED BY <1>1, <1>5, <1>6, HoldsOn DEF ViewStep

LEMMA RenameStep ==
  ASSUME MaxDepth \in Nat, MaxOps \in Nat, IInv, NEW t \in Caller, NEW from \in TreePath,
         NEW to \in TreePath, BeginRename(t, from, to)
  PROVE  IInv' /\ ViewStep
<1>1. PICK F : F = {s \in Suffix : from \o s \in TreePath /\ View(from \o s) # Nothing}
  OBVIOUS
<1>2. PICK found : found = [s \in F |-> View(from \o s)]
  OBVIOUS
<1>3. PICK unread : unread = {s \in F : View(from \o s) \in FileNode}
  OBVIOUS
<1>4. PICK o : o = [kind |-> "move", from |-> from, to |-> to, found |-> found,
                    unread |-> unread, overtaken |-> FALSE]
  OBVIOUS
<1>5. /\ Writable(from) /\ Writable(to) /\ View(from) # Nothing /\ ~Within(to, from)
      /\ View(to) = Directory => NoNames(to)
      /\ \A s \in F : to \o s \in TreePath
      /\ Hold(t, o) /\ ops' \in 0..MaxOps /\ UNCHANGED <<baseTree, changes, torn>>
  BY <1>1, <1>2, <1>3, <1>4 DEF BeginRename, Begin, IInv
<1>6. /\ F \in SUBSET Suffix /\ <<>> \in F /\ unread \in SUBSET Suffix /\ unread \subseteq F
      /\ \A s \in F : from \o s \in TreePath /\ View(from \o s) # Nothing
  BY <1>1, <1>3, <1>5, NoSuffix
<1>7. \A s \in F : View(from \o s) \in Node
  BY <1>6, Views DEF IInv
<1>8. found \in [F -> Node] /\ DOMAIN found = F
  BY <1>2, <1>7
<1>9. found \in UNION {[D -> Node] : D \in SUBSET Suffix}
  BY <1>6, <1>8
<1>10. o \in OpState
  BY <1>4, <1>6, <1>9 DEF OpState
<1>11. /\ o.kind = "move" /\ o.from = from /\ o.to = to /\ o.found = found /\ o.unread = unread
  BY <1>4
<1>12. Underway(o)
  BY <1>2, <1>3, <1>5, <1>6, <1>8, <1>11 DEF Underway
<1>13. AllUnder(from, found)
  <2>1. ASSUME NEW p \in TreePath, Within(p, from), View(p) # Nothing
        PROVE  \E s \in F : p = from \o s
    <3>1. PICK s \in Suffix : from \o s = p
      BY <2>1, After
    <3> QED BY <1>1, <2>1, <3>1
  <2> QED BY <1>2, <1>6, <1>8, <2>1 DEF AllUnder
<1>14. StillFound(o)
  BY <1>5, <1>11, <1>13 DEF StillFound
<1>15. OpOK(o)
  BY <1>10, <1>12, <1>14 DEF OpOK
<1> QED BY <1>5, <1>15, HoldsOn DEF ViewStep

\* What is read of a file that is still what was found is what was found.
LEMMA ReadSame ==
  ASSUME NEW f \in FileNode, NEW v \in FileNode
  PROVE  /\ [f EXCEPT !.data = v.data] \in FileNode
         /\ f.data = v.data => [f EXCEPT !.data = v.data] = f
<1>1. /\ f.data \in Bytes /\ f.exec \in BOOLEAN /\ v.data \in Bytes
      /\ f = [kind |-> "file", data |-> f.data, exec |-> f.exec]
  BY Files
<1>2. PICK n : n = [kind |-> "file", data |-> v.data, exec |-> f.exec]
  OBVIOUS
<1>3. [f EXCEPT !.data = v.data] = n
  BY <1>1, <1>2
<1> QED BY <1>1, <1>2, <1>3, Files

LEMMA ReadStep ==
  ASSUME MaxDepth \in Nat, MaxOps \in Nat, IInv, NEW t \in Caller, op[t] # Idle,
         NEW s \in op[t].unread, Read(t, s)
  PROVE  IInv' /\ ViewStep
<1>1. PICK o : o = op[t]
  OBVIOUS
<1>2. o \in OpState /\ Underway(o) /\ (~o.overtaken => StillFound(o))
  BY <1>1 DEF IInv, OpOK
<1>3. /\ ops' \in 0..MaxOps /\ UNCHANGED <<baseTree, changes, torn>>
      /\ s \in DOMAIN o.found /\ o.found[s] \in FileNode
  BY <1>1, <1>2 DEF Read, IInv, Underway
<1>4. PICK v : v = View(o.from \o s)
  OBVIOUS
<1>5. CASE v \notin FileNode
  <2>1. Hold(t, Idle) /\ OpOK(Idle)
    BY <1>1, <1>4, <1>5 DEF Read, OpOK
  <2> QED BY <1>3, <2>1, HoldsOn DEF ViewStep
<1>6. CASE v \in FileNode
  <2>1. PICK f : f = [o.found[s] EXCEPT !.data = v.data]
    OBVIOUS
  <2>2. PICK found : found = [o.found EXCEPT ![s] = f]
    OBVIOUS
  <2>3. PICK n : n = [[o EXCEPT !.found = found] EXCEPT !.unread = o.unread \ {s}]
    OBVIOUS
  <2>4. Hold(t, n)
    <3>1. Hold(t, [o EXCEPT !.found[s].data = v.data, !.unread = @ \ {s}])
      BY <1>1, <1>4, <1>6 DEF Read
    <3>2. [o EXCEPT !.found[s].data = v.data, !.unread = @ \ {s}] = n
      BY <1>2, <2>1, <2>2, <2>3 DEF OpState
    <3> QED BY <3>1, <3>2
  <2>5. f \in FileNode /\ (o.found[s].data = v.data => f = o.found[s])
    BY <1>3, <1>6, <2>1, ReadSame
  <2>6. /\ o.kind \in {"move", "set"} /\ o.from \in TreePath /\ o.to \in TreePath
        /\ o.found \in [DOMAIN o.found -> Node] /\ DOMAIN o.found \in SUBSET Suffix
        /\ o.unread \in SUBSET Suffix /\ o.overtaken \in BOOLEAN
    BY <1>2, OpFields
  <2>7. /\ found \in [DOMAIN o.found -> Node] /\ DOMAIN found = DOMAIN o.found
        /\ \A r \in DOMAIN found : r # s => found[r] = o.found[r]
        /\ found[s] = f
    BY <1>3, <2>2, <2>5, <2>6, Kinds
  <2>8. found \in UNION {[D -> Node] : D \in SUBSET Suffix}
    BY <2>6, <2>7
  <2>9. /\ n \in OpState /\ n.kind = o.kind /\ n.from = o.from /\ n.to = o.to /\ n.found = found
        /\ n.unread = o.unread \ {s} /\ n.overtaken = o.overtaken
    BY <1>2, <2>3, <2>8 DEF OpState
  <2>10. Underway(n)
    BY <1>2, <2>5, <2>7, <2>9 DEF Underway
  <2>11. ASSUME StillFound(o) PROVE StillFound(n)
    <3>1. CASE o.kind = "move"
      <4>1. AllUnder(o.from, o.found) /\ (View(o.to) = Directory => NoNames(o.to))
        BY <2>11, <3>1 DEF StillFound
      <4>2. f = o.found[s]
        BY <1>3, <1>4, <2>5, <4>1 DEF AllUnder
      <4>3. found = o.found
        BY <2>2, <2>6, <4>2
      <4> QED BY <2>9, <3>1, <4>1, <4>3 DEF StillFound
    <3>2. CASE o.kind = "set"
      <4>1. /\ View(o.from) # Nothing
            /\ \/ o.found[<<>>] = View(o.from)
               \/ /\ View(o.from) \in FileNode
                  /\ \E x \in BOOLEAN : o.found[<<>>] = [View(o.from) EXCEPT !.exec = x]
        BY <2>11, <3>2 DEF StillFound
      <4>2. found[<<>>] = o.found[<<>>]
        <5>1. CASE s # <<>>
          BY <1>2, <2>7, <5>1 DEF Underway
        <5>2. CASE s = <<>>
          <6>1. v = View(o.from)
            BY <1>4, <2>6, <5>2, NoSuffix
          <6>2. o.found[s].data = v.data
            BY <1>6, <4>1, <5>2, <6>1, Files
          <6> QED BY <2>5, <2>7, <5>2, <6>2
        <5> QED BY <5>1, <5>2
      <4> QED BY <2>9, <3>2, <4>1, <4>2 DEF StillFound
    <3> QED BY <2>6, <3>1, <3>2
  <2>12. OpOK(n)
    BY <1>2, <2>9, <2>10, <2>11 DEF OpOK
  <2> QED BY <1>3, <2>4, <2>12, HoldsOn DEF ViewStep
<1> QED BY <1>5, <1>6

\* op[t] # Idle is what o.kind says in Set, Move and MoveFails.
LEMMA Acting ==
  ASSUME MaxDepth \in Nat, IInv, NEW t \in Caller, NEW o, o = op[t], o.kind \in {"set", "move"}
  PROVE  /\ o # Idle /\ o \in OpState /\ Underway(o) /\ (~o.overtaken => StillFound(o))
         /\ o.from \in TreePath /\ o.to \in TreePath /\ o.overtaken \in BOOLEAN
         /\ Writable(o.from) /\ Writable(o.to)
<1>1. Idle.kind = "none"
  BY DEF Idle
<1>2. o # Idle
  BY <1>1
<1>3. o \in OpState /\ Underway(o) /\ (~o.overtaken => StillFound(o))
  BY <1>2 DEF IInv, OpOK
<1> QED BY <1>2, <1>3, OpFields DEF Underway

LEMMA SetStep ==
  ASSUME MaxDepth \in Nat, MaxOps \in Nat, IInv, NEW t \in Caller, Set(t)
  PROVE  IInv' /\ ViewStep
<1>1. PICK o : o = op[t]
  OBVIOUS
<1>2. /\ o.kind = "set" /\ Finish(t) /\ baseTree' = baseTree /\ ops' \in 0..MaxOps
      /\ changes' = [changes EXCEPT ![o.from] = o.found[<<>>]]
      /\ torn' = (torn \/ o.overtaken)
  BY <1>1 DEF Set, IInv
<1>3. /\ o # Idle /\ o \in OpState /\ Underway(o) /\ (~o.overtaken => StillFound(o))
      /\ o.from \in TreePath /\ Writable(o.from) /\ o.overtaken \in BOOLEAN
  BY <1>1, <1>2, Acting
<1>4. PICK node : node = o.found[<<>>]
  OBVIOUS
<1>5. node \in Node /\ node # Gone
  BY <1>3, <1>4, OpFields, Kinds DEF Underway
<1>6. Typed' /\ tree' = [tree EXCEPT ![o.from] = node]
  <2>1. changes' = [changes EXCEPT ![o.from] = node] /\ node \in Node \union {Gone} /\ Typed
    BY <1>2, <1>4, <1>5 DEF IInv
  <2>2. Typed' /\ tree' = [tree EXCEPT ![o.from] = IF node = Gone THEN Nothing ELSE node]
    BY <1>2, <1>3, <2>1, Assigned
  <2> QED BY <1>5, <2>2
<1>7. ASSUME ~o.overtaken
      PROVE  /\ View(o.from) # Nothing
             /\ \/ node = View(o.from)
                \/ /\ View(o.from) \in FileNode /\ node \in FileNode
                   /\ \E x \in BOOLEAN : node = [View(o.from) EXCEPT !.exec = x]
  BY <1>2, <1>3, <1>4, <1>7, ExecSet DEF StillFound
<1>8. ASSUME ~o.overtaken, T!IsTree(tree) PROVE T!IsTree(tree)'
  <2>1. node = Directory <=> View(o.from) = Directory
    BY <1>7, <1>8, Kinds
  <2> QED BY <1>2, <1>3, <1>4, <1>5, <1>7, <1>8, <2>1, KindKept DEF IInv
<1>9. torn' \in BOOLEAN /\ (~torn' => T!IsTree(tree)')
  BY <1>2, <1>3, <1>8 DEF IInv
<1>10. IInv'
  BY <1>2, <1>6, <1>9, Finished DEF IInv
<1>11. CASE o.overtaken
  BY <1>1, <1>3, <1>10, <1>11 DEF ViewStep, OvertakenStep
<1>12. CASE ~o.overtaken
  <2>1. tree[o.from] = View(o.from) /\ tree \in [TreePath -> Node \union {Nothing}]
    BY <1>3, Views DEF IInv, tree
  <2>2. CASE node = View(o.from)
    <3>1. tree' = tree
      BY <1>3, <1>6, <2>1, <2>2
    <3> QED BY <1>10, <3>1 DEF ViewStep
  <2>3. CASE node # View(o.from)
    <3>1. PICK x \in BOOLEAN : node = [View(o.from) EXCEPT !.exec = x]
      BY <1>7, <1>12, <2>3
    <3>2. tree[o.from] \in T!FileNode
      BY <1>7, <1>12, <2>1, <2>3, SameTerms
    <3>3. tree' = [tree EXCEPT ![o.from].exec = x]
      BY <1>3, <1>6, <2>1, <3>1
    <3>4. T!SetExecutable(o.from, x)
      BY <3>2, <3>3 DEF T!SetExecutable
    <3>5. T!Next
      BY <1>2, <1>3, <3>4, AsNext
    <3> QED BY <1>10, <3>5 DEF ViewStep
  <2> QED BY <2>2, <2>3
<1> QED BY <1>3, <1>11, <1>12

LEMMA MoveStep ==
  ASSUME MaxDepth \in Nat, MaxOps \in Nat, IInv, NEW t \in Caller, Move(t)
  PROVE  IInv' /\ ViewStep
<1>1. PICK o : o = op[t]
  OBVIOUS
<1>2. PICK from, to, found : from = o.from /\ to = o.to /\ found = o.found
  OBVIOUS
<1>3. /\ o.kind = "move" /\ Finish(t) /\ baseTree' = baseTree /\ ops' \in 0..MaxOps
      /\ ParentsFit(to) /\ torn' = (torn \/ o.overtaken)
  BY <1>1, <1>2 DEF Move, IInv
<1>4. IsMove(from, to, found)
  BY <1>1, <1>2 DEF Move, IsMove
<1>5. /\ o # Idle /\ o \in OpState /\ Underway(o) /\ (~o.overtaken => StillFound(o))
      /\ from \in TreePath /\ to \in TreePath /\ Writable(from) /\ Writable(to)
      /\ o.overtaken \in BOOLEAN
  BY <1>1, <1>2, <1>3, Acting
<1>6. Carried(from, to, found) /\ ~Within(to, from)
  BY <1>2, <1>3, <1>5, OpFields DEF Carried, Underway
<1>7. Typed'
  BY <1>3, <1>4, <1>5, <1>6, MovedTyped DEF IInv
<1>8. ASSUME ~o.overtaken, T!IsTree(tree) PROVE T!IsTree(tree)' /\ T!Move(from, to)
  <2>1. AllUnder(from, found) /\ (View(to) = Directory => NoNames(to))
    BY <1>2, <1>3, <1>5, <1>8 DEF StillFound
  <2> QED BY <1>3, <1>4, <1>5, <1>6, <1>8, <2>1, Moved DEF IInv
<1>9. torn' \in BOOLEAN /\ (~torn' => T!IsTree(tree)')
  BY <1>3, <1>5, <1>8 DEF IInv
<1>10. IInv'
  BY <1>3, <1>7, <1>9, Finished DEF IInv
<1>11. CASE o.overtaken
  BY <1>1, <1>5, <1>10, <1>11 DEF ViewStep, OvertakenStep
<1>12. CASE ~o.overtaken
  BY <1>3, <1>5, <1>8, <1>10, <1>12, AsNext DEF ViewStep
<1> QED BY <1>5, <1>11, <1>12

LEMMA MoveFailsStep ==
  ASSUME MaxDepth \in Nat, MaxOps \in Nat, IInv, NEW t \in Caller, MoveFails(t)
  PROVE  IInv' /\ ViewStep
<1>1. Hold(t, Idle) /\ OpOK(Idle) /\ ops' \in 0..MaxOps /\ UNCHANGED <<baseTree, changes, torn>>
  BY DEF MoveFails, OpOK, IInv
<1> QED BY <1>1, HoldsOn DEF ViewStep

LEMMA AnyStep ==
  ASSUME MaxDepth \in Nat, MaxOps \in Nat, IInv, [ViewNext]_overlayVars
  PROVE  IInv' /\ ViewStep
<1>1. CASE UNCHANGED overlayVars
  <2>1. UNCHANGED <<baseTree, changes>> /\ op' = op /\ ops' = ops /\ torn' = torn
    BY <1>1 DEF overlayVars
  <2>2. ASSUME NEW u \in Caller PROVE OpOK(op[u])'
    <3>1. PICK n : n = op'[u]
      OBVIOUS
    <3>2. n = Idle \/ (n \in OpState /\ Underway(n) /\ (~n.overtaken => StillFound(n)'))
      BY <2>1, <3>1, SameViews DEF IInv, OpOK
    <3> QED BY <2>1, <3>1, <3>2, OpNext
  <2> QED BY <2>1, <2>2, SameViews DEF IInv, ViewStep
<1>2. ASSUME NEW t \in Caller, CallerStep(t)
      PROVE  IInv' /\ ViewStep
  <2>1. CASE \E p \in TreePath :
               \/ \E c \in Bytes : WriteFile(t, p, c)
               \/ \E node \in {Directory, Link} : Make(t, p, node)
               \/ Remove(t, p)
               \/ \E x \in BOOLEAN : Chmod(t, p, x)
               \/ Touch(t, p)
               \/ \E q \in TreePath : BeginRename(t, p, q)
    BY <2>1, WriteStep, MakeStep, RemoveStep, ChmodStep, TouchStep, RenameStep
  <2>2. CASE op[t] # Idle /\ \E s \in op[t].unread : Read(t, s)
    BY <2>2, ReadStep
  <2>3. CASE Set(t) \/ Move(t) \/ MoveFails(t)
    BY <2>3, SetStep, MoveStep, MoveFailsStep
  <2> QED BY <1>2, <2>1, <2>2, <2>3 DEF CallerStep
<1> QED BY <1>1, <1>2 DEF ViewNext

LEMMA IInvInit ==
  ASSUME BasesAreTrees, ViewInit
  PROVE  IInv /\ T!Init
<1>1. /\ MaxDepth \in Nat /\ MaxOps \in Nat /\ baseTree \in [TreePath -> BaseEntry]
      /\ T!IsTree(Opened(baseTree).tree) /\ changes = [p \in TreePath |-> Unchanged]
      /\ op = [t \in Caller |-> Idle] /\ ops = 0 /\ torn = FALSE
  BY DEF ViewInit, BasesAreTrees
<1>2. Typed
  BY <1>1 DEF Typed, Change
<1>3. tree = Opened(baseTree).tree
  <2>1. \A p \in TreePath : View(p) = AsShown(baseTree[p])
    <3> SUFFICES ASSUME NEW p \in TreePath PROVE View(p) = AsShown(baseTree[p])
      OBVIOUS
    <3>1. baseTree[p] \in BaseEntry /\ changes[p] = Unchanged /\ changes[p] \in Change
      BY <1>1, <1>2 DEF Typed
    <3> QED BY <3>1, Laid DEF View
  <2> QED BY <2>1 DEF tree, Opened
<1>4. IInv
  <2>1. op \in [Caller -> OpState \union {Idle}] /\ \A t \in Caller : OpOK(op[t])
    BY <1>1 DEF OpOK
  <2>2. ops \in 0..MaxOps
    BY <1>1
  <2>3. torn \in BOOLEAN
    BY DEF ViewInit
  <2>4. T!IsTree(tree)
    BY <1>1, <1>3
  <2> QED BY <1>2, <2>1, <2>2, <2>3, <2>4 DEF IInv
<1>5. T!Init
  <2>1. baseTree \in Bases
    BY DEF ViewInit
  <2>2. [tree |-> tree, sealed |-> Opened(baseTree).sealed] = Opened(baseTree)
    BY <1>3 DEF Opened
  <2> QED BY <2>1, <2>2 DEF T!Init
<1> QED BY <1>4, <1>5

LEMMA IInvHolds == ASSUME BasesAreTrees PROVE ViewSpec => []IInv
<1>1. ViewInit => IInv
  BY IInvInit
<1>2. IInv /\ [ViewNext]_overlayVars => IInv'
  BY AnyStep DEF BasesAreTrees
<1> QED BY <1>1, <1>2, PTL DEF ViewSpec

-----------------------------------------------------------------------------
(* The commit.                                                             *)

LEMMA CommitOf ==
  ASSUME MaxDepth \in Nat, Typed, T!IsTree(tree), NEW p \in TreePath
  PROVE  \/ Committed(p) = Shown(p)
         \/ InIndex(baseTree[p]) /\ View(p) = Directory
         \/ baseTree[p] = Submodule /\ changes[p] = Gone
<1>1. ASSUME NEW q \in TreePath, Added(q)
      PROVE  /\ View(q) = changes[q] /\ View(q) # Directory /\ View(q) # Nothing
             /\ View(q) \in FileNode \union {Link}
  <2>1. baseTree[q] \in BaseEntry /\ changes[q] \in Change /\ changes[q] \in FileNode \union {Link}
    BY <1>1 DEF Typed, Added
  <2>2. changes[q] \in Node
    BY <2>1, Kinds
  <2>3. View(q) = changes[q]
    BY <2>1, <2>2, Laid DEF View
  <2> QED BY <2>1, <2>3, Kinds
<1>2. /\ baseTree[p] \in FileNode \union {Directory, Link, Submodule, Nothing}
      /\ changes[p] \in FileNode \union {Directory, Link, Gone, Unchanged}
      /\ baseTree[p] \in BaseEntry /\ changes[p] \in Change
  BY DEF Typed, BaseEntry, Change, Node
<1>3. /\ changes[p] = Unchanged => View(p) = AsShown(baseTree[p])
      /\ changes[p] = Gone => View(p) = Nothing
      /\ changes[p] \in FileNode \union {Directory, Link} => View(p) = changes[p]
  BY <1>2, Laid DEF View, Node
<1>4. ASSUME NEW q \in TreePath, Added(q), Clash(p, q), View(p) # Nothing
      PROVE  View(p) = Directory
  <2>1. CASE Within(q, p)
    BY <1>1, <1>4, <2>1, AncestorIs, ViewIsTree DEF Clash
  <2>2. CASE Within(p, q)
    BY <1>1, <1>4, <2>2, AncestorIs, ViewIsTree DEF Clash
  <2> QED BY <1>4, <2>1, <2>2 DEF Clash
<1>5. CASE Added(p)
  <2>1. ~\E q \in TreePath \ {p} : Added(q) /\ Within(q, p)
    BY <1>1, <1>4, <1>5 DEF Clash
  <2>2. Committed(p) = View(p)
    BY <1>1, <1>5, <2>1 DEF Committed
  <2>3. changes[p] # Unchanged
    BY <1>5, Kinds DEF Added
  <2>4. Shown(p) = View(p)
    BY <1>1, <1>5, <2>3 DEF Shown
  <2> QED BY <2>2, <2>4
<1>6. CASE ~Added(p) /\ InIndex(baseTree[p]) /\ ~Removed(p) /\ \A q \in TreePath : Added(q) => ~Clash(p, q)
  <2>1. Committed(p) = baseTree[p]
    BY <1>6 DEF Committed
  <2>2. baseTree[p] \in FileNode \union {Link, Submodule} /\ baseTree[p] # Nothing
    BY <1>6, Kinds DEF InIndex
  <2>3. CASE changes[p] = Unchanged
    <3>1. CASE baseTree[p] = Submodule
      BY <2>1, <2>3, <3>1 DEF Shown
    <3>2. CASE baseTree[p] # Submodule
      BY <1>3, <2>1, <2>2, <2>3, <3>2 DEF Shown, AsShown
    <3> QED BY <3>1, <3>2
  <2>4. CASE changes[p] = Gone
    BY <1>6, <2>2, <2>4 DEF Removed
  <2>5. CASE changes[p] = Directory
    BY <1>3, <1>6, <2>5
  <2>6. CASE changes[p] \in FileNode \union {Link}
    BY <1>6, <2>2, <2>6 DEF Added
  <2> QED BY <1>2, <2>3, <2>4, <2>5, <2>6
<1>7. CASE ~Added(p) /\ ~(InIndex(baseTree[p]) /\ ~Removed(p) /\ \A q \in TreePath : Added(q) => ~Clash(p, q))
  <2>1. Committed(p) = Nothing
    BY <1>7 DEF Committed
  <2>2. CASE baseTree[p] = Submodule /\ changes[p] = Unchanged
    BY <1>3, <2>2 DEF InIndex, AsShown
  <2>3. CASE changes[p] = Unchanged /\ baseTree[p] # Submodule /\ View(p) \in FileNode \union {Link}
    <3>1. baseTree[p] = View(p)
      BY <1>3, <2>3 DEF AsShown
    <3>2. InIndex(baseTree[p]) /\ ~Removed(p)
      BY <2>3, <3>1, Kinds DEF InIndex, Removed
    <3>3. PICK q \in TreePath : Added(q) /\ Clash(p, q)
      BY <1>7, <3>2
    <3>4. View(p) # Nothing /\ View(p) # Directory
      BY <2>3, Kinds
    <3> QED BY <1>4, <3>3, <3>4
  <2>4. CASE /\ ~(baseTree[p] = Submodule /\ changes[p] = Unchanged)
             /\ ~(View(p) \in FileNode \union {Link} /\ changes[p] = Unchanged)
    BY <1>7, <2>1, <2>4 DEF Shown
  <2> QED BY <2>2, <2>3, <2>4
<1> QED BY <1>5, <1>6, <1>7

-----------------------------------------------------------------------------
(* Theorems.                                                               *)

\* A view holds only what it may, and what a chmod, a touch or a rename has in
\* hand always has a place for it (view.rs, rename_now).
THEOREM ViewTypeHolds == ASSUME BasesAreTrees PROVE ViewSpec => []ViewTypeOK
<1>1. IInv => ViewTypeOK
  BY DEF IInv, ViewTypeOK, OpOK, Typed
<1> QED BY <1>1, IInvHolds, PTL

\* Nothing a view shows is without a directory above it, unless an operation
\* was torn (view.rs).
THEOREM NothingOrphanedHolds == ASSUME BasesAreTrees PROVE ViewSpec => []NothingOrphaned
<1>1. IInv => NothingOrphaned
  BY DEF IInv, NothingOrphaned
<1> QED BY <1>1, IInvHolds, PTL

\* A view implements the abstract tree: each step of it is one operation of
\* ViewTree, or leaves what it shows alone, but where an operation was overtaken
\* (view.rs, ViewVfs).
THEOREM ReadsAsTreeHolds == ASSUME BasesAreTrees PROVE ViewSpec => ReadsAsTree
<1>1. ViewInit => T!Init
  BY IInvInit
<1>2. IInv /\ [ViewNext]_overlayVars =>
        [UNCHANGED tree \/ T!Next \/ OvertakenStep \/ ~T!IsTree(tree)]_tree
  BY AnyStep DEF BasesAreTrees, ViewStep
<1> QED BY <1>1, <1>2, IInvHolds, PTL DEF ViewSpec, ReadsAsTree

\* The commit holds what the view shows, path by path, but where commit itself
\* says less (view.rs, commit).
THEOREM CommitKeepsFilesHolds == ASSUME BasesAreTrees PROVE ViewSpec => []CommitKeepsFiles
<1>1. IInv => CommitKeepsFiles
  BY CommitOf DEF BasesAreTrees, IInv, CommitKeepsFiles
<1> QED BY <1>1, IInvHolds, PTL

=============================================================================
