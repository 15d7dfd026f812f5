----------------------------- MODULE GraphIngest -----------------------------
(***************************************************************************)
(* A repository's files and the code graph that is made of them: the       *)
(* initial ingest of a repository that is opened, the ingest at the end of *)
(* each turn, and the VFS that answers reads from the graph when it holds  *)
(* a file's current content (graph.rs, graphvfs.rs, daemon.rs              *)
(* ingest_written).                                                        *)
(*                                                                         *)
(* The store runs one write transaction at a time and each call is durable *)
(* when it returns, so a call is one step; what the code does with several *)
(* calls is several steps, and the ingests of different turns, on threads  *)
(* of their own, interleave between them.  HelixDB itself is external.     *)
(*                                                                         *)
(* A file's content is the sequence of its fresh nodes [kind, text]: Noted *)
(* says which texts hold a comment.  Node ids are a file and a key,        *)
(* comment ids a file and a number.  The recorded oid stands for the       *)
(* content.                                                                *)
(***************************************************************************)
EXTENDS Reconcile

CONSTANTS
  Path,       \* the files
  Tracked,    \* those git lists however they come and go
  Source,     \* what a file may hold
  Absent,     \* no such file; also: no oid on record
  Noted(_),   \* does this text hold a comment
  Cites(_),   \* the directories a file with this content describes
  Ending,     \* turns whose ends may overlap
  Opening,    \* the initial ingest
  Reader,     \* callers of the graph-backed VFS
  MaxChanges, \* bound: changes to the files
  MaxEnds,    \* bound: turn ends
  MaxReads,   \* bound: reads
  MaxDeaths   \* bound: deaths of the daemon

Worker == Ending \union {Opening}

ASSUME SourceAssumption == \A c \in Source : c \in Seq({c[i] : i \in DOMAIN c})
ASSUME AbsentAssumption == Absent \notin Source
ASSUME WorkersAssumption == Opening \notin Ending
ASSUME TrackedAssumption == Tracked \subseteq Path

VARIABLES
  disk,     \* the content of every file
  code,     \* the nodes of every file, in the order of their keys
  notes,    \* the texts of every file's comments, by number
  bound,    \* the in_node edges: <<file, comment, key>>
  about,    \* the describes edges: <<file, directory>>
  oid,      \* the content every file's nodes were ingested from, as recorded
  work,     \* what each worker is doing
  read,     \* what each reader is doing
  used,     \* how much of each bound is used
  touched,  \* history: by worker, files others wrote since it last did
  due,      \* history: by worker, files of its sweep nothing else changed
  torn      \* history: files whose nodes and record were written apart

storeVars == <<code, notes, bound, about, oid>>
history == <<touched, due, torn>>
ingestVars == <<disk, storeVars, work, read, used, history>>

Idle == [pc |-> "idle"]

-----------------------------------------------------------------------------
Texts(c) == [i \in DOMAIN c |-> c[i].text]

\* The nodes whose comments a scan of c finds, in order.
CommentsOf(c) ==
  LET Upto[n \in 0..Len(c)] ==
        IF n = 0 THEN <<>>
        ELSE IF Noted(c[n].text) THEN Append(Upto[n - 1], n)
        ELSE Upto[n - 1]
  IN  Upto[Len(c)]

-----------------------------------------------------------------------------
(* The store's transactions.                                               *)

\* Bug: the edges of what is dropped stay.
replace_file_leaving_edges(p, update, c) ==
  LET comments == CommentsOf(c)
  IN  /\ code' = [code EXCEPT ![p] = update.nodes]
      /\ notes' = [notes EXCEPT ![p] = [i \in DOMAIN comments |-> c[comments[i]].text]]
      /\ bound' = bound \union
                    {<<p, i, update.nodes[comments[i]].order>> : i \in DOMAIN comments}

\* Everything the file's new nodes do not name is dropped, with its edges; an
\* edge that two surviving nodes already have stays.
replace_file(p, update, c) ==
  LET comments == CommentsOf(c)
      keys == {update.nodes[i].order : i \in DOMAIN update.nodes}
      Survives(e) == e[1] # p \/ (e[2] \in DOMAIN comments /\ e[3] \in keys)
  IN  /\ code' = [code EXCEPT ![p] = update.nodes]
      /\ notes' = [notes EXCEPT ![p] = [i \in DOMAIN comments |-> c[comments[i]].text]]
      /\ bound' = {e \in bound : Survives(e)} \union
                    {<<p, i, update.nodes[comments[i]].order>> : i \in DOMAIN comments}

drop_file(p) ==
  /\ code' = [code EXCEPT ![p] = <<>>]
  /\ notes' = [notes EXCEPT ![p] = <<>>]
  /\ bound' = {e \in bound : e[1] # p}
  /\ about' = {e \in about : e[1] # p}
  /\ oid' = [oid EXCEPT ![p] = Absent]

\* Worker w has written p: no other worker's sweep answers for p alone, and
\* whoever is about to record p records other nodes than its own.
Shares(w, p) == due' = [v \in Worker |-> IF v = w THEN due[v] ELSE due[v] \ {p}]

Disturbs(w, p) ==
  /\ Shares(w, p)
  /\ touched' = [v \in Worker |->
       IF v = w THEN touched[v] \ {p} ELSE touched[v] \union {p}]

-----------------------------------------------------------------------------
IngestInit ==
  /\ disk \in [Path -> Source \union {Absent}]
  /\ code = [p \in Path |-> <<>>]
  /\ notes = [p \in Path |-> <<>>]
  /\ bound = {}
  /\ about = {}
  /\ oid = [p \in Path |-> Absent]
  /\ work = [w \in Worker |-> Idle]
  /\ read = [r \in Reader |-> Idle]
  /\ used = [changes |-> 0, ends |-> 0, reads |-> 0, deaths |-> 0]
  /\ touched = [w \in Worker |-> {}]
  /\ due = [w \in Worker |-> {}]
  /\ torn = {}

Spend(what, limit) ==
  /\ used[what] < limit
  /\ used' = [used EXCEPT ![what] = @ + 1]

\* A task, a command or a person writes or removes a file.
Change(p, c) ==
  /\ Spend("changes", MaxChanges)
  /\ c # disk[p]
  /\ disk' = [disk EXCEPT ![p] = c]
  /\ due' = [w \in Worker |-> due[w] \ {p}]
  /\ UNCHANGED <<storeVars, work, read, touched, torn>>

-----------------------------------------------------------------------------
(* The workers.                                                            *)

\* What git lists: a file that is gone but in its index is listed still.
Listed == Tracked \union {p \in Path : disk[p] # Absent}

Go(w, state) == work' = [work EXCEPT ![w] = state]

\* The repository is opened, once in a life of the daemon.
OpenRepository ==
  /\ work[Opening] = Idle
  /\ Go(Opening, [pc |-> "next", todo |-> Listed])
  /\ UNCHANGED <<disk, storeVars, read, used, history>>

\* Bug: only what the tasks say they wrote is looked at.
EndTurnOfWrites(t, wrote) ==
  /\ work[t] = Idle
  /\ Spend("ends", MaxEnds)
  /\ Go(t, [pc |-> "next", todo |-> wrote])
  /\ due' = [due EXCEPT ![t] = wrote \union {p \in Listed : oid[p] # Absent}]
  /\ UNCHANGED <<disk, storeVars, read, touched, torn>>

\* A turn ends: the files its tasks say they wrote, and every listed file the
\* store holds.
EndTurn(t, wrote) ==
  /\ work[t] = Idle
  /\ Spend("ends", MaxEnds)
  /\ LET held == {p \in Listed : oid[p] # Absent}
     IN  /\ Go(t, [pc |-> "next", todo |-> wrote \union held])
         /\ due' = [due EXCEPT ![t] = wrote \union held]
  /\ UNCHANGED <<disk, storeVars, read, touched, torn>>

Onward(w) == Go(w, [pc |-> "next", todo |-> work[w].todo])

\* On to the step pc of the file in hand, and what more it holds.
Step(w, pc) ==
  Go(w, [pc |-> pc, todo |-> work[w].todo, path |-> work[w].path, src |-> work[w].src])

\* The initial ingest leaves a held file alone, whatever it holds.
SkipHeld(p) ==
  /\ work[Opening].pc = "next"
  /\ p \in work[Opening].todo
  /\ oid[p] # Absent
  /\ Go(Opening, [pc |-> "next", todo |-> work[Opening].todo \ {p}])
  /\ UNCHANGED <<disk, storeVars, read, used, history>>

\* A worker reads the next file from disk; the initial ingest passes over one
\* that is not there.
ReadSource(w, p) ==
  /\ work[w].pc = "next"
  /\ p \in work[w].todo
  /\ w = Opening => oid[p] = Absent
  /\ LET todo == work[w].todo \ {p}
         pc == IF disk[p] # Absent THEN "check" ELSE "gone"
     IN  IF disk[p] = Absent /\ w = Opening
         THEN Go(w, [pc |-> "next", todo |-> todo])
         ELSE Go(w, [pc |-> pc, todo |-> todo, path |-> p, src |-> disk[p]])
  /\ UNCHANGED <<disk, storeVars, read, used, history>>

\* A file a turn end finds gone is dropped if the store holds it.
DropGone(w) ==
  LET p == work[w].path
  IN  /\ work[w].pc = "gone"
      /\ IF oid[p] # Absent
         THEN drop_file(p) /\ Disturbs(w, p) /\ torn' = torn \ {p}
         ELSE UNCHANGED <<storeVars, history>>
      /\ Onward(w)
      /\ UNCHANGED <<disk, read, used>>

\* ingest_source has nothing to do for the content on record.
CheckOid(w) ==
  /\ work[w].pc = "check"
  /\ IF oid[work[w].path] = work[w].src THEN Onward(w) ELSE Step(w, "fetch")
  /\ UNCHANGED <<disk, storeVars, read, used, history>>

FetchStored(w) ==
  /\ work[w].pc = "fetch"
  /\ Go(w, [pc |-> "replace", todo |-> work[w].todo, path |-> work[w].path,
            src |-> work[w].src, stored |-> code[work[w].path]])
  /\ UNCHANGED <<disk, storeVars, read, used, history>>

ReplaceFile(w) ==
  /\ work[w].pc = "replace"
  /\ replace_file(work[w].path, reconcile(work[w].stored, work[w].src), work[w].src)
  /\ Disturbs(w, work[w].path)
  /\ Step(w, "record")
  /\ UNCHANGED <<disk, about, oid, read, used, torn>>

\* A file that is no text, does not parse, or that the store refuses keeps
\* its nodes.
IngestFails(w) ==
  /\ work[w].pc = "replace"
  /\ due' = [due EXCEPT ![w] = @ \ {work[w].path}]
  /\ Onward(w)
  /\ UNCHANGED <<disk, storeVars, read, used, touched, torn>>

\* Bug: the record is taken from the file once more.
RecordOidOfDisk(w) ==
  LET p == work[w].path
  IN  /\ work[w].pc = "record"
      /\ oid' = [oid EXCEPT ![p] = disk[p]]
      /\ torn' = IF p \in touched[w] THEN torn \union {p} ELSE torn \ {p}
      /\ Shares(w, p)
      /\ IF w = Opening THEN Onward(w) ELSE Step(w, "place")
      /\ UNCHANGED <<disk, code, notes, bound, about, read, used, touched>>

\* Only a turn end goes on to place the file.
RecordOid(w) ==
  LET p == work[w].path
  IN  /\ work[w].pc = "record"
      /\ oid' = [oid EXCEPT ![p] = work[w].src]
      /\ torn' = IF p \in touched[w] THEN torn \union {p} ELSE torn \ {p}
      /\ Shares(w, p)
      /\ IF w = Opening THEN Onward(w) ELSE Step(w, "place")
      /\ UNCHANGED <<disk, code, notes, bound, about, read, used, touched>>

\* Edges of earlier contents stay.
PlaceFile(w) ==
  /\ work[w].pc = "place"
  /\ about' = about \union ({work[w].path} \X Cites(work[w].src))
  /\ Onward(w)
  /\ UNCHANGED <<disk, code, notes, bound, oid, read, used, history>>

Finish(w) ==
  /\ work[w] = [pc |-> "next", todo |-> {}]
  /\ Go(w, IF w = Opening THEN [pc |-> "done"] ELSE Idle)
  /\ UNCHANGED <<disk, storeVars, read, used, history>>

-----------------------------------------------------------------------------
(* GraphVfs::read: the disk, then the record, then the nodes.              *)

\* The nodes and the record of a file may be apart.
Apart(p) == p \in torn \/ \E w \in Worker : work[w].pc = "record" /\ work[w].path = p

ReadDisk(r, p) ==
  /\ read[r].pc = "idle"
  /\ disk[p] # Absent
  /\ Spend("reads", MaxReads)
  /\ read' = [read EXCEPT ![r] = [pc |-> "fresh", path |-> p, src |-> disk[p]]]
  /\ UNCHANGED <<disk, storeVars, work, history>>

Answered(was, got, apart) ==
  [pc |-> "idle", was |-> Texts(was), got |-> got, apart |-> apart]

\* Bug: any record goes on to the nodes.
CheckHeld(r) ==
  LET p == read[r].path
      src == read[r].src
  IN  /\ read[r].pc = "fresh"
      /\ read' = [read EXCEPT ![r] =
           IF oid[p] # Absent
           THEN [pc |-> "compose", path |-> p, src |-> src, record |-> oid[p],
                 apart |-> Apart(p)]
           ELSE Answered(src, Texts(src), FALSE)]
      /\ UNCHANGED <<disk, storeVars, work, used, history>>

\* Only the record of just this content goes on to the nodes.
CheckFresh(r) ==
  LET p == read[r].path
      src == read[r].src
  IN  /\ read[r].pc = "fresh"
      /\ read' = [read EXCEPT ![r] =
           IF oid[p] = src
           THEN [pc |-> "compose", path |-> p, src |-> src, record |-> oid[p],
                 apart |-> Apart(p)]
           ELSE Answered(src, Texts(src), FALSE)]
      /\ UNCHANGED <<disk, storeVars, work, used, history>>

\* A file without nodes is read from disk as well.
ServeFromGraph(r) ==
  LET p == read[r].path
      src == read[r].src
      got == IF code[p] = <<>> THEN Texts(src) ELSE regenerate(code[p])
  IN  /\ read[r].pc = "compose"
      /\ read' = [read EXCEPT ![r] =
           Answered(src, got, read[r].apart \/ Apart(p) \/ oid[p] # read[r].record)]
      /\ UNCHANGED <<disk, storeVars, work, used, history>>

\* The daemon dies; what was stored stays.
Die ==
  LET cut == {work[w].path : w \in {v \in Worker : work[v].pc = "record"}}
  IN  /\ Spend("deaths", MaxDeaths)
      /\ torn' = torn \union cut
      /\ work' = [w \in Worker |-> Idle]
      /\ read' = [r \in Reader |-> Idle]
      /\ touched' = [w \in Worker |-> {}]
      /\ due' = [w \in Worker |-> {}]
      /\ UNCHANGED <<disk, storeVars>>

-----------------------------------------------------------------------------
IngestNext ==
  \/ \E p \in Path, c \in Source \union {Absent} : Change(p, c)
  \/ OpenRepository
  \/ \E t \in Ending, wrote \in SUBSET Path : EndTurn(t, wrote)
  \/ \E p \in Path : SkipHeld(p)
  \/ \E w \in Worker, p \in Path : ReadSource(w, p)
  \/ \E w \in Worker : DropGone(w)
  \/ \E w \in Worker : CheckOid(w)
  \/ \E w \in Worker : FetchStored(w)
  \/ \E w \in Worker : ReplaceFile(w)
  \/ \E w \in Worker : IngestFails(w)
  \/ \E w \in Worker : RecordOid(w)
  \/ \E w \in Worker : PlaceFile(w)
  \/ \E w \in Worker : Finish(w)
  \/ \E r \in Reader, p \in Path : ReadDisk(r, p)
  \/ \E r \in Reader : CheckFresh(r)
  \/ \E r \in Reader : ServeFromGraph(r)
  \/ Die

IngestSpec == IngestInit /\ [][IngestNext]_ingestVars

-----------------------------------------------------------------------------
\* A file's nodes compose to the content on its record, except between an
\* ingest's two writes and after another ingest, or the daemon's death, came
\* between them.
RecordMatchesNodes ==
  \A p \in Path :
    oid[p] # Absent /\ ~Apart(p) => regenerate(code[p]) = Texts(oid[p])

\* What a reader is served is what it found on disk, under the same exception.
ServedIsCurrent ==
  \A r \in Reader :
    read[r].pc = "idle" /\ read[r] # Idle => read[r].apart \/ read[r].got = read[r].was

\* Every comment is bound to the node that holds it, and every edge joins a
\* comment and a node the store has, however often a file is re-ingested.
CommentsStayBound ==
  LET Holds(p, i, k) ==
        \E n \in DOMAIN code[p] : code[p][n].order = k /\ code[p][n].text = notes[p][i]
  IN  /\ \A p \in Path : \A i \in DOMAIN notes[p] :
           \E e \in bound : e[1] = p /\ e[2] = i /\ Holds(p, i, e[3])
      /\ \A e \in bound :
           /\ e[2] \in DOMAIN notes[e[1]]
           /\ \E n \in DOMAIN code[e[1]] : code[e[1]][n].order = e[3]

\* A sweep that ends has brought every file it undertook up to date, unless
\* the file changed, failed or was ingested by another meanwhile.
SweepCatchesUp ==
  [][\A t \in Ending : work[t].pc = "next" /\ work'[t] = Idle /\ UNCHANGED used
       => \A p \in due[t] : oid[p] = disk[p]]_ingestVars
=============================================================================
