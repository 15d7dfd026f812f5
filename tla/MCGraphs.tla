------------------------------ MODULE MCGraphs ------------------------------
(* An instance for TLC of the graphs a session keeps: the plan a turn runs,  *)
(* the code graph its end brings up to date, the documents a person adds and *)
(* the notes the tasks leave; a behaviour is one of the four.  The plan is   *)
(* as in MCPlanGraph; two turn ends and the initial ingest meet on one file, *)
(* which gains a function before the one it has, loses it or is removed,     *)
(* with one reader.  Two ingests of one document overlap, with an edit of    *)
(* it, a question and a restart; two tasks that share files run three times  *)
(* between them.                                                             *)
(* The plan may not get stuck; the others may come to rest.                  *)
EXTENDS MCPlanGraph, GraphIngest, DocStore, TraceNotes, TLC

Fn(ink) == [kind |-> "fn", text |-> [ink |-> ink, layout |-> 1, noted |-> TRUE]]

MCInk(text) == text.ink

MCNoted(text) == text.noted

MCSource == {<<Fn("f")>>, <<Fn("g"), Fn("f")>>}

MCCites(c) == IF Len(c) = 2 THEN {"src"} ELSE {}

MCDocContent == {<<"u">>, <<"v", "u">>, <<"u", "v", "u">>}

Said(lines) == [said |-> lines, tool |-> "none", observation |-> <<>>]

\* A claim; a command's outcome with a claim made twice, and a file read; chatter.
MCTrace ==
  {<<Said(<<"f">>)>>,
   <<[said |-> <<"f">>, tool |-> "run", observation |-> <<"c", "f">>],
     Said(<<"f">>),
     [said |-> <<"g">>, tool |-> "read", observation |-> <<"f">>]>>,
   <<Said(<<"c">>)>>}

Twins == Permutations(Ending)

VARIABLE part

GraphsInit ==
  /\ part \in {"plan", "code", "docs", "notes"}
  /\ Init
  /\ part # "plan" => /\ nodes = <<[role |-> Review, deps |-> {}, by |-> 0]>>
                      /\ clock = "open"
                      /\ ~cancelled
  /\ IngestInit
  /\ disk = [p \in Path |-> <<Fn("f")>>]
  /\ DocInit
  /\ part # "docs" => embedder = None /\ \A d \in Doc : file[d].chunks = <<"u">>
  /\ NotesInit

Planned == UNCHANGED <<part, ingestVars, docVars, noteVars>>
Ingested == UNCHANGED <<part, vars, docVars, noteVars>>
Asked == UNCHANGED <<part, vars, ingestVars, noteVars>>
Noting == UNCHANGED <<part, vars, ingestVars, docVars>>

GraphsNext ==
  \/ part = "plan" /\ Scheduler /\ Planned
  \/ part = "plan" /\ Tasks /\ Planned
  \/ part = "plan" /\ Tick /\ Planned
  \/ part = "plan" /\ CancelTurn /\ Planned
  \/ part = "plan" /\ Ended /\ Planned
  \/ part = "code" /\ (\E p \in Path, c \in Source \union {Absent} : Change(p, c)) /\ Ingested
  \/ part = "code" /\ OpenRepository /\ Ingested
  \/ part = "code" /\ (\E t \in Ending, paths \in SUBSET Path : EndTurn(t, paths)) /\ Ingested
  \/ part = "code" /\ (\E p \in Path : SkipHeld(p)) /\ Ingested
  \/ part = "code" /\ (\E w \in Worker, p \in Path : ReadSource(w, p)) /\ Ingested
  \/ part = "code" /\ (\E w \in Worker : DropGone(w)) /\ Ingested
  \/ part = "code" /\ (\E w \in Worker : CheckOid(w)) /\ Ingested
  \/ part = "code" /\ (\E w \in Worker : FetchStored(w)) /\ Ingested
  \/ part = "code" /\ (\E w \in Worker : ReplaceFile(w)) /\ Ingested
  \/ part = "code" /\ (\E w \in Worker : IngestFails(w)) /\ Ingested
  \/ part = "code" /\ (\E w \in Worker : RecordOid(w)) /\ Ingested
  \/ part = "code" /\ (\E w \in Worker : PlaceFile(w)) /\ Ingested
  \/ part = "code" /\ (\E w \in Worker : Finish(w)) /\ Ingested
  \/ part = "code" /\ (\E r \in Reader, p \in Path : ReadDisk(r, p)) /\ Ingested
  \/ part = "code" /\ (\E r \in Reader : CheckFresh(r)) /\ Ingested
  \/ part = "code" /\ (\E r \in Reader : ServeFromGraph(r)) /\ Ingested
  \/ part = "code" /\ Die /\ Ingested
  \/ part = "docs" /\ (\E d \in Doc, c \in DocContent : Edit(d, c)) /\ Asked
  \/ part = "docs" /\ (\E w \in Ingester, d \in Doc : ConvertAndEmbed(w, d)) /\ Asked
  \/ part = "docs" /\ (\E w \in Ingester : AdmitVectorWrite(w)) /\ Asked
  \/ part = "docs" /\ (\E w \in Ingester : ClaimVectors(w)) /\ Asked
  \/ part = "docs" /\ (\E w \in Ingester : ReplaceDoc(w)) /\ Asked
  \/ part = "docs" /\ (\E w \in Ingester : ReplaceFails(w)) /\ Asked
  \/ part = "docs" /\ (\E a \in Asker : EmbedQuery(a)) /\ Asked
  \/ part = "docs" /\ (\E a \in Asker : CheckVectors(a)) /\ Asked
  \/ part = "docs" /\ (\E a \in Asker : SearchDocs(a)) /\ Asked
  \/ part = "docs" /\ (\E m \in Model \union {None} : Restart(m)) /\ Asked
  \/ part = "notes" /\ (\E t \in Task, steps \in Trace, files \in SUBSET File :
                           EndRun(t, steps, files)) /\ Noting
  \/ part = "notes" /\ (\E t \in Task, p \in File : ReadHead(t, p)) /\ Noting
  \/ part = "notes" /\ (\E t \in Task : WriteBatch(t)) /\ Noting
  \/ part = "notes" /\ (\E t \in Task : WriteFails(t)) /\ Noting
  \/ part = "notes" /\ PersistProvenance /\ Noting
  \/ part # "plan" /\ UNCHANGED <<part, vars, ingestVars, docVars, noteVars>>

GraphsSpec == GraphsInit /\ [][GraphsNext]_<<part, vars, ingestVars, docVars, noteVars>>
=============================================================================
