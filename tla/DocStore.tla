------------------------------ MODULE DocStore ------------------------------
(***************************************************************************)
(* The documents a person adds to a repository's graph store and asks      *)
(* about: conversion into chunks, their embeddings, one transaction that   *)
(* replaces a document, and the search that ranks the chunks for a         *)
(* question (daemon.rs ingest_doc, persist_doc, doc_query; ingest.rs;      *)
(* graph.rs replace_doc, doc_search).                                      *)
(*                                                                         *)
(* A connection starts each ingest and each question as a task of its own, *)
(* so they overlap; the store runs one write transaction at a time.  A     *)
(* document is the sequence of its chunks' texts; chunk i of d is <<d, i>>. *)
(* A vector stands for the model that made it and the text stored with it. *)
(* HelixDB and docling are external.                                       *)
(***************************************************************************)
EXTENDS Integers, Sequences, FiniteSets

CONSTANTS
  Doc,          \* the files that may be ingested
  DocContent,   \* the chunks one may hold: sequences of texts
  Model,        \* embedding models
  None,         \* no model; no document
  BATCH,        \* chunks embedded by one request
  Ingester,     \* ingests that may overlap
  Asker,        \* questions that may overlap
  MaxEdits,     \* bound: changes of the files
  MaxIngests,   \* bound: ingests
  MaxRestarts   \* bound: restarts of the daemon

ASSUME ContentAssumption == \A c \in DocContent : DOMAIN c = 1..Len(c) /\ Len(c) \in Nat
ASSUME ModelAssumption == None \notin Model

VARIABLES
  file,      \* what each file holds, and how often it was changed
  docs,      \* the stored documents: their chunks' texts
  vectors,   \* the vectors that are not tombstoned
  maker,     \* meta:embedding, the model that made the store's vectors
  embedder,  \* the embedding model this life of the daemon found served
  ingests,   \* what each ingest is doing
  asks,      \* what each question is doing
  spent,     \* how much of each bound is used
  reported,  \* history: the newest change an ingest reported as persisted
  overtaken  \* history: documents an ingest replaced with an older conversion

shelfVars == <<docs, vectors, maker>>
docVars == <<file, shelfVars, embedder, ingests, asks, spent, reported, overtaken>>

Resting == [pc |-> "rest"]

DocInit ==
  /\ file \in [Doc -> [chunks : DocContent, at : {0}]]
  /\ docs = [d \in Doc |-> [chunks |-> <<>>, at |-> -1]]
  /\ vectors = {}
  /\ maker = None
  /\ embedder \in Model \union {None}
  /\ ingests = [w \in Ingester |-> Resting]
  /\ asks = [a \in Asker |-> Resting]
  /\ spent = [edits |-> 0, ingests |-> 0, restarts |-> 0]
  /\ reported = [d \in Doc |-> -1]
  /\ overtaken = {}

Use(what, limit) ==
  /\ spent[what] < limit
  /\ spent' = [spent EXCEPT ![what] = @ + 1]

\* A person changes a file.
Edit(d, c) ==
  /\ Use("edits", MaxEdits)
  /\ c # file[d].chunks
  /\ file' = [file EXCEPT ![d] = [chunks |-> c, at |-> @.at + 1]]
  /\ UNCHANGED <<shelfVars, embedder, ingests, asks, reported, overtaken>>

-----------------------------------------------------------------------------
(* Ingest.                                                                 *)

IngestGoes(w, state) == ingests' = [ingests EXCEPT ![w] = state]

\* The chunks that got a vector: a request embeds its whole batch or none.
Embeddings(chunks) ==
  LET Batch(i) == (i - 1) \div BATCH
  IN  IF embedder = None
      THEN {{}}
      ELSE {got \in SUBSET (DOMAIN chunks) :
              \A i \in got, j \in DOMAIN chunks : Batch(i) = Batch(j) => j \in got}

\* A file is read and converted, and its chunks are embedded; a file that
\* cannot be converted is not ingested at all.
ConvertAndEmbed(w, d) ==
  /\ ingests[w] = Resting
  /\ Use("ingests", MaxIngests)
  /\ \E got \in Embeddings(file[d].chunks) :
       IngestGoes(w, [pc |-> IF got = {} THEN "replace" ELSE "admit",
                      doc |-> d, chunks |-> file[d].chunks, at |-> file[d].at,
                      got |-> got, late |-> FALSE])
  /\ UNCHANGED <<file, shelfVars, embedder, asks, reported, overtaken>>

\* Bug: any model's vectors are admitted.
AdmitAnyVectors(w) ==
  /\ ingests[w].pc = "admit"
  /\ IngestGoes(w, [ingests[w] EXCEPT !.pc = IF maker = None THEN "claim" ELSE "replace"])
  /\ UNCHANGED <<file, shelfVars, embedder, asks, spent, reported, overtaken>>

\* admit_vector_write reads the record; another model's vectors are dropped.
AdmitVectorWrite(w) ==
  /\ ingests[w].pc = "admit"
  /\ IngestGoes(w,
       IF maker = None THEN [ingests[w] EXCEPT !.pc = "claim"]
       ELSE [ingests[w] EXCEPT !.pc = "replace",
                               !.got = IF maker = embedder THEN @ ELSE {}])
  /\ UNCHANGED <<file, shelfVars, embedder, asks, spent, reported, overtaken>>

\* The first vectors record their maker, in a transaction of its own.
ClaimVectors(w) ==
  /\ ingests[w].pc = "claim"
  /\ maker' = embedder
  /\ IngestGoes(w, [ingests[w] EXCEPT !.pc = "replace"])
  /\ UNCHANGED <<file, docs, vectors, embedder, asks, spent, reported, overtaken>>

\* Bug: a chunk that got no vector keeps its old one.
write_embeddings_leaving_old(d, chunks, got) ==
  vectors' = {v \in vectors : v.of[1] = d => v.of[2] \in DOMAIN chunks \ got}
               \union {[of |-> <<d, i>>, text |-> chunks[i], by |-> embedder] : i \in got}

\* The old vectors of every chunk, of the pruned ones too, are tombstoned
\* whether or not a new one follows.
write_embeddings(d, chunks, got) ==
  vectors' = {v \in vectors : v.of[1] # d}
               \union {[of |-> <<d, i>>, text |-> chunks[i], by |-> embedder] : i \in got}

\* One transaction: the document node, its chunks in place of the stored
\* ones, their edges and vectors.
ReplaceDoc(w) ==
  LET d == ingests[w].doc
  IN  /\ ingests[w].pc = "replace"
      /\ docs' = [docs EXCEPT ![d] = [chunks |-> ingests[w].chunks, at |-> ingests[w].at]]
      /\ write_embeddings(d, ingests[w].chunks, ingests[w].got)
      /\ reported' = [reported EXCEPT ![d] = IF @ > ingests[w].at THEN @ ELSE ingests[w].at]
      /\ overtaken' = IF ingests[w].late THEN overtaken \union {d} ELSE overtaken \ {d}
      /\ ingests' = [v \in Ingester |->
           CASE v = w -> Resting
             [] v # w /\ ingests[v].pc # "rest" /\ ingests[v].doc = d ->
                  [ingests[v] EXCEPT !.late = TRUE]
             [] OTHER -> ingests[v]]
      /\ UNCHANGED <<file, maker, embedder, asks, spent>>

\* Bug: the store's refusal is reported as success.
ReplaceFailsUnsaid(w) ==
  /\ ingests[w].pc = "replace"
  /\ reported' = [reported EXCEPT ![ingests[w].doc] =
       IF @ > ingests[w].at THEN @ ELSE ingests[w].at]
  /\ IngestGoes(w, Resting)
  /\ UNCHANGED <<file, shelfVars, embedder, asks, spent, overtaken>>

\* A transaction that fails leaves nothing behind, and is reported as not
\* persisted.
ReplaceFails(w) ==
  /\ ingests[w].pc = "replace"
  /\ IngestGoes(w, Resting)
  /\ UNCHANGED <<file, shelfVars, embedder, asks, spent, reported, overtaken>>

-----------------------------------------------------------------------------
(* Questions.                                                              *)

AskGoes(a, state) == asks' = [asks EXCEPT ![a] = state]

\* The question is embedded, unless no model is served or the request fails.
EmbedQuery(a) ==
  /\ asks[a].pc \in {"rest", "answered"}
  /\ \E by \in {None, embedder} :
       AskGoes(a, [pc |-> IF by = None THEN "search" ELSE "check", by |-> by])
  /\ UNCHANGED <<file, shelfVars, embedder, ingests, spent, reported, overtaken>>

\* vectors_searchable: another model's vectors cannot rank this query.
CheckVectors(a) ==
  /\ asks[a].pc = "check"
  /\ AskGoes(a, [pc |-> "search", by |-> IF maker \in {None, embedder} THEN embedder ELSE None])
  /\ UNCHANGED <<file, shelfVars, embedder, ingests, spent, reported, overtaken>>

\* doc_search: by the vectors when the query has one, and by the text of the
\* chunks that are left; a search that fails is answered with an error.
SearchDocs(a) ==
  /\ asks[a].pc = "search"
  /\ AskGoes(a, [pc |-> "answered", by |-> asks[a].by,
                 ranked |-> IF asks[a].by = None THEN {} ELSE {v.by : v \in vectors}])
  /\ UNCHANGED <<file, shelfVars, embedder, ingests, spent, reported, overtaken>>

\* The daemon is restarted, by chance with another model served.
Restart(m) ==
  /\ Use("restarts", MaxRestarts)
  /\ embedder' = m
  /\ ingests' = [w \in Ingester |-> Resting]
  /\ asks' = [a \in Asker |-> Resting]
  /\ UNCHANGED <<file, shelfVars, reported, overtaken>>

-----------------------------------------------------------------------------
DocNext ==
  \/ \E d \in Doc, c \in DocContent : Edit(d, c)
  \/ \E w \in Ingester, d \in Doc : ConvertAndEmbed(w, d)
  \/ \E w \in Ingester : AdmitVectorWrite(w)
  \/ \E w \in Ingester : ClaimVectors(w)
  \/ \E w \in Ingester : ReplaceDoc(w)
  \/ \E w \in Ingester : ReplaceFails(w)
  \/ \E a \in Asker : EmbedQuery(a)
  \/ \E a \in Asker : CheckVectors(a)
  \/ \E a \in Asker : SearchDocs(a)
  \/ \E m \in Model \union {None} : Restart(m)

DocSpec == DocInit /\ [][DocNext]_docVars

-----------------------------------------------------------------------------
\* However often a document is ingested again, shorter, longer or with
\* embeddings that fail, every vector a search can hit is the only one of a
\* chunk the store has, and carries that chunk's text.
VectorsAreChunks ==
  /\ \A v \in vectors :
       /\ v.of[2] \in DOMAIN docs[v.of[1]].chunks
       /\ v.text = docs[v.of[1]].chunks[v.of[2]]
  /\ \A v, u \in vectors : v.of = u.of => v = u

\* The store's vectors are all of the model on its record, and no question is
\* ranked against another model's, although the model may change with every
\* restart, and the record, the vectors and the search are transactions of
\* their own.
RankedByOneModel ==
  /\ \A v \in vectors : v.by = maker
  /\ \A a \in Asker : asks[a].pc = "answered" => asks[a].ranked \subseteq {asks[a].by}

\* The store holds no document older than one it reported as persisted, unless
\* an ingest that overlapped a later one was the last to write it.
ReportedIsStored ==
  \A d \in Doc : docs[d].at >= reported[d] \/ d \in overtaken
=============================================================================
