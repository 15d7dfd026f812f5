---------------------------- MODULE StoreProofs ----------------------------
(***************************************************************************)
(* Theorems about the three parts of the graph store: DocStore, TraceNotes *)
(* and GraphIngest, for every set of documents, contents, models, tasks,   *)
(* files, turns and readers and any number of ingests, restarts, runs,     *)
(* changes, turn ends, reads and deaths of the daemon.  What GraphIngest   *)
(* needs of the alignment of two lists of nodes is ReconcileProofs.        *)
(***************************************************************************)
EXTENDS ReconcileProofs, DocStore, TraceNotes, GraphIngest

-----------------------------------------------------------------------------
(* DocStore.                                                               *)

Maker == Model \union {None}

InFlight ==
  [pc : {"admit", "claim", "replace"}, doc : Doc, chunks : DocContent, at : Nat,
   got : SUBSET Nat, late : BOOLEAN]

Asking == [pc : {"check", "search"}, by : Maker]
AnsweredAsk == [pc : {"answered"}, by : Maker, ranked : SUBSET Maker]

DocTypeOK ==
  /\ file \in [Doc -> [chunks : DocContent, at : Nat]]
  /\ docs \in [Doc -> [chunks : DocContent \union {<<>>}, at : Int]]
  /\ \A v \in vectors : v.of \in Doc \X Nat /\ v.by \in Model
  /\ maker \in Maker
  /\ embedder \in Maker
  /\ ingests \in [Ingester -> InFlight \union {Resting}]
  /\ asks \in [Asker -> Asking \union AnsweredAsk \union {Resting}]
  /\ reported \in [Doc -> Int]
  /\ overtaken \subseteq Doc

\* The vectors an ingest is about to write are of chunks it has, and made by the
\* one model on the store's record, or by the first to be recorded.
WritesAdmitted ==
  \A w \in Ingester : ingests[w] # Resting =>
    /\ ingests[w].got \subseteq DOMAIN ingests[w].chunks
    /\ ingests[w].pc \in {"admit", "claim"} => embedder # None
    /\ ingests[w].pc = "claim" => maker \in {None, embedder}
    /\ ingests[w].pc = "replace" /\ ingests[w].got # {} => maker = embedder /\ embedder # None

\* A question is about to be ranked by the model of this life only, and not
\* against another's vectors.
AsksAdmitted ==
  \A a \in Asker :
    /\ asks[a].pc \in {"check", "search"} => asks[a].by \in {None, embedder}
    /\ asks[a].pc = "search" /\ asks[a].by # None => maker \in {None, embedder}

\* What is reported is no newer than the file, and an ingest that no other has
\* overtaken is about to write nothing older.
NothingNewerReported ==
  /\ \A d \in Doc : reported[d] <= file[d].at
  /\ \A w \in Ingester : ingests[w] # Resting =>
       /\ ingests[w].at <= file[ingests[w].doc].at
       /\ ~ingests[w].late => ingests[w].at >= reported[ingests[w].doc]

DocInv ==
  /\ DocTypeOK
  /\ VectorsAreChunks
  /\ WritesAdmitted
  /\ RankedByOneModel
  /\ AsksAdmitted
  /\ NothingNewerReported
  /\ ReportedIsStored

\* An empty store.
LEMMA DocInitInv == DocInit => DocInv
<1> SUFFICES ASSUME DocInit PROVE DocInv
  OBVIOUS
<1> USE DEF DocInit, Resting, Maker
<1>1. DocTypeOK
  BY DEF DocTypeOK
<1>2. VectorsAreChunks /\ RankedByOneModel
  BY DEF VectorsAreChunks, RankedByOneModel
<1>3. WritesAdmitted /\ AsksAdmitted
  BY DEF WritesAdmitted, AsksAdmitted
<1>4. NothingNewerReported /\ ReportedIsStored
  BY DEF NothingNewerReported, ReportedIsStored
<1>. QED
  BY <1>1, <1>2, <1>3, <1>4 DEF DocInv

LEMMA DocTypeStep == DocInv /\ [DocNext]_docVars => DocTypeOK'
<1> SUFFICES ASSUME DocTypeOK, WritesAdmitted, RankedByOneModel, [DocNext]_docVars PROVE DocTypeOK'
  BY DEF DocInv
<1> USE DEF DocTypeOK, shelfVars
<1>1. ASSUME NEW d \in Doc, NEW c \in DocContent, Edit(d, c) PROVE DocTypeOK'
  BY <1>1 DEF Edit
<1>2. ASSUME NEW w \in Ingester, NEW d \in Doc, ConvertAndEmbed(w, d) PROVE DocTypeOK'
  <2>1. PICK got \in Embeddings(file[d].chunks) :
          ingests' = [ingests EXCEPT ![w] =
            [pc |-> IF got = {} THEN "replace" ELSE "admit",
             doc |-> d, chunks |-> file[d].chunks, at |-> file[d].at, got |-> got, late |-> FALSE]]
    BY <1>2 DEF ConvertAndEmbed, IngestGoes
  <2>2. got \subseteq DOMAIN file[d].chunks
    BY DEF Embeddings
  <2>3. got \in SUBSET Nat
    BY <2>2, ContentAssumption
  <2>4. ingests' \in [Ingester -> InFlight \union {Resting}]
    BY <2>1, <2>3 DEF InFlight
  <2>. QED
    BY <1>2, <2>4 DEF ConvertAndEmbed
<1>3. ASSUME NEW w \in Ingester, AdmitVectorWrite(w) PROVE DocTypeOK'
  <2>1. ingests[w] \in InFlight
    BY <1>3 DEF AdmitVectorWrite, Resting
  <2>2. ingests' \in [Ingester -> InFlight \union {Resting}]
    BY <1>3, <2>1 DEF AdmitVectorWrite, IngestGoes, InFlight
  <2>. QED
    BY <1>3, <2>2 DEF AdmitVectorWrite
<1>4. ASSUME NEW w \in Ingester, ClaimVectors(w) PROVE DocTypeOK'
  <2>1. ingests[w] \in InFlight
    BY <1>4 DEF ClaimVectors, Resting
  <2>2. ingests' \in [Ingester -> InFlight \union {Resting}]
    BY <1>4, <2>1 DEF ClaimVectors, IngestGoes, InFlight
  <2>. QED
    BY <1>4, <2>2 DEF ClaimVectors
<1>5. ASSUME NEW w \in Ingester, ReplaceDoc(w) PROVE DocTypeOK'
  <2> DEFINE r == ingests[w]
  <2>1. r \in InFlight /\ r # Resting
    BY <1>5 DEF ReplaceDoc, Resting
  <2>2. r.doc \in Doc /\ r.chunks \in DocContent /\ r.at \in Nat /\ r.got \subseteq Nat
    BY <2>1 DEF InFlight
  <2>3. docs' \in [Doc -> [chunks : DocContent \union {<<>>}, at : Int]]
    BY <1>5, <2>2 DEF ReplaceDoc
  <2>4. \A v \in vectors' : v.of \in Doc \X Nat /\ v.by \in Model
    <3>1. r.got # {} => embedder \in Model
      BY <1>5, <2>1 DEF ReplaceDoc, WritesAdmitted, Maker
    <3>2. vectors' = {v \in vectors : v.of[1] # r.doc}
             \union {[of |-> <<r.doc, i>>, text |-> r.chunks[i], by |-> embedder] : i \in r.got}
      BY <1>5 DEF ReplaceDoc, write_embeddings
    <3>. QED
      BY <2>2, <3>1, <3>2
  <2>5. ingests' \in [Ingester -> InFlight \union {Resting}]
    <3>1. \A v \in Ingester : ingests[v].pc # "rest" =>
            [ingests[v] EXCEPT !.late = TRUE] \in InFlight
      <4>1. \A v \in Ingester : ingests[v].pc # "rest" => ingests[v] \in InFlight
        BY DEF Resting
      <4>2. \A i \in InFlight : [i EXCEPT !.late = TRUE] \in InFlight
        BY DEF InFlight
      <4>. QED
        BY <4>1, <4>2
    <3>. QED
      BY <1>5, <3>1 DEF ReplaceDoc
  <2>6. reported' \in [Doc -> Int] /\ overtaken' \subseteq Doc
    BY <1>5, <2>2 DEF ReplaceDoc
  <2>. QED
    BY <1>5, <2>3, <2>4, <2>5, <2>6 DEF ReplaceDoc
<1>6. ASSUME NEW w \in Ingester, ReplaceFails(w) PROVE DocTypeOK'
  BY <1>6 DEF ReplaceFails, IngestGoes
<1>7. ASSUME NEW a \in Asker, EmbedQuery(a) PROVE DocTypeOK'
  <2>1. PICK by \in {None, embedder} :
          asks' = [asks EXCEPT ![a] = [pc |-> IF by = None THEN "search" ELSE "check", by |-> by]]
    BY <1>7 DEF EmbedQuery, AskGoes
  <2>2. asks' \in [Asker -> Asking \union AnsweredAsk \union {Resting}]
    BY <2>1 DEF Asking, Maker
  <2>. QED
    BY <1>7, <2>2 DEF EmbedQuery
<1>8. ASSUME NEW a \in Asker, CheckVectors(a) PROVE DocTypeOK'
  <2>1. asks' \in [Asker -> Asking \union AnsweredAsk \union {Resting}]
    BY <1>8 DEF CheckVectors, AskGoes, Asking, Maker
  <2>. QED
    BY <1>8, <2>1 DEF CheckVectors
<1>9. ASSUME NEW a \in Asker, SearchDocs(a) PROVE DocTypeOK'
  <2>1. asks[a] \in Asking
    <3>1. asks[a].pc = "search"
      BY <1>9 DEF SearchDocs
    <3>2. \A q \in AnsweredAsk : q.pc # "search"
      BY DEF AnsweredAsk
    <3>3. asks[a] # Resting
      BY <3>1 DEF Resting
    <3>. QED
      BY <3>1, <3>2, <3>3
  <2>2. {v.by : v \in vectors} \subseteq Maker
    BY DEF Maker
  <2>3. asks' \in [Asker -> Asking \union AnsweredAsk \union {Resting}]
    BY <1>9, <2>1, <2>2 DEF SearchDocs, AskGoes, Asking, AnsweredAsk
  <2>. QED
    BY <1>9, <2>3 DEF SearchDocs
<1>10. ASSUME NEW m \in Model \union {None}, Restart(m) PROVE DocTypeOK'
  BY <1>10 DEF Restart, Maker
<1>11. CASE UNCHANGED docVars
  BY <1>11 DEF docVars
<1>. QED
  BY <1>1, <1>2, <1>3, <1>4, <1>5, <1>6, <1>7, <1>8, <1>9, <1>10, <1>11 DEF DocNext

\* A replaced document has the vectors of its own chunks only.
LEMMA VectorsStep == DocInv /\ [DocNext]_docVars => VectorsAreChunks'
<1> SUFFICES ASSUME DocTypeOK, WritesAdmitted, VectorsAreChunks, [DocNext]_docVars
             PROVE  VectorsAreChunks'
  BY DEF DocInv
<1>1. ASSUME NEW w \in Ingester, ReplaceDoc(w) PROVE VectorsAreChunks'
  <2> DEFINE r == ingests[w]
             new == {[of |-> <<r.doc, i>>, text |-> r.chunks[i], by |-> embedder] : i \in r.got}
  <2>1. r \in InFlight /\ r # Resting
    BY <1>1 DEF ReplaceDoc, Resting, DocTypeOK
  <2>2. r.doc \in Doc /\ r.got \subseteq DOMAIN r.chunks
    BY <2>1 DEF InFlight, WritesAdmitted
  <2>3. vectors' = {v \in vectors : v.of[1] # r.doc} \union new
    BY <1>1 DEF ReplaceDoc, write_embeddings
  <2>4. /\ docs'[r.doc].chunks = r.chunks
        /\ \A d \in Doc : d # r.doc => docs'[d] = docs[d]
    BY <1>1, <2>2 DEF ReplaceDoc, DocTypeOK
  <2>5. \A v \in new : /\ v.of[1] = r.doc
                       /\ v.of[2] \in DOMAIN r.chunks
                       /\ v.text = r.chunks[v.of[2]]
                       /\ v.by = embedder
                       /\ v = [of |-> <<r.doc, v.of[2]>>, text |-> r.chunks[v.of[2]], by |-> embedder]
    BY <2>2
  <2>6. \A v \in vectors : v.of[1] \in Doc
    BY DEF DocTypeOK
  <2>7. ASSUME NEW v \in vectors'
        PROVE  /\ v.of[2] \in DOMAIN docs'[v.of[1]].chunks
               /\ v.text = docs'[v.of[1]].chunks[v.of[2]]
    BY <2>3, <2>4, <2>5, <2>6 DEF VectorsAreChunks
  <2>8. ASSUME NEW v \in vectors', NEW u \in vectors', v.of = u.of PROVE v = u
    <3>1. CASE v.of[1] = r.doc
      <4>1. v \in new /\ u \in new
        BY <2>3, <2>8, <3>1
      <4>. QED
        BY <2>5, <2>8, <4>1
    <3>2. CASE v.of[1] # r.doc
      <4>1. v \in vectors /\ u \in vectors
        BY <2>3, <2>5, <2>8, <3>2
      <4>. QED
        BY <2>8, <4>1 DEF VectorsAreChunks
    <3>. QED
      BY <3>1, <3>2
  <2>. QED
    BY <2>7, <2>8 DEF VectorsAreChunks
<1>2. ASSUME UNCHANGED <<docs, vectors>> PROVE VectorsAreChunks'
  BY <1>2 DEF VectorsAreChunks
<1>. QED
  BY <1>1, <1>2 DEF DocNext, Edit, ConvertAndEmbed, AdmitVectorWrite, ClaimVectors, ReplaceFails,
     EmbedQuery, CheckVectors, SearchDocs, Restart, docVars, shelfVars

\* An ingest goes on only with vectors the record admits, whoever else records one
\* meanwhile.
LEMMA WritesAdmittedStep == DocInv /\ [DocNext]_docVars => WritesAdmitted'
<1> SUFFICES ASSUME DocTypeOK, WritesAdmitted, [DocNext]_docVars PROVE WritesAdmitted'
  BY DEF DocInv
<1> USE DEF DocTypeOK, shelfVars
<1>1. ASSUME NEW w \in Ingester, NEW d \in Doc, ConvertAndEmbed(w, d) PROVE WritesAdmitted'
  <2>1. PICK got \in Embeddings(file[d].chunks) :
          ingests' = [ingests EXCEPT ![w] =
            [pc |-> IF got = {} THEN "replace" ELSE "admit",
             doc |-> d, chunks |-> file[d].chunks, at |-> file[d].at, got |-> got, late |-> FALSE]]
    BY <1>1 DEF ConvertAndEmbed, IngestGoes
  <2>2. got \subseteq DOMAIN file[d].chunks /\ (got # {} => embedder # None)
    BY DEF Embeddings
  <2>. QED
    BY <1>1, <2>1, <2>2 DEF ConvertAndEmbed, WritesAdmitted
<1>2. ASSUME NEW w \in Ingester, AdmitVectorWrite(w) PROVE WritesAdmitted'
  <2>1. ingests[w] \in InFlight /\ ingests[w] # Resting
    BY <1>2 DEF AdmitVectorWrite, Resting
  <2>2. ASSUME maker = None PROVE WritesAdmitted'
    BY <1>2, <2>1, <2>2 DEF AdmitVectorWrite, IngestGoes, WritesAdmitted, InFlight
  <2>3. ASSUME maker # None PROVE WritesAdmitted'
    <3> DEFINE r == [ingests[w] EXCEPT !.pc = "replace",
                       !.got = IF maker = embedder THEN @ ELSE {}]
    <3>1. ingests' = [ingests EXCEPT ![w] = r]
      BY <1>2, <2>3 DEF AdmitVectorWrite, IngestGoes
    <3>2. /\ r.pc = "replace" /\ r.chunks = ingests[w].chunks
          /\ r.got \subseteq ingests[w].got
          /\ r.got # {} => maker = embedder
      BY <2>1 DEF InFlight
    <3>3. r.got \subseteq DOMAIN r.chunks /\ (r.got # {} => maker = embedder /\ embedder # None)
      BY <1>2, <2>1, <3>2 DEF WritesAdmitted, AdmitVectorWrite
    <3>. QED
      BY <1>2, <3>1, <3>2, <3>3 DEF AdmitVectorWrite, WritesAdmitted
  <2>. QED
    BY <2>2, <2>3
<1>3. ASSUME NEW w \in Ingester, ClaimVectors(w) PROVE WritesAdmitted'
  <2>1. ingests[w] \in InFlight /\ ingests[w] # Resting
    BY <1>3 DEF ClaimVectors, Resting
  <2>. QED
    BY <1>3, <2>1 DEF ClaimVectors, IngestGoes, WritesAdmitted, InFlight
<1>4. ASSUME NEW w \in Ingester, ReplaceDoc(w) PROVE WritesAdmitted'
  <2>1. ASSUME NEW v \in Ingester, ingests'[v] # Resting
        PROVE  /\ ingests[v] # Resting
               /\ ingests'[v].pc = ingests[v].pc
               /\ ingests'[v].got = ingests[v].got
               /\ ingests'[v].chunks = ingests[v].chunks
    <3>1. ingests'[v] = CASE v = w -> Resting
               [] v # w /\ ingests[v].pc # "rest" /\ ingests[v].doc = ingests[w].doc ->
                    [ingests[v] EXCEPT !.late = TRUE]
               [] OTHER -> ingests[v]
      BY <1>4 DEF ReplaceDoc
    <3>2. ingests[v] # Resting /\ (ingests'[v] = ingests[v] \/ ingests'[v] = [ingests[v] EXCEPT !.late = TRUE])
      BY <2>1, <3>1 DEF Resting
    <3>3. ingests[v] \in InFlight
      BY <3>2
    <3>. QED
      BY <3>2, <3>3 DEF InFlight
  <2>. QED
    BY <1>4, <2>1 DEF ReplaceDoc, WritesAdmitted
<1>5. ASSUME NEW w \in Ingester, ReplaceFails(w) PROVE WritesAdmitted'
  BY <1>5 DEF ReplaceFails, IngestGoes, WritesAdmitted
<1>6. ASSUME NEW m \in Model \union {None}, Restart(m) PROVE WritesAdmitted'
  BY <1>6 DEF Restart, WritesAdmitted
<1>7. ASSUME UNCHANGED <<ingests, maker, embedder>> PROVE WritesAdmitted'
  BY <1>7 DEF WritesAdmitted
<1>. QED
  BY <1>1, <1>2, <1>3, <1>4, <1>5, <1>6, <1>7
     DEF DocNext, Edit, EmbedQuery, CheckVectors, SearchDocs, docVars

\* The record names the maker of every vector, and changes only while there are
\* none.
LEMMA RankedStep == DocInv /\ [DocNext]_docVars => RankedByOneModel' /\ AsksAdmitted'
<1> SUFFICES ASSUME DocTypeOK, WritesAdmitted, RankedByOneModel, AsksAdmitted, [DocNext]_docVars
             PROVE  RankedByOneModel' /\ AsksAdmitted'
  BY DEF DocInv
<1> USE DEF DocTypeOK, shelfVars
<1>0. vectors # {} => maker \in Model
  BY DEF RankedByOneModel
<1>1. ASSUME NEW w \in Ingester, ClaimVectors(w) PROVE RankedByOneModel' /\ AsksAdmitted'
  <2>1. ingests[w] # Resting
    BY <1>1 DEF ClaimVectors, Resting
  <2>2. maker \in {None, embedder} /\ maker' = embedder /\ embedder # None
    BY <1>1, <2>1 DEF ClaimVectors, WritesAdmitted
  <2>. QED
    BY <1>0, <1>1, <2>2, ModelAssumption DEF ClaimVectors, RankedByOneModel, AsksAdmitted
<1>2. ASSUME NEW w \in Ingester, ReplaceDoc(w) PROVE RankedByOneModel' /\ AsksAdmitted'
  <2>1. ingests[w] # Resting
    BY <1>2 DEF ReplaceDoc, Resting
  <2>2. ingests[w].got # {} => maker = embedder
    BY <1>2, <2>1 DEF ReplaceDoc, WritesAdmitted
  <2>3. \A v \in vectors' : v \in vectors \/ (v.by = embedder /\ ingests[w].got # {})
    BY <1>2 DEF ReplaceDoc, write_embeddings
  <2>. QED
    BY <1>2, <2>2, <2>3 DEF ReplaceDoc, RankedByOneModel, AsksAdmitted
<1>3. ASSUME NEW a \in Asker, EmbedQuery(a) PROVE RankedByOneModel' /\ AsksAdmitted'
  <2>1. PICK by \in {None, embedder} :
          asks' = [asks EXCEPT ![a] = [pc |-> IF by = None THEN "search" ELSE "check", by |-> by]]
    BY <1>3 DEF EmbedQuery, AskGoes
  <2>. QED
    BY <1>3, <2>1 DEF EmbedQuery, RankedByOneModel, AsksAdmitted
<1>4. ASSUME NEW a \in Asker, CheckVectors(a) PROVE RankedByOneModel' /\ AsksAdmitted'
  BY <1>4 DEF CheckVectors, AskGoes, RankedByOneModel, AsksAdmitted
<1>5. ASSUME NEW a \in Asker, SearchDocs(a) PROVE RankedByOneModel' /\ AsksAdmitted'
  <2> DEFINE ranked == IF asks[a].by = None THEN {} ELSE {v.by : v \in vectors}
  <2>1. asks' = [asks EXCEPT ![a] = [pc |-> "answered", by |-> asks[a].by, ranked |-> ranked]]
    BY <1>5 DEF SearchDocs, AskGoes
  <2>2. ranked \subseteq {asks[a].by}
    <3>1. asks[a].by \in {None, embedder} /\ (asks[a].by # None => maker \in {None, embedder})
      BY <1>5 DEF SearchDocs, AsksAdmitted
    <3>. QED
      BY <1>0, <3>1, ModelAssumption DEF RankedByOneModel
  <2>. QED
    BY <1>5, <2>1, <2>2 DEF SearchDocs, RankedByOneModel, AsksAdmitted
<1>6. ASSUME NEW m \in Model \union {None}, Restart(m) PROVE RankedByOneModel' /\ AsksAdmitted'
  BY <1>6 DEF Restart, RankedByOneModel, AsksAdmitted, Resting
<1>7. ASSUME UNCHANGED <<vectors, maker, embedder, asks>> PROVE RankedByOneModel' /\ AsksAdmitted'
  BY <1>7 DEF RankedByOneModel, AsksAdmitted
<1>. QED
  BY <1>1, <1>2, <1>3, <1>4, <1>5, <1>6, <1>7
     DEF DocNext, Edit, ConvertAndEmbed, AdmitVectorWrite, ReplaceFails, docVars

\* Only an ingest that replaced its document after a later conversion did can leave
\* something older than was reported, and it says so.
LEMMA ReportedStep == DocInv /\ [DocNext]_docVars => NothingNewerReported' /\ ReportedIsStored'
<1> SUFFICES ASSUME DocTypeOK, NothingNewerReported, ReportedIsStored, [DocNext]_docVars
             PROVE  NothingNewerReported' /\ ReportedIsStored'
  BY DEF DocInv
<1> USE DEF DocTypeOK, shelfVars
<1>0. \A w \in Ingester : ingests[w] # Resting =>
        ingests[w].doc \in Doc /\ ingests[w].at \in Nat /\ ingests[w].late \in BOOLEAN
  BY DEF InFlight
<1>1. ASSUME NEW d \in Doc, NEW c \in DocContent, Edit(d, c)
      PROVE  NothingNewerReported' /\ ReportedIsStored'
  <2>1. \A e \in Doc : file'[e].at \in Nat /\ file'[e].at >= file[e].at
    BY <1>1 DEF Edit
  <2>. QED
    BY <1>0, <1>1, <2>1 DEF Edit, NothingNewerReported, ReportedIsStored
<1>2. ASSUME NEW w \in Ingester, NEW d \in Doc, ConvertAndEmbed(w, d)
      PROVE  NothingNewerReported' /\ ReportedIsStored'
  <2>1. PICK got \in Embeddings(file[d].chunks) :
          ingests' = [ingests EXCEPT ![w] =
            [pc |-> IF got = {} THEN "replace" ELSE "admit",
             doc |-> d, chunks |-> file[d].chunks, at |-> file[d].at, got |-> got, late |-> FALSE]]
    BY <1>2 DEF ConvertAndEmbed, IngestGoes
  <2>. QED
    BY <1>2, <2>1 DEF ConvertAndEmbed, NothingNewerReported, ReportedIsStored
<1>3. ASSUME NEW w \in Ingester, AdmitVectorWrite(w)
      PROVE  NothingNewerReported' /\ ReportedIsStored'
  <2>1. ingests[w] \in InFlight /\ ingests[w] # Resting
    BY <1>3 DEF AdmitVectorWrite, Resting
  <2>2. /\ \A v \in Ingester : v # w => ingests'[v] = ingests[v]
        /\ ingests'[w].doc = ingests[w].doc
        /\ ingests'[w].at = ingests[w].at
        /\ ingests'[w].late = ingests[w].late
    BY <1>3, <2>1 DEF AdmitVectorWrite, IngestGoes, InFlight
  <2>. QED
    BY <1>3, <2>1, <2>2 DEF AdmitVectorWrite, NothingNewerReported, ReportedIsStored
<1>4. ASSUME NEW w \in Ingester, ClaimVectors(w)
      PROVE  NothingNewerReported' /\ ReportedIsStored'
  <2>1. ingests[w] \in InFlight /\ ingests[w] # Resting
    BY <1>4 DEF ClaimVectors, Resting
  <2>2. /\ \A v \in Ingester : v # w => ingests'[v] = ingests[v]
        /\ ingests'[w].doc = ingests[w].doc
        /\ ingests'[w].at = ingests[w].at
        /\ ingests'[w].late = ingests[w].late
    BY <1>4, <2>1 DEF ClaimVectors, IngestGoes, InFlight
  <2>. QED
    BY <1>4, <2>1, <2>2 DEF ClaimVectors, NothingNewerReported, ReportedIsStored
<1>5. ASSUME NEW w \in Ingester, ReplaceDoc(w)
      PROVE  NothingNewerReported' /\ ReportedIsStored'
  <2> DEFINE r == ingests[w]
  <2>1. r # Resting
    BY <1>5 DEF ReplaceDoc, Resting
  <2>2. r.doc \in Doc /\ r.at \in Nat /\ r.late \in BOOLEAN
    BY <1>0, <2>1
  <2>3. /\ docs'[r.doc].at = r.at
        /\ \A d \in Doc : d # r.doc => docs'[d] = docs[d]
        /\ reported'[r.doc] = IF reported[r.doc] > r.at THEN reported[r.doc] ELSE r.at
        /\ \A d \in Doc : d # r.doc => reported'[d] = reported[d]
        /\ overtaken' = IF r.late THEN overtaken \union {r.doc} ELSE overtaken \ {r.doc}
        /\ file' = file
    BY <1>5, <2>2 DEF ReplaceDoc
  <2>4. r.at <= file[r.doc].at /\ (~r.late => r.at >= reported[r.doc])
    BY <2>1 DEF NothingNewerReported
  <2>5. ASSUME NEW v \in Ingester, ingests'[v] # Resting
        PROVE  /\ ingests'[v].at <= file'[ingests'[v].doc].at
               /\ ~ingests'[v].late => ingests'[v].at >= reported'[ingests'[v].doc]
    <3>1. ingests'[v] = CASE v = w -> Resting
               [] v # w /\ ingests[v].pc # "rest" /\ ingests[v].doc = r.doc ->
                    [ingests[v] EXCEPT !.late = TRUE]
               [] OTHER -> ingests[v]
      BY <1>5 DEF ReplaceDoc
    <3>2. v # w /\ ingests[v] # Resting
      BY <2>5, <3>1 DEF Resting
    <3>3. ingests[v] \in InFlight /\ ingests[v].pc # "rest"
      BY <3>2 DEF InFlight
    <3>4. CASE ingests[v].doc = r.doc
      <4>1. ingests'[v] = [ingests[v] EXCEPT !.late = TRUE]
        BY <3>1, <3>2, <3>3, <3>4
      <4>2. /\ ingests'[v].at = ingests[v].at
            /\ ingests'[v].doc = ingests[v].doc
            /\ ingests'[v].late
        BY <3>3, <4>1 DEF InFlight
      <4>. QED
        BY <2>3, <3>2, <4>2 DEF NothingNewerReported
    <3>5. CASE ingests[v].doc # r.doc
      <4>1. ingests'[v] = ingests[v]
        BY <3>1, <3>2, <3>5
      <4>. QED
        BY <1>0, <2>3, <3>2, <3>5, <4>1 DEF NothingNewerReported
    <3>. QED
      BY <3>4, <3>5
  <2>6. \A d \in Doc : reported'[d] <= file'[d].at
    BY <2>2, <2>3, <2>4 DEF NothingNewerReported
  <2>7. \A d \in Doc : docs'[d].at >= reported'[d] \/ d \in overtaken'
    BY <2>2, <2>3, <2>4 DEF ReportedIsStored
  <2>. QED
    BY <2>5, <2>6, <2>7 DEF NothingNewerReported, ReportedIsStored
<1>6. ASSUME NEW w \in Ingester, ReplaceFails(w)
      PROVE  NothingNewerReported' /\ ReportedIsStored'
  BY <1>6 DEF ReplaceFails, IngestGoes, NothingNewerReported, ReportedIsStored
<1>7. ASSUME NEW m \in Model \union {None}, Restart(m)
      PROVE  NothingNewerReported' /\ ReportedIsStored'
  BY <1>7 DEF Restart, NothingNewerReported, ReportedIsStored
<1>8. ASSUME UNCHANGED <<file, docs, ingests, reported, overtaken>>
      PROVE  NothingNewerReported' /\ ReportedIsStored'
  BY <1>8 DEF NothingNewerReported, ReportedIsStored
<1>. QED
  BY <1>1, <1>2, <1>3, <1>4, <1>5, <1>6, <1>7, <1>8
     DEF DocNext, EmbedQuery, CheckVectors, SearchDocs, docVars

LEMMA DocInvHolds == DocSpec => []DocInv
<1>1. DocInv /\ [DocNext]_docVars => DocInv'
  BY DocTypeStep, VectorsStep, WritesAdmittedStep, RankedStep, ReportedStep DEF DocInv
<1>. QED
  BY DocInitInv, <1>1, PTL DEF DocSpec

\* The records an ingest and a question keep are of the kinds their steps make, and
\* every vector is of a chunk and by a model.
THEOREM DocsTypeCorrect == DocSpec => []DocTypeOK
<1>1. DocInv => DocTypeOK
  BY DEF DocInv
<1>. QED
  BY DocInvHolds, <1>1, PTL

\* Every vector a search can hit is the only one of a stored chunk, with its text.
THEOREM VectorsAreChunksHolds == DocSpec => []VectorsAreChunks
<1>1. DocInv => VectorsAreChunks
  BY DEF DocInv
<1>. QED
  BY DocInvHolds, <1>1, PTL

\* All vectors are one model's, and no question is ranked by another's.
THEOREM RankedByOneModelHolds == DocSpec => []RankedByOneModel
<1>1. DocInv => RankedByOneModel
  BY DEF DocInv
<1>. QED
  BY DocInvHolds, <1>1, PTL

\* What was reported as persisted is stored, or something newer is, except where an
\* overtaken ingest wrote last.
THEOREM ReportedIsStoredHolds == DocSpec => []ReportedIsStored
<1>1. DocInv => ReportedIsStored
  BY DEF DocInv
<1>. QED
  BY DocInvHolds, <1>1, PTL

-----------------------------------------------------------------------------
(* TraceNotes.                                                             *)

\* What a run keeps while it writes its notes.
Noting(w) ==
  /\ w = [pc |-> "heads", ids |-> w.ids, newest |-> w.newest, touched |-> w.touched,
          todo |-> w.todo, read |-> w.read]
  /\ \A id \in w.ids : id[1] = "note"
  /\ w.newest \in w.ids
  /\ w.touched \subseteq File

NotesTypeOK ==
  /\ DOMAIN heads = File
  /\ DOMAIN headed = File
  /\ DOMAIN writing = Task
  /\ \A t \in Task : writing[t] = [pc |-> "none"] \/ Noting(writing[t])

\* A file's head leads to every note that was its head, whatever else the edges lead
\* to; a file that has no head never had one.
Chained ==
  /\ \A p \in File : heads[p] = Nobody => headed[p] = {}
  /\ \A p \in File \ parted :
       \A these : heads[p] \in these /\ Closed(these) => headed[p] \subseteq these

\* Every note is bound to its task, every task of a turn that is over to its plan,
\* and a head to its file.
Bound ==
  /\ \A n \in stored : n[1] = "note" => \E t \in Task : <<n, "noted_by", TaskNode(t)>> \in edges
  /\ ended => \A t \in Task : <<TaskNode(t), "part_of", Plan>> \in edges
  /\ \A p \in File : heads[p] # Nobody => <<heads[p], "about", FileNode(p)>> \in edges

NotesInv == NotesTypeOK /\ Chained /\ Bound

\* Distinct keeps notes only.
LEMMA NotesAreNotes ==
  ASSUME NEW t, NEW steps, NEW id \in Distinct(extract(t, steps))
  PROVE  id[1] = "note"
<1>1. PICK n \in extract(t, steps) : id = n.id
  BY DEF Distinct
<1> DEFINE found == FlattenSeq([i \in DOMAIN steps |-> StepNotes(steps[i])])
<1>2. extract(t, steps) = {[id |-> <<"note", t, i - 1>>, kind |-> found[i].kind,
                            text |-> found[i].text] : i \in DOMAIN found}
  BY DEF extract
<1> HIDE DEF found
<1>3. PICK i \in DOMAIN found :
        n = [id |-> <<"note", t, i - 1>>, kind |-> found[i].kind, text |-> found[i].text]
  BY <1>1, <1>2
<1>. QED
  BY <1>1, <1>3

LEMMA Noting_todo ==
  ASSUME NEW w, Noting(w), NEW todo PROVE Noting([w EXCEPT !.todo = todo])
<1>1. PICK ids, newest, carried, seen, old :
        w = [pc |-> "heads", ids |-> ids, newest |-> newest, touched |-> carried,
             todo |-> old, read |-> seen]
  BY DEF Noting
<1>2. [w EXCEPT !.todo = todo] =
        [pc |-> "heads", ids |-> ids, newest |-> newest, touched |-> carried,
         todo |-> todo, read |-> seen]
  BY <1>1
<1>3. (\A id \in ids : id[1] = "note") /\ newest \in ids /\ carried \subseteq File
  BY <1>1 DEF Noting
<1>. QED
  BY <1>2, <1>3 DEF Noting

LEMMA Noting_read ==
  ASSUME NEW w, Noting(w), NEW seen PROVE Noting([w EXCEPT !.read = seen])
<1>1. PICK ids, newest, carried, todo, old :
        w = [pc |-> "heads", ids |-> ids, newest |-> newest, touched |-> carried,
             todo |-> todo, read |-> old]
  BY DEF Noting
<1>2. [w EXCEPT !.read = seen] =
        [pc |-> "heads", ids |-> ids, newest |-> newest, touched |-> carried,
         todo |-> todo, read |-> seen]
  BY <1>1
<1>3. (\A id \in ids : id[1] = "note") /\ newest \in ids /\ carried \subseteq File
  BY <1>1 DEF Noting
<1>. QED
  BY <1>2, <1>3 DEF Noting

LEMMA NotesTypeStep == NotesInv /\ [NotesNext]_noteVars => NotesTypeOK'
<1> SUFFICES ASSUME NotesTypeOK, [NotesNext]_noteVars PROVE NotesTypeOK'
  BY DEF NotesInv
<1> USE DEF NotesTypeOK
<1>1. ASSUME NEW t \in Task, NEW steps \in Trace, NEW carried \in SUBSET File, EndRun(t, steps, carried)
      PROVE  NotesTypeOK'
  <2> DEFINE ids == Distinct(extract(t, steps))
  <2>1. PICK newest \in ids : writing' = [writing EXCEPT ![t] =
          [pc |-> "heads", ids |-> ids, newest |-> newest, touched |-> carried,
           todo |-> carried, read |-> [p \in carried |-> Nobody]]]
    BY <1>1 DEF EndRun
  <2>2. \A id \in ids : id[1] = "note"
    BY NotesAreNotes
  <2> HIDE DEF ids
  <2>3. Noting([pc |-> "heads", ids |-> ids, newest |-> newest, touched |-> carried,
                todo |-> carried, read |-> [p \in carried |-> Nobody]])
    BY <2>2 DEF Noting
  <2>. QED
    BY <1>1, <2>1, <2>3 DEF EndRun
<1>2. ASSUME NEW t \in Task, NEW p \in File, ReadHead(t, p) PROVE NotesTypeOK'
  <2> DEFINE w == writing[t]
             u == [w EXCEPT !.todo = @ \ {p}]
             v == [u EXCEPT !.read = [@ EXCEPT ![p] = heads[p]]]
  <2>1. Noting(w)
    BY <1>2 DEF ReadHead
  <2>2. writing' = [writing EXCEPT ![t] = v]
    BY <1>2, <2>1 DEF ReadHead
  <2>3. Noting(v)
    BY <2>1, Noting_todo, Noting_read
  <2> HIDE DEF v
  <2>. QED
    BY <1>2, <2>2, <2>3 DEF ReadHead
<1>3. ASSUME NEW t \in Task, WriteBatch(t) PROVE NotesTypeOK'
  BY <1>3 DEF WriteBatch, Written
<1>4. ASSUME NEW t \in Task, WriteFails(t) PROVE NotesTypeOK'
  BY <1>4 DEF WriteFails
<1>5. CASE PersistProvenance
  BY <1>5 DEF PersistProvenance
<1>6. CASE UNCHANGED noteVars
  BY <1>6 DEF noteVars
<1>. QED
  BY <1>1, <1>2, <1>3, <1>4, <1>5, <1>6 DEF NotesNext

\* A batch supersedes the head its file still has, or makes the file one that was
\* raced for or run again.
LEMMA ChainedStep == NotesInv /\ [NotesNext]_noteVars => Chained'
<1> SUFFICES ASSUME NotesTypeOK, Chained, [NotesNext]_noteVars PROVE Chained'
  BY DEF NotesInv
<1>1. ASSUME NEW t \in Task, WriteBatch(t) PROVE Chained'
  <2> DEFINE w == writing[t]
             prior == {w.read[p] : p \in {q \in w.touched : w.read[q] # Nobody /\ ~Own(t, w.read[q])}}
  <2>0. Noting(w)
    BY <1>1 DEF WriteBatch, Written, NotesTypeOK
  <2>1. /\ w.newest \in w.ids /\ w.newest[1] = "note"
        /\ w.touched \subseteq File
    BY <2>0 DEF Noting
  <2>2. edges \subseteq edges' /\ \A old \in prior : <<w.newest, "supersedes", old>> \in edges'
    BY <1>1 DEF WriteBatch, Batch, note_edges
  <2>3. /\ heads' = [p \in File |-> IF p \in w.touched THEN w.newest ELSE heads[p]]
        /\ headed' = [p \in File |-> headed[p] \union (IF p \in w.touched THEN {w.newest} ELSE {})]
        /\ parted' = parted \union {p \in w.touched : Parts(t, p)}
    BY <1>1 DEF WriteBatch, Written
  <2>4. ASSUME NEW p \in File, heads'[p] = Nobody PROVE headed'[p] = {}
    BY <2>1, <2>3, <2>4 DEF Chained, Nobody
  <2>5. ASSUME NEW p \in File \ parted', NEW these, heads'[p] \in these, Closed(these)'
        PROVE  headed'[p] \subseteq these
    <3>1. Closed(these)
      BY <2>2, <2>5 DEF Closed
    <3>2. p \notin parted
      BY <2>3
    <3>3. CASE p \notin w.touched
      BY <2>3, <2>5, <3>1, <3>2, <3>3 DEF Chained
    <3>4. CASE p \in w.touched
      <4>1. ~Parts(t, p) /\ w.newest \in these
        BY <2>3, <2>5, <3>4
      <4>2. CASE heads[p] = Nobody
        BY <2>3, <3>4, <4>1, <4>2 DEF Chained
      <4>3. CASE heads[p] # Nobody /\ Own(t, heads[p])
        BY <2>3, <3>1, <3>2, <3>4, <4>1, <4>3 DEF Chained, Parts
      <4>4. CASE heads[p] # Nobody /\ ~Own(t, heads[p])
        <5>1. heads[p] = w.read[p] /\ heads[p] \in prior
          BY <3>4, <4>1, <4>4 DEF Parts
        <5>2. heads[p] \in these
          <6>1. <<w.newest, "supersedes", heads[p]>> \in edges'
            BY <2>2, <5>1
          <6>. QED
            BY <2>5, <4>1, <6>1 DEF Closed
        <5>. QED
          BY <2>3, <3>1, <3>2, <3>4, <4>1, <5>2 DEF Chained
      <4>. QED
        BY <4>2, <4>3, <4>4
    <3>. QED
      BY <3>3, <3>4
  <2>. QED
    BY <2>4, <2>5 DEF Chained
<1>2. CASE PersistProvenance
  <2>1. \A these : Closed(these)' => Closed(these)
    BY <1>2 DEF PersistProvenance, Closed
  <2>. QED
    BY <1>2, <2>1 DEF PersistProvenance, Chained
<1>3. ASSUME UNCHANGED <<edges, heads, headed, parted>> PROVE Chained'
  BY <1>3 DEF Chained, Closed
<1>. QED
  BY <1>1, <1>2, <1>3 DEF NotesNext, EndRun, ReadHead, WriteFails, noteVars

\* A batch brings its notes with the edges that bind them.
LEMMA BoundStep == NotesInv /\ [NotesNext]_noteVars => Bound'
<1> SUFFICES ASSUME NotesTypeOK, Bound, [NotesNext]_noteVars PROVE Bound'
  BY DEF NotesInv
<1>1. ASSUME NEW t \in Task, WriteBatch(t) PROVE Bound'
  <2> DEFINE w == writing[t]
  <2>0. Noting(w)
    BY <1>1 DEF WriteBatch, Written, NotesTypeOK
  <2>1. w.newest \in w.ids /\ w.touched \subseteq File
    BY <2>0 DEF Noting
  <2>2. /\ edges \subseteq edges'
        /\ \A id \in w.ids : <<id, "noted_by", TaskNode(t)>> \in edges'
        /\ \A id \in w.ids, p \in w.touched : <<id, "about", FileNode(p)>> \in edges'
    BY <1>1 DEF WriteBatch, Batch, note_edges
  <2>3. \A n \in stored' : n[1] = "note" => n \in stored \/ n \in w.ids
    BY <1>1 DEF WriteBatch, Written, Batch, TaskNode, FileNode
  <2>4. \A p \in File : heads'[p] = IF p \in w.touched THEN w.newest ELSE heads[p]
    BY <1>1 DEF WriteBatch, Written
  <2>. QED
    BY <1>1, <2>1, <2>2, <2>3, <2>4 DEF WriteBatch, Written, Bound
<1>2. CASE PersistProvenance
  <2>1. \A n \in stored' : n[1] = "note" => n \in stored
    BY <1>2 DEF PersistProvenance, Plan, TaskNode
  <2>. QED
    BY <1>2, <2>1 DEF PersistProvenance, Bound
<1>3. ASSUME UNCHANGED <<stored, edges, heads, ended>> PROVE Bound'
  BY <1>3 DEF Bound
<1>. QED
  BY <1>1, <1>2, <1>3 DEF NotesNext, EndRun, ReadHead, WriteFails, noteVars

LEMMA NotesInvHolds == NotesSpec => []NotesInv
<1>1. NotesInit => NotesInv
  BY DEF NotesInit, NotesInv, NotesTypeOK, Chained, Bound
<1>2. NotesInv /\ [NotesNext]_noteVars => NotesInv'
  BY NotesTypeStep, ChainedStep, BoundStep DEF NotesInv
<1>. QED
  BY <1>1, <1>2, PTL DEF NotesSpec

\* A file's present head leads, along what it supersedes, to every note that was its
\* head, unless two runs read the same head or a task was run again.
THEOREM HeadReachesNotesHolds == NotesSpec => []HeadReachesNotes
<1>1. NotesInv => HeadReachesNotes
  BY DEF NotesInv, Chained, HeadReachesNotes
<1>. QED
  BY NotesInvHolds, <1>1, PTL

\* The explorer comes from a plan to every note of its turn and from a file to its
\* head.
THEOREM PlanRevealsNotesHolds == NotesSpec => []PlanRevealsNotes
<1>1. NotesInv => PlanRevealsNotes
  <2> SUFFICES ASSUME Bound PROVE PlanRevealsNotes
    BY DEF NotesInv
  <2>1. ASSUME ended, NEW n \in stored, n[1] = "note"
        PROVE  \E m \in neighbors(Plan) : n \in neighbors(m)
    <3>1. PICK t \in Task : <<n, "noted_by", TaskNode(t)>> \in edges
      BY <2>1 DEF Bound
    <3>2. <<TaskNode(t), "part_of", Plan>> \in edges
      BY <2>1 DEF Bound
    <3>3. TaskNode(t) \in neighbors(Plan) /\ n \in neighbors(TaskNode(t))
      BY <3>1, <3>2 DEF neighbors
    <3>. QED
      BY <3>3
  <2>2. ASSUME NEW p \in File, heads[p] # Nobody PROVE heads[p] \in neighbors(FileNode(p))
    <3>1. <<heads[p], "about", FileNode(p)>> \in edges
      BY <2>2 DEF Bound
    <3>. QED
      BY <3>1 DEF neighbors
  <2>. QED
    BY <2>1, <2>2 DEF PlanRevealsNotes
<1>. QED
  BY NotesInvHolds, <1>1, PTL

-----------------------------------------------------------------------------
(* The comments of a content.                                              *)

\* A scan finds nodes of the content.
LEMMA CommentsInOrder ==
  ASSUME NEW c \in Source
  PROVE  CommentsOf(c) \in Seq(DOMAIN c)
<1> DEFINE N == Len(c)
           D == DOMAIN c
           Rhs(f, n) == IF n = 0 THEN <<>>
                        ELSE IF Noted(c[n].text) THEN Append(f[n - 1], n)
                        ELSE f[n - 1]
           Upto == CHOOSE f : f = [n \in 0..N |-> Rhs(f, n)]
<1>1. CommentsOf(c) = Upto[N]
  BY DEF CommentsOf
<1>2. N \in Nat /\ D = 1..N
  <2> DEFINE S == {c[i] : i \in DOMAIN c}
  <2>1. c \in Seq(S)
    BY SourceAssumption
  <2> HIDE DEF S
  <2> QED BY <2>1
<1> HIDE DEF N, D, Upto
<1> DEFINE Sofar == {k \in Nat : \E f \in [0..N -> Seq(D)] :
                       \A n \in 0..N : n < k => f[n] = Rhs(f, n)}
<1>3. 0 \in Sofar
  <2> DEFINE f == [n \in 0..N |-> <<>>]
  <2>1. f \in [0..N -> Seq(D)]
    OBVIOUS
  <2>2. \A n \in 0..N : ~(n < 0)
    BY <1>2
  <2> QED BY <2>1, <2>2
<1>4. ASSUME NEW k \in Sofar
      PROVE  k + 1 \in Sofar
  <2>1. PICK f \in [0..N -> Seq(D)] : \A n \in 0..N : n < k => f[n] = Rhs(f, n)
    OBVIOUS
  <2> DEFINE g == [n \in 0..N |-> IF n < k THEN f[n] ELSE Rhs(f, n)]
  <2>2. ASSUME NEW n \in 0..N
        PROVE  Rhs(f, n) \in Seq(D)
    <3>1. CASE n = 0
      BY <3>1
    <3>2. CASE n # 0
      <4>1. n - 1 \in 0..N /\ n \in D
        BY <3>2, <1>2
      <4>2. f[n - 1] \in Seq(D)
        BY <4>1
      <4> QED BY <4>1, <4>2, <3>2
    <3> QED BY <3>1, <3>2
  <2>3. g \in [0..N -> Seq(D)]
    BY <2>2
  <2>4. ASSUME NEW n \in 0..N, n < k + 1
        PROVE  g[n] = Rhs(g, n)
    <3>1. g[n] = Rhs(f, n)
      BY <2>1
    <3>2. n # 0 => n - 1 \in 0..N /\ n - 1 < k
      BY <2>4, <1>2
    <3>3. n # 0 => g[n - 1] = f[n - 1]
      BY <3>2
    <3> HIDE DEF g
    <3>4. Rhs(g, n) = Rhs(f, n)
      BY <3>3
    <3> QED BY <3>1, <3>4
  <2>5. k + 1 \in Nat
    OBVIOUS
  <2> QED BY <2>3, <2>4, <2>5
<1>5. N + 1 \in Sofar
  <2> HIDE DEF Sofar
  <2> QED BY <1>2, <1>3, <1>4, NatAll
<1>6. PICK f \in [0..N -> Seq(D)] : \A n \in 0..N : n < N + 1 => f[n] = Rhs(f, n)
  BY <1>5
<1>7. f = [n \in 0..N |-> Rhs(f, n)]
  <2>1. \A n \in 0..N : f[n] = Rhs(f, n)
    <3>1. \A n \in 0..N : n < N + 1
      BY <1>2
    <3> HIDE DEF Rhs
    <3> QED BY <3>1, <1>6
  <2> HIDE DEF Rhs
  <2> QED BY <2>1
<1>8. Upto = [n \in 0..N |-> Rhs(Upto, n)]
  BY <1>7 DEF Upto
<1> DEFINE Wrong == {n \in 0..N : Upto[n] \notin Seq(D)}
<1>9. Wrong = {}
  <2> SUFFICES ASSUME Wrong # {}
               PROVE  FALSE
    OBVIOUS
  <2>1. Wrong \subseteq Nat
    BY <1>2
  <2>2. PICK n \in Wrong : \A j \in Wrong : n <= j
    BY <2>1, NatMin
  <2>3. Upto[n] = Rhs(Upto, n) /\ n \in 0..N
    <3> HIDE DEF Rhs
    <3> QED BY <1>8
  <2>6. n # 0
    <3>1. n = 0 => Upto[n] = <<>>
      BY <2>3
    <3>2. <<>> \in Seq(D) /\ Upto[n] \notin Seq(D)
      BY <2>2
    <3> QED BY <3>1, <3>2
  <2>4. n - 1 \in 0..N /\ n - 1 \notin Wrong /\ n \in D
    <3>1. n \in Nat /\ n - 1 \in 0..N /\ n \in D
      BY <1>2, <2>3, <2>6
    <3>2. n - 1 \in Wrong => n <= n - 1
      BY <2>2
    <3> QED BY <3>1, <3>2
  <2>5. Upto[n - 1] \in Seq(D)
    BY <2>4
  <2>7. Upto[n] = Upto[n - 1] \/ Upto[n] = Append(Upto[n - 1], n)
    BY <2>3, <2>6
  <2>8. Append(Upto[n - 1], n) \in Seq(D)
    BY <2>4, <2>5
  <2>9. Upto[n] \notin Seq(D)
    BY <2>2
  <2> HIDE DEF Wrong
  <2> QED BY <2>5, <2>7, <2>8, <2>9
<1> QED BY <1>1, <1>2, <1>9 DEF D

-----------------------------------------------------------------------------
(* Types.                                                                  *)

\* Where a worker has a file in hand.
InHand == {"gone", "check", "fetch", "replace", "record", "place"}

WorkerOK(state) ==
  /\ state.pc \in {"idle", "next", "done"} \union InHand
  /\ state.pc \in {"next"} \union InHand => state.todo \subseteq Path
  /\ state.pc \in InHand => state.path \in Path
  /\ state.pc \in InHand \ {"gone"} => state.src \in Source
  /\ state.pc = "gone" => state.src = Absent
  /\ state.pc = "replace" => Keyed(state.stored)

ReaderOK(state) ==
  /\ state.pc \in {"idle", "fresh", "compose"}
  /\ state.pc # "idle" => state.path \in Path /\ state.src \in Source
  /\ state.pc = "compose" => state.record = state.src

IngestTypeOK ==
  /\ disk \in [Path -> Source \union {Absent}]
  /\ oid \in [Path -> Source \union {Absent}]
  /\ DOMAIN code = Path
  /\ DOMAIN notes = Path
  /\ DOMAIN work = Worker /\ \A w \in Worker : WorkerOK(work[w])
  /\ DOMAIN read = Reader /\ \A r \in Reader : ReaderOK(read[r])
  /\ touched \in [Worker -> SUBSET Path]
  /\ due \in [Worker -> SUBSET Path]
  /\ used \in [changes : Nat, ends : Nat, reads : Nat, deaths : Nat]

\* The nodes give the content back.
Composes(nodes, c) == regenerate(nodes) = Texts(c)

\* Between an ingest's two writes the nodes are those it wrote, unless another
\* worker wrote them since.
RecordsItsOwn ==
  \A w \in Worker :
    work[w].pc = "record" /\ work[w].path \notin touched[w] =>
      Composes(code[work[w].path], work[w].src)

\* Every file's nodes have rising keys, and its notes are a sequence.
IsSeq(s) == s \in Seq({s[i] : i \in DOMAIN s})

NotesAreWhole == \A p \in Path : Keyed(code[p]) /\ IsSeq(notes[p])

\* A worker's new state.
LEMMA Goes ==
  ASSUME IngestTypeOK, NEW w \in Worker, NEW s, WorkerOK(s), Go(w, s)
  PROVE  /\ DOMAIN work' = Worker
         /\ \A v \in Worker : WorkerOK(work'[v])
         /\ work'[w] = s
         /\ \A v \in Worker : v # w => work'[v] = work[v]
BY DEF Go, IngestTypeOK

\* The initial ingest is no turn's end.
LEMMA WorkersAre == Opening \in Worker /\ \A t \in Ending : t \in Worker /\ t # Opening
BY WorkersAssumption DEF Worker

Typed == IngestTypeOK /\ NotesAreWhole

\* What a replaced file's nodes and notes are.
LEMMA ReplacedWhole ==
  ASSUME Typed, NEW p \in Path, NEW had, Keyed(had), NEW c \in Source,
         replace_file(p, reconcile(had, c), c)
  PROVE  /\ DOMAIN code' = Path /\ DOMAIN notes' = Path
         /\ \A q \in Path : q # p => code'[q] = code[q] /\ notes'[q] = notes[q]
         /\ Keyed(code'[p]) /\ Composes(code'[p], c)
         /\ \A i \in DOMAIN c : i \in DOMAIN code'[p] /\ code'[p][i].text = c[i].text
         /\ notes'[p] = [i \in DOMAIN CommentsOf(c) |-> c[CommentsOf(c)[i]].text]
         /\ IsSeq(notes'[p])
<1> DEFINE new == reconcile(had, c).nodes
           cs == CommentsOf(c)
           texts == [i \in DOMAIN cs |-> c[cs[i]].text]
<1>1. c \in Seq({c[i] : i \in DOMAIN c})
  BY SourceAssumption
<1>2. Keyed(new) /\ DOMAIN new = DOMAIN c /\ \A i \in DOMAIN c : new[i].text = c[i].text
  BY <1>1, Reconciles
<1>3. code' = [code EXCEPT ![p] = new] /\ notes' = [notes EXCEPT ![p] = texts]
  BY DEF replace_file
<1>4. texts \in Seq({texts[i] : i \in DOMAIN texts})
  <2>1. cs \in Seq(DOMAIN c)
    BY CommentsInOrder
  <2> HIDE DEF cs
  <2>2. Len(cs) \in Nat /\ DOMAIN cs = 1..Len(cs)
    BY <2>1
  <2>3. texts \in [1..Len(cs) -> {texts[i] : i \in 1..Len(cs)}] /\ DOMAIN texts = 1..Len(cs)
    BY <2>2
  <2> DEFINE S == {texts[i] : i \in 1..Len(cs)}
  <2> HIDE DEF texts
  <2>4. texts \in [1..Len(cs) -> S]
    BY <2>3
  <2> HIDE DEF S
  <2>5. texts \in Seq(S)
    BY <2>2, <2>4
  <2> QED BY <2>3, <2>5 DEF S
<1> HIDE DEF new, texts
<1>9. Composes(new, c)
  BY <1>2, KeyedInOrder DEF Composes, Texts
<1>5. DOMAIN code = Path /\ DOMAIN notes = Path
  BY DEF Typed, IngestTypeOK
<1>6. code'[p] = new /\ notes'[p] = texts
  BY <1>3, <1>5
<1>7. \A q \in Path : q # p => code'[q] = code[q] /\ notes'[q] = notes[q]
  BY <1>3, <1>5
<1>8. DOMAIN code' = Path /\ DOMAIN notes' = Path
  BY <1>3, <1>5
<1> QED BY <1>2, <1>4, <1>6, <1>7, <1>8, <1>9 DEF texts, IsSeq

\* A file without nodes.
LEMMA EmptyWhole == Keyed(<<>>) /\ IsSeq(<<>>)
  BY DEF Keyed, IsSeq

\* Every step keeps the types; a replaced file's keys rise by Reconciles.
LEMMA TypedStep ==
  ASSUME Typed, [IngestNext]_ingestVars
  PROVE  Typed'
<1> USE DEF Typed
<1>1. ASSUME NEW p \in Path, NEW c \in Source \union {Absent}, Change(p, c)
      PROVE  Typed'
  BY <1>1 DEF Change, Spend, storeVars, IngestTypeOK, NotesAreWhole
<1>2. CASE OpenRepository
  <2>1. WorkerOK([pc |-> "next", todo |-> Listed])
    BY TrackedAssumption DEF WorkerOK, InHand, Listed
  <2>2. DOMAIN work' = Worker /\ \A v \in Worker : WorkerOK(work'[v])
    BY <1>2, <2>1, Goes, WorkersAre DEF OpenRepository
  <2> QED BY <1>2, <2>2 DEF OpenRepository, storeVars, history, IngestTypeOK, NotesAreWhole
<1>3. ASSUME NEW t \in Ending, NEW wrote \in SUBSET Path, EndTurn(t, wrote)
      PROVE  Typed'
  <2> DEFINE held == {p \in Listed : oid[p] # Absent}
  <2>0. held \subseteq Path
    BY TrackedAssumption DEF Listed
  <2>1. WorkerOK([pc |-> "next", todo |-> wrote \union held])
    BY <2>0 DEF WorkerOK, InHand
  <2>2. t \in Worker /\ Go(t, [pc |-> "next", todo |-> wrote \union held])
    BY <1>3, WorkersAre DEF EndTurn
  <2>3. due' \in [Worker -> SUBSET Path]
    BY <1>3, <2>0 DEF EndTurn, IngestTypeOK
  <2>4. used' \in [changes : Nat, ends : Nat, reads : Nat, deaths : Nat]
    BY <1>3 DEF EndTurn, Spend, IngestTypeOK
  <2> HIDE DEF held
  <2>5. DOMAIN work' = Worker /\ \A v \in Worker : WorkerOK(work'[v])
    BY <2>1, <2>2, Goes
  <2> QED BY <1>3, <2>3, <2>4, <2>5 DEF EndTurn, storeVars, IngestTypeOK, NotesAreWhole
<1>4. ASSUME NEW p \in Path, SkipHeld(p)
      PROVE  Typed'
  <2>1. WorkerOK([pc |-> "next", todo |-> work[Opening].todo \ {p}])
    BY <1>4, WorkersAre DEF SkipHeld, WorkerOK, InHand, IngestTypeOK
  <2>2. DOMAIN work' = Worker /\ \A v \in Worker : WorkerOK(work'[v])
    BY <1>4, <2>1, Goes, WorkersAre DEF SkipHeld
  <2> QED BY <1>4, <2>2 DEF SkipHeld, storeVars, history, IngestTypeOK, NotesAreWhole
<1>5. ASSUME NEW w \in Worker, NEW p \in Path, ReadSource(w, p)
      PROVE  Typed'
  <2> DEFINE todo == work[w].todo \ {p}
  <2>1. todo \subseteq Path
    BY <1>5 DEF ReadSource, WorkerOK, IngestTypeOK
  <2>2. WorkerOK([pc |-> "next", todo |-> todo])
    BY <2>1 DEF WorkerOK, InHand
  <2>3. WorkerOK([pc |-> IF disk[p] # Absent THEN "check" ELSE "gone", todo |-> todo, path |-> p, src |-> disk[p]])
    <3>1. disk[p] \in Source \union {Absent}
      BY DEF IngestTypeOK
    <3> HIDE DEF todo
    <3> QED BY <2>1, <3>1 DEF WorkerOK, InHand
  <2>4. DOMAIN work' = Worker /\ \A v \in Worker : WorkerOK(work'[v])
    BY <1>5, <2>2, <2>3, Goes DEF ReadSource
  <2> QED BY <1>5, <2>4 DEF ReadSource, storeVars, history, IngestTypeOK, NotesAreWhole
<1>50. ASSUME NEW w \in Worker, Onward(w), work[w].pc \in InHand
       PROVE  DOMAIN work' = Worker /\ \A v \in Worker : WorkerOK(work'[v])
  <2>1. WorkerOK([pc |-> "next", todo |-> work[w].todo])
    BY <1>50 DEF WorkerOK, InHand, IngestTypeOK
  <2> QED BY <1>50, <2>1, Goes DEF Onward
<1>51. ASSUME NEW w \in Worker, NEW pc \in {"fetch", "record", "place"}, Step(w, pc),
              work[w].pc \in InHand \ {"gone"}
       PROVE  DOMAIN work' = Worker /\ \A v \in Worker : WorkerOK(work'[v])
  <2>1. WorkerOK([pc |-> pc, todo |-> work[w].todo, path |-> work[w].path, src |-> work[w].src])
    BY <1>51 DEF WorkerOK, InHand, IngestTypeOK
  <2> QED BY <1>51, <2>1, Goes DEF Step
<1>6. ASSUME NEW w \in Worker, DropGone(w)
      PROVE  Typed'
  <2>1. work[w].path \in Path /\ DOMAIN work' = Worker /\ \A v \in Worker : WorkerOK(work'[v])
    BY <1>6, <1>50 DEF DropGone, WorkerOK, InHand, IngestTypeOK
  <2>2. CASE oid[work[w].path] # Absent
    <3>1. drop_file(work[w].path) /\ Disturbs(w, work[w].path) /\ UNCHANGED <<disk, read, used>>
      BY <1>6, <2>2 DEF DropGone
    <3>2. /\ DOMAIN code' = Path /\ DOMAIN notes' = Path
          /\ oid' \in [Path -> Source \union {Absent}]
          /\ code'[work[w].path] = <<>> /\ notes'[work[w].path] = <<>>
          /\ \A q \in Path : q # work[w].path => code'[q] = code[q] /\ notes'[q] = notes[q]
      BY <2>1, <3>1 DEF drop_file, IngestTypeOK
    <3>3. NotesAreWhole'
      <4> SUFFICES ASSUME NEW q \in Path
                   PROVE  Keyed(code'[q]) /\ IsSeq(notes'[q])
        BY DEF NotesAreWhole
      <4>1. CASE q = work[w].path
        BY <3>2, <4>1, EmptyWhole
      <4>2. CASE q # work[w].path
        BY <3>2, <4>2 DEF NotesAreWhole
      <4> QED BY <4>1, <4>2
    <3>4. touched' \in [Worker -> SUBSET Path] /\ due' \in [Worker -> SUBSET Path]
      BY <3>1, <2>1 DEF Disturbs, Shares, IngestTypeOK
    <3> QED BY <2>1, <3>1, <3>2, <3>3, <3>4 DEF IngestTypeOK
  <2>3. CASE oid[work[w].path] = Absent
    BY <1>6, <2>1, <2>3 DEF DropGone, storeVars, history, IngestTypeOK, NotesAreWhole
  <2> QED BY <2>2, <2>3
<1>7. ASSUME NEW w \in Worker, CheckOid(w)
      PROVE  Typed'
  <2>1. DOMAIN work' = Worker /\ \A v \in Worker : WorkerOK(work'[v])
    BY <1>7, <1>50, <1>51 DEF CheckOid, InHand
  <2> QED BY <1>7, <2>1 DEF CheckOid, storeVars, history, IngestTypeOK, NotesAreWhole
<1>8. ASSUME NEW w \in Worker, FetchStored(w)
      PROVE  Typed'
  <2>1. WorkerOK([pc |-> "replace", todo |-> work[w].todo, path |-> work[w].path,
                  src |-> work[w].src, stored |-> code[work[w].path]])
    BY <1>8 DEF FetchStored, WorkerOK, InHand, IngestTypeOK, NotesAreWhole
  <2>2. DOMAIN work' = Worker /\ \A v \in Worker : WorkerOK(work'[v])
    BY <1>8, <2>1, Goes DEF FetchStored
  <2> QED BY <1>8, <2>2 DEF FetchStored, storeVars, history, IngestTypeOK, NotesAreWhole
<1>9. ASSUME NEW w \in Worker, ReplaceFile(w)
      PROVE  Typed'
  <2>1. work[w].path \in Path /\ work[w].src \in Source /\ Keyed(work[w].stored)
    BY <1>9 DEF ReplaceFile, WorkerOK, InHand, IngestTypeOK
  <2>2. DOMAIN work' = Worker /\ \A v \in Worker : WorkerOK(work'[v])
    BY <1>9, <1>51 DEF ReplaceFile, InHand
  <2>3. /\ DOMAIN code' = Path /\ DOMAIN notes' = Path
        /\ \A q \in Path : Keyed(code'[q]) /\ IsSeq(notes'[q])
    <3>1. replace_file(work[w].path, reconcile(work[w].stored, work[w].src), work[w].src)
      BY <1>9 DEF ReplaceFile
    <3>2. /\ DOMAIN code' = Path /\ DOMAIN notes' = Path
          /\ \A q \in Path : q # work[w].path => code'[q] = code[q] /\ notes'[q] = notes[q]
          /\ Keyed(code'[work[w].path])
          /\ IsSeq(notes'[work[w].path])
      BY <2>1, <3>1, ReplacedWhole
    <3>3. ASSUME NEW q \in Path
          PROVE  Keyed(code'[q]) /\ IsSeq(notes'[q])
      <4>1. CASE q = work[w].path
        BY <3>2, <4>1
      <4>2. CASE q # work[w].path
        BY <3>2, <4>2 DEF NotesAreWhole
      <4> QED BY <4>1, <4>2
    <3> QED BY <3>2, <3>3
  <2>4. touched' \in [Worker -> SUBSET Path] /\ due' \in [Worker -> SUBSET Path]
    BY <1>9, <2>1 DEF ReplaceFile, Disturbs, Shares, IngestTypeOK
  <2> QED BY <1>9, <2>2, <2>3, <2>4 DEF ReplaceFile, IngestTypeOK, NotesAreWhole
<1>10. ASSUME NEW w \in Worker, IngestFails(w)
       PROVE  Typed'
  <2>1. DOMAIN work' = Worker /\ \A v \in Worker : WorkerOK(work'[v])
    BY <1>10, <1>50 DEF IngestFails, InHand
  <2> QED BY <1>10, <2>1 DEF IngestFails, storeVars, IngestTypeOK, NotesAreWhole
<1>11. ASSUME NEW w \in Worker, RecordOid(w)
       PROVE  Typed'
  <2>1. DOMAIN work' = Worker /\ \A v \in Worker : WorkerOK(work'[v])
    BY <1>11, <1>50, <1>51 DEF RecordOid, InHand
  <2>2. work[w].path \in Path /\ work[w].src \in Source
    BY <1>11 DEF RecordOid, WorkerOK, InHand, IngestTypeOK
  <2>3. oid' \in [Path -> Source \union {Absent}] /\ due' \in [Worker -> SUBSET Path]
    BY <1>11, <2>2 DEF RecordOid, Shares, IngestTypeOK
  <2> QED BY <1>11, <2>1, <2>3 DEF RecordOid, IngestTypeOK, NotesAreWhole
<1>12. ASSUME NEW w \in Worker, PlaceFile(w)
       PROVE  Typed'
  <2>1. DOMAIN work' = Worker /\ \A v \in Worker : WorkerOK(work'[v])
    BY <1>12, <1>50 DEF PlaceFile, InHand
  <2> QED BY <1>12, <2>1 DEF PlaceFile, history, IngestTypeOK, NotesAreWhole
<1>13. ASSUME NEW w \in Worker, Finish(w)
       PROVE  Typed'
  <2>1. WorkerOK([pc |-> "done"]) /\ WorkerOK(Idle)
    BY DEF WorkerOK, InHand, Idle
  <2>2. DOMAIN work' = Worker /\ \A v \in Worker : WorkerOK(work'[v])
    BY <1>13, <2>1, Goes DEF Finish
  <2> QED BY <1>13, <2>2 DEF Finish, storeVars, history, IngestTypeOK, NotesAreWhole
<1>14. ASSUME NEW r \in Reader, NEW p \in Path, ReadDisk(r, p)
       PROVE  Typed'
  <2>1. ReaderOK([pc |-> "fresh", path |-> p, src |-> disk[p]])
    BY <1>14 DEF ReadDisk, ReaderOK, IngestTypeOK
  <2>2. used' \in [changes : Nat, ends : Nat, reads : Nat, deaths : Nat]
    BY <1>14 DEF ReadDisk, Spend, IngestTypeOK
  <2> QED BY <1>14, <2>1, <2>2 DEF ReadDisk, storeVars, history, IngestTypeOK, NotesAreWhole
<1>15. ASSUME NEW r \in Reader, CheckFresh(r)
       PROVE  Typed'
  <2> DEFINE s == [pc |-> "compose", path |-> read[r].path, src |-> read[r].src,
                   record |-> oid[read[r].path], apart |-> Apart(read[r].path)]
             d == Answered(read[r].src, Texts(read[r].src), FALSE)
  <2>1. oid[read[r].path] = read[r].src => ReaderOK(s)
    BY <1>15 DEF CheckFresh, ReaderOK, IngestTypeOK
  <2>2. ReaderOK(d)
    BY DEF Answered, ReaderOK
  <2>3. read' = [read EXCEPT ![r] = IF oid[read[r].path] = read[r].src THEN s ELSE d]
    BY <1>15 DEF CheckFresh
  <2> HIDE DEF s, d
  <2>4. DOMAIN read' = Reader /\ \A q \in Reader : ReaderOK(read'[q])
    BY <2>1, <2>2, <2>3 DEF IngestTypeOK
  <2>5. UNCHANGED <<disk, storeVars, work, used, history>>
    BY <1>15 DEF CheckFresh
  <2> QED BY <2>4, <2>5 DEF storeVars, history, IngestTypeOK, NotesAreWhole
<1>16. ASSUME NEW r \in Reader, ServeFromGraph(r)
       PROVE  Typed'
  <2>1. \A was, got, apart : ReaderOK(Answered(was, got, apart))
    BY DEF Answered, ReaderOK
  <2>4. DOMAIN read' = Reader /\ \A q \in Reader : ReaderOK(read'[q])
    BY <1>16, <2>1 DEF ServeFromGraph, IngestTypeOK
  <2> QED BY <1>16, <2>4 DEF ServeFromGraph, storeVars, history, IngestTypeOK, NotesAreWhole
<1>17. CASE Die
  <2>1. WorkerOK(Idle) /\ ReaderOK(Idle)
    BY DEF WorkerOK, ReaderOK, InHand, Idle
  <2>2. used' \in [changes : Nat, ends : Nat, reads : Nat, deaths : Nat]
    BY <1>17 DEF Die, Spend, IngestTypeOK
  <2> QED BY <1>17, <2>1, <2>2 DEF Die, storeVars, IngestTypeOK, NotesAreWhole
<1>18. CASE UNCHANGED ingestVars
  BY <1>18 DEF ingestVars, storeVars, history, IngestTypeOK, NotesAreWhole
<1> QED BY <1>1, <1>2, <1>3, <1>4, <1>5, <1>6, <1>7, <1>8, <1>9, <1>10, <1>11, <1>12, <1>13,
           <1>14, <1>15, <1>16, <1>17, <1>18 DEF IngestNext

-----------------------------------------------------------------------------
(* The record and the nodes.                                               *)

Matched == RecordMatchesNodes /\ RecordsItsOwn

\* Steps that neither write nor record a file.
LEMMA QuietRecords ==
  ASSUME Matched, UNCHANGED <<code, oid, torn, touched>>,
         \A v \in Worker :
           work'[v] = work[v] \/ (work[v].pc # "record" /\ work'[v].pc # "record")
  PROVE  Matched'
BY DEF Matched, RecordMatchesNodes, RecordsItsOwn, Apart, Composes

\* A worker's new state, of whatever type.
LEMMA Turned ==
  ASSUME IngestTypeOK, NEW w \in Worker, NEW s, Go(w, s)
  PROVE  DOMAIN work' = Worker /\ work'[w] = s /\ \A v \in Worker : v # w => work'[v] = work[v]
BY DEF Go, IngestTypeOK

\* What is recorded is what was last written, or the file counts as torn.
LEMMA MatchedStep ==
  ASSUME Typed, Matched, [IngestNext]_ingestVars
  PROVE  Matched'
<1> USE DEF Typed
<1>a. ASSUME NEW w \in Worker, NEW s, Go(w, s), work[w].pc # "record", s.pc # "record",
             UNCHANGED <<code, oid, torn, touched>>
      PROVE  Matched'
  BY <1>a, Turned, QuietRecords
<1>1. ASSUME NEW p \in Path, NEW c \in Source \union {Absent}, Change(p, c)
      PROVE  Matched'
  BY <1>1, QuietRecords DEF Change, storeVars
<1>2. CASE OpenRepository
  BY <1>2, <1>a, WorkersAre DEF OpenRepository, storeVars, history, Idle
<1>3. ASSUME NEW t \in Ending, NEW wrote \in SUBSET Path, EndTurn(t, wrote)
      PROVE  Matched'
  <2> DEFINE s == [pc |-> "next", todo |-> wrote \union {p \in Listed : oid[p] # Absent}]
  <2>1. Go(t, s) /\ work[t].pc # "record" /\ s.pc # "record"
    BY <1>3 DEF EndTurn, Idle
  <2> HIDE DEF s
  <2> QED BY <1>3, <2>1, <1>a, WorkersAre DEF EndTurn, storeVars
<1>4. ASSUME NEW p \in Path, SkipHeld(p)
      PROVE  Matched'
  BY <1>4, <1>a, WorkersAre DEF SkipHeld, storeVars, history
<1>5. ASSUME NEW w \in Worker, NEW p \in Path, ReadSource(w, p)
      PROVE  Matched'
  BY <1>5, <1>a DEF ReadSource, storeVars, history
<1>6. ASSUME NEW w \in Worker, DropGone(w)
      PROVE  Matched'
  <2> DEFINE p == work[w].path
  <2>0. work[w].pc # "record" /\ Go(w, [pc |-> "next", todo |-> work[w].todo])
    BY <1>6 DEF DropGone, Onward
  <2>1. CASE oid[p] # Absent
    <3>1. drop_file(p) /\ Disturbs(w, p) /\ torn' = torn \ {p}
      BY <1>6, <2>1 DEF DropGone
    <3>2. work'[w].pc # "record" /\ \A v \in Worker : v # w => work'[v] = work[v]
      BY <2>0, Turned
    <3>3. p \in Path
      BY <1>6 DEF DropGone, IngestTypeOK, WorkerOK, InHand
    <3>4. oid'[p] = Absent /\ \A q \in Path : q # p => code'[q] = code[q] /\ oid'[q] = oid[q]
      BY <3>1, <3>3 DEF drop_file, IngestTypeOK
    <3>5. \A v \in Worker : v # w => touched'[v] = touched[v] \union {p}
      BY <3>1 DEF Disturbs
    <3> HIDE DEF p
    <3>6. RecordMatchesNodes'
      <4> SUFFICES ASSUME NEW q \in Path, oid'[q] # Absent, ~Apart(q)'
                   PROVE  Composes(code[q], oid[q])'
        BY DEF RecordMatchesNodes, Composes
      <4>1. q # p
        BY <3>4
      <4>2. ~Apart(q)
        BY <2>0, <3>1, <3>2, <4>1 DEF Apart
      <4> QED BY <3>4, <4>1, <4>2 DEF Matched, RecordMatchesNodes, Composes
    <3>7. RecordsItsOwn'
      <4> SUFFICES ASSUME NEW v \in Worker, work'[v].pc = "record", work'[v].path \notin touched'[v]
                   PROVE  Composes(code[work[v].path], work[v].src)'
        BY DEF RecordsItsOwn
      <4>1. v # w /\ work'[v] = work[v]
        BY <3>2
      <4>2. work[v].path # p /\ work[v].path \notin touched[v]
        BY <3>5, <4>1
      <4>3. work[v].path \in Path
        BY <4>1 DEF IngestTypeOK, WorkerOK, InHand
      <4> QED BY <3>4, <4>1, <4>2, <4>3 DEF Matched, RecordsItsOwn, Composes
    <3> QED BY <3>6, <3>7 DEF Matched
  <2>2. CASE oid[p] = Absent
    BY <1>6, <2>0, <2>2, <1>a DEF DropGone, storeVars, history
  <2> QED BY <2>1, <2>2
<1>7. ASSUME NEW w \in Worker, CheckOid(w)
      PROVE  Matched'
  BY <1>7, <1>a DEF CheckOid, Onward, Step, storeVars, history
<1>8. ASSUME NEW w \in Worker, FetchStored(w)
      PROVE  Matched'
  BY <1>8, <1>a DEF FetchStored, storeVars, history
<1>9. ASSUME NEW w \in Worker, ReplaceFile(w)
      PROVE  Matched'
  <2> DEFINE p == work[w].path
             c == work[w].src
  <2>1. p \in Path /\ c \in Source /\ Keyed(work[w].stored) /\ work[w].pc = "replace"
    BY <1>9 DEF ReplaceFile, WorkerOK, InHand, IngestTypeOK
  <2>2. /\ replace_file(p, reconcile(work[w].stored, c), c) /\ Disturbs(w, p)
        /\ Go(w, [pc |-> "record", todo |-> work[w].todo, path |-> p, src |-> c])
        /\ UNCHANGED <<oid, torn>>
    BY <1>9 DEF ReplaceFile, Step
  <2>3. /\ work'[w].pc = "record" /\ work'[w].path = p /\ work'[w].src = c
        /\ \A v \in Worker : v # w => work'[v] = work[v]
    BY <2>2, Turned
  <2>4. \A q \in Path : q # p => code'[q] = code[q]
    BY <2>1, <2>2, ReplacedWhole
  <2>5. Composes(code'[p], c)
    BY <2>1, <2>2, ReplacedWhole
  <2>6. \A v \in Worker : v # w => touched'[v] = touched[v] \union {p}
    BY <2>2 DEF Disturbs
  <2> HIDE DEF p, c
  <2>7. RecordMatchesNodes'
    <3> SUFFICES ASSUME NEW q \in Path, oid'[q] # Absent, ~Apart(q)'
                 PROVE  Composes(code[q], oid[q])'
      BY DEF RecordMatchesNodes, Composes
    <3>1. q # p
      BY <2>3 DEF Apart
    <3>2. ~Apart(q)
      BY <2>1, <2>2, <2>3 DEF Apart
    <3> QED BY <2>2, <2>4, <3>1, <3>2 DEF Matched, RecordMatchesNodes, Composes
  <2>8. RecordsItsOwn'
    <3> SUFFICES ASSUME NEW v \in Worker, work'[v].pc = "record", work'[v].path \notin touched'[v]
                 PROVE  Composes(code[work[v].path], work[v].src)'
      BY DEF RecordsItsOwn
    <3>1. CASE v = w
      BY <3>1, <2>3, <2>5 DEF Composes
    <3>2. CASE v # w
      <4>1. work'[v] = work[v] /\ work[v].path # p /\ work[v].path \notin touched[v]
        BY <2>3, <2>6, <3>2
      <4>2. work[v].path \in Path
        BY <4>1 DEF IngestTypeOK, WorkerOK, InHand
      <4> QED BY <2>4, <4>1, <4>2 DEF Matched, RecordsItsOwn, Composes
    <3> QED BY <3>1, <3>2
  <2> QED BY <2>7, <2>8 DEF Matched
<1>10. ASSUME NEW w \in Worker, IngestFails(w)
       PROVE  Matched'
  BY <1>10, <1>a DEF IngestFails, Onward, storeVars
<1>11. ASSUME NEW w \in Worker, RecordOid(w)
       PROVE  Matched'
  <2> DEFINE p == work[w].path
             c == work[w].src
  <2>1. p \in Path /\ c \in Source /\ work[w].pc = "record"
    BY <1>11 DEF RecordOid, WorkerOK, InHand, IngestTypeOK
  <2>2. /\ oid' = [oid EXCEPT ![p] = c]
        /\ torn' = IF p \in touched[w] THEN torn \union {p} ELSE torn \ {p}
        /\ UNCHANGED <<code, touched>>
        /\ Onward(w) \/ Step(w, "place")
    BY <1>11 DEF RecordOid
  <2>3. work'[w].pc # "record" /\ \A v \in Worker : v # w => work'[v] = work[v]
    BY <2>2, Turned DEF Onward, Step
  <2>4. oid'[p] = c /\ \A q \in Path : q # p => oid'[q] = oid[q]
    BY <2>1, <2>2 DEF IngestTypeOK
  <2>5. p \notin touched[w] => Composes(code[p], c)
    BY <2>1 DEF Matched, RecordsItsOwn
  <2> HIDE DEF p, c
  <2>6. RecordMatchesNodes'
    <3> SUFFICES ASSUME NEW q \in Path, oid'[q] # Absent, ~Apart(q)'
                 PROVE  Composes(code[q], oid[q])'
      BY DEF RecordMatchesNodes, Composes
    <3>1. CASE q = p
      <4>1. p \notin touched[w]
        BY <2>2, <3>1 DEF Apart
      <4> QED BY <2>2, <2>4, <2>5, <3>1, <4>1 DEF Composes
    <3>2. CASE q # p
      <4>1. work[w].path # q
        BY <3>2 DEF p
      <4>2. ~Apart(q)
        BY <2>2, <2>3, <3>2, <4>1 DEF Apart
      <4> QED BY <2>2, <2>4, <3>2, <4>2 DEF Matched, RecordMatchesNodes, Composes
    <3> QED BY <3>1, <3>2
  <2>7. RecordsItsOwn'
    BY <2>2, <2>3 DEF Matched, RecordsItsOwn, Composes
  <2> QED BY <2>6, <2>7 DEF Matched
<1>12. ASSUME NEW w \in Worker, PlaceFile(w)
       PROVE  Matched'
  BY <1>12, <1>a DEF PlaceFile, Onward, history
<1>13. ASSUME NEW w \in Worker, Finish(w)
       PROVE  Matched'
  <2>1. [pc |-> "done"].pc # "record" /\ Idle.pc # "record" /\ work[w].pc # "record"
    BY <1>13 DEF Finish, Idle
  <2> QED BY <1>13, <2>1, <1>a DEF Finish, storeVars, history
<1>14. ASSUME NEW r \in Reader, NEW p \in Path, ReadDisk(r, p)
       PROVE  Matched'
  BY <1>14, QuietRecords DEF ReadDisk, storeVars, history
<1>15. ASSUME NEW r \in Reader, CheckFresh(r)
       PROVE  Matched'
  BY <1>15, QuietRecords DEF CheckFresh, storeVars, history
<1>16. ASSUME NEW r \in Reader, ServeFromGraph(r)
       PROVE  Matched'
  BY <1>16, QuietRecords DEF ServeFromGraph, storeVars, history
<1>17. CASE Die
  <2>1. \A v \in Worker : work'[v].pc # "record"
    BY <1>17 DEF Die, Idle
  <2>2. torn' = torn \union {work[w].path : w \in {v \in Worker : work[v].pc = "record"}}
    BY <1>17 DEF Die
  <2>3. \A q \in Path : Apart(q) => Apart(q)'
    BY <2>2 DEF Apart
  <2>4. UNCHANGED <<code, oid>>
    BY <1>17 DEF Die, storeVars
  <2> QED BY <2>1, <2>3, <2>4 DEF Matched, RecordMatchesNodes, RecordsItsOwn
<1>18. CASE UNCHANGED ingestVars
  BY <1>18, QuietRecords DEF ingestVars, storeVars, history
<1> QED BY <1>1, <1>2, <1>3, <1>4, <1>5, <1>6, <1>7, <1>8, <1>9, <1>10, <1>11, <1>12, <1>13,
           <1>14, <1>15, <1>16, <1>17, <1>18 DEF IngestNext

-----------------------------------------------------------------------------
(* The readers.                                                            *)

\* A reader is served the nodes of the content it found, or was told apart.
LEMMA ServedStep ==
  ASSUME Typed, Matched, ServedIsCurrent, [IngestNext]_ingestVars
  PROVE  ServedIsCurrent'
<1> USE DEF Typed
<1>1. CASE UNCHANGED read
  BY <1>1 DEF ServedIsCurrent
<1>2. ASSUME NEW r \in Reader, NEW p \in Path, ReadDisk(r, p)
      PROVE  ServedIsCurrent'
  BY <1>2 DEF ReadDisk, ServedIsCurrent, IngestTypeOK
<1>3. ASSUME NEW r \in Reader, CheckFresh(r)
      PROVE  ServedIsCurrent'
  <2> DEFINE s == [pc |-> "compose", path |-> read[r].path, src |-> read[r].src,
                   record |-> oid[read[r].path], apart |-> Apart(read[r].path)]
             d == Answered(read[r].src, Texts(read[r].src), FALSE)
  <2>1. read' = [read EXCEPT ![r] = IF oid[read[r].path] = read[r].src THEN s ELSE d]
    BY <1>3 DEF CheckFresh
  <2>2. s.pc # "idle" /\ d.got = d.was
    BY DEF Answered
  <2> HIDE DEF s, d
  <2> QED BY <2>1, <2>2 DEF ServedIsCurrent, IngestTypeOK
<1>4. ASSUME NEW r \in Reader, ServeFromGraph(r)
      PROVE  ServedIsCurrent'
  <2> DEFINE p == read[r].path
             src == read[r].src
             got == IF code[p] = <<>> THEN Texts(src) ELSE regenerate(code[p])
             apart == read[r].apart \/ Apart(p) \/ oid[p] # read[r].record
             d == Answered(src, got, apart)
  <2>1. read' = [read EXCEPT ![r] = d]
    BY <1>4 DEF ServeFromGraph
  <2>2. p \in Path /\ src \in Source /\ read[r].record = src
    BY <1>4 DEF ServeFromGraph, IngestTypeOK, ReaderOK
  <2>3. apart \/ got = Texts(src)
    BY <2>2, AbsentAssumption DEF Matched, RecordMatchesNodes
  <2> HIDE DEF got, apart
  <2>4. d.apart = apart /\ d.got = got /\ d.was = Texts(src)
    BY DEF Answered
  <2> HIDE DEF d
  <2>5. \A q \in Reader : read'[q] = IF q = r THEN d ELSE read[q]
    BY <2>1 DEF IngestTypeOK
  <2> QED BY <2>3, <2>4, <2>5 DEF ServedIsCurrent
<1>5. CASE Die
  BY <1>5 DEF Die, ServedIsCurrent
<1> QED BY <1>1, <1>2, <1>3, <1>4, <1>5
        DEF IngestNext, Change, OpenRepository, EndTurn, SkipHeld, ReadSource, DropGone, CheckOid,
            FetchStored, ReplaceFile, IngestFails, RecordOid, PlaceFile, Finish, ingestVars

-----------------------------------------------------------------------------
(* The sweep of a turn's end.                                              *)

\* What a turn's end has in hand and answers for alone is what the disk holds.
InHandIsCurrent ==
  \A t \in Ending : work[t].pc \in InHand /\ work[t].path \in due[t] =>
    work[t].src = disk[work[t].path]

\* The file is up to date, or the sweep has yet to come to it or to record it.
Swept(p, t) ==
  \/ oid[p] = disk[p]
  \/ p \in work[t].todo
  \/ work[t].pc \in InHand \ {"place"} /\ work[t].path = p

Sweeping ==
  /\ InHandIsCurrent
  /\ \A t \in Ending : work[t].pc # "idle" => \A p \in due[t] : Swept(p, t)

\* A sweep never leaves behind a file it answers for.
LEMMA SweepingStep ==
  ASSUME Typed, Sweeping, [IngestNext]_ingestVars
  PROVE  Sweeping'
<1> USE DEF Typed
<1>a. ASSUME UNCHANGED <<work, due, disk, oid>>
      PROVE  Sweeping'
  BY <1>a DEF Sweeping, InHandIsCurrent, Swept
<1>b. ASSUME NEW w \in Worker, NEW s, Go(w, s),
             \A v \in Worker : due'[v] \subseteq due[v],
             UNCHANGED disk,
             \A v \in Worker : v # w => \A p \in due'[v] : oid'[p] = oid[p],
             w \in Ending =>
               /\ s.pc \in InHand /\ s.path \in due'[w] => s.src = disk[s.path]
               /\ s.pc # "idle" => \A p \in due'[w] :
                    \/ oid'[p] = disk[p]
                    \/ p \in s.todo
                    \/ s.pc \in InHand \ {"place"} /\ s.path = p
      PROVE  Sweeping'
  <2>1. work'[w] = s /\ \A v \in Worker : v # w => work'[v] = work[v]
    BY <1>b, Turned
  <2>2. InHandIsCurrent'
    <3> SUFFICES ASSUME NEW t \in Ending, work'[t].pc \in InHand, work'[t].path \in due'[t]
                 PROVE  work'[t].src = disk'[work'[t].path]
      BY DEF InHandIsCurrent
    <3>1. CASE t = w
      BY <3>1, <2>1, <1>b
    <3>2. CASE t # w
      BY <3>2, <2>1, <1>b, WorkersAre DEF Sweeping, InHandIsCurrent
    <3> QED BY <3>1, <3>2
  <2>3. ASSUME NEW t \in Ending, work'[t].pc # "idle", NEW p \in due'[t]
        PROVE  Swept(p, t)'
    <3>1. CASE t = w
      BY <3>1, <2>1, <2>3, <1>b DEF Swept
    <3>2. CASE t # w
      BY <3>2, <2>1, <2>3, <1>b, WorkersAre DEF Sweeping, Swept
    <3> QED BY <3>1, <3>2
  <2> QED BY <2>2, <2>3 DEF Sweeping
<1>1. ASSUME NEW p \in Path, NEW c \in Source \union {Absent}, Change(p, c)
      PROVE  Sweeping'
  <2>1. /\ \A v \in Worker : due'[v] = due[v] \ {p}
        /\ \A q \in Path : q # p => disk'[q] = disk[q]
        /\ UNCHANGED <<oid, work>>
    BY <1>1 DEF Change, storeVars, IngestTypeOK
  <2>2. \A v \in Worker : due[v] \subseteq Path
    BY DEF IngestTypeOK
  <2> QED BY <2>1, <2>2, WorkersAre DEF Sweeping, InHandIsCurrent, Swept
<1>2. CASE OpenRepository
  BY <1>2, <1>b, WorkersAre DEF OpenRepository, storeVars, history
<1>3. ASSUME NEW t \in Ending, NEW wrote \in SUBSET Path, EndTurn(t, wrote)
      PROVE  Sweeping'
  <2> DEFINE todo == wrote \union {p \in Listed : oid[p] # Absent}
  <2>1. /\ Go(t, [pc |-> "next", todo |-> todo]) /\ due' = [due EXCEPT ![t] = todo]
        /\ UNCHANGED <<disk, oid>> /\ t \in Worker
    BY <1>3, WorkersAre DEF EndTurn, storeVars
  <2> HIDE DEF todo
  <2>2. /\ work'[t] = [pc |-> "next", todo |-> todo] /\ due'[t] = todo
        /\ \A v \in Worker : v # t => work'[v] = work[v] /\ due'[v] = due[v]
    BY <2>1, Turned DEF IngestTypeOK
  <2>3. work'[t].pc \notin InHand /\ work'[t].todo = todo
    BY <2>2 DEF InHand
  <2>4. InHandIsCurrent'
    BY <2>1, <2>2, <2>3, WorkersAre DEF Sweeping, InHandIsCurrent
  <2>5. ASSUME NEW v \in Ending, work'[v].pc # "idle", NEW p \in due'[v]
        PROVE  Swept(p, v)'
    <3>1. CASE v = t
      BY <3>1, <2>2, <2>3, <2>5 DEF Swept
    <3>2. CASE v # t
      BY <3>2, <2>1, <2>2, <2>5, WorkersAre DEF Sweeping, Swept
    <3> QED BY <3>1, <3>2
  <2> QED BY <2>4, <2>5 DEF Sweeping
<1>4. ASSUME NEW p \in Path, SkipHeld(p)
      PROVE  Sweeping'
  BY <1>4, <1>b, WorkersAre DEF SkipHeld, storeVars, history
<1>5. ASSUME NEW w \in Worker, NEW p \in Path, ReadSource(w, p)
      PROVE  Sweeping'
  <2> DEFINE s == [pc |-> IF disk[p] # Absent THEN "check" ELSE "gone",
                   todo |-> work[w].todo \ {p}, path |-> p, src |-> disk[p]]
  <2>1. UNCHANGED <<disk, oid, due>> /\ work[w].pc = "next"
    BY <1>5 DEF ReadSource, storeVars, history
  <2>2. CASE disk[p] = Absent /\ w = Opening
    BY <1>5, <2>1, <2>2, <1>b, WorkersAre DEF ReadSource
  <2>3. CASE ~(disk[p] = Absent /\ w = Opening)
    <3>1. Go(w, s)
      BY <1>5, <2>3 DEF ReadSource
    <3>2. s.pc \in InHand \ {"place"} /\ s.path = p /\ s.src = disk[p] /\ s.todo = work[w].todo \ {p}
      BY DEF InHand
    <3> HIDE DEF s
    <3>3. w \in Ending => \A q \in due[w] : oid[q] = disk[q] \/ q \in work[w].todo
      BY <2>1 DEF Sweeping, Swept, InHand
    <3> QED BY <1>b, <2>1, <3>1, <3>2, <3>3
  <2> QED BY <2>2, <2>3
<1>c. ASSUME NEW w \in Worker, Onward(w), work[w].pc \in InHand,
             \A v \in Worker : due'[v] \subseteq due[v],
             UNCHANGED disk,
             \A v \in Worker : v # w => \A p \in due'[v] : oid'[p] = oid[p],
             w \in Ending => \A p \in due'[w] : oid'[p] = disk[p] \/ (p # work[w].path /\ oid'[p] = oid[p])
      PROVE  Sweeping'
  <2>1. Go(w, [pc |-> "next", todo |-> work[w].todo])
    BY <1>c DEF Onward
  <2>2. ASSUME w \in Ending, NEW p \in due'[w]
        PROVE  oid'[p] = disk[p] \/ p \in work[w].todo
    <3>1. Swept(p, w)
      BY <1>c, <2>2 DEF Sweeping, InHand
    <3> QED BY <1>c, <2>2, <3>1 DEF Swept
  <2>3. "next" \notin InHand
    BY DEF InHand
  <2> QED BY <1>c, <1>b, <2>1, <2>2, <2>3
<1>d. ASSUME NEW w \in Worker, NEW pc \in {"fetch", "record", "place"}, Step(w, pc), work[w].pc \in InHand \ {"place"},
             \A v \in Worker : due'[v] \subseteq due[v],
             UNCHANGED disk,
             \A v \in Worker : v # w => \A p \in due'[v] : oid'[p] = oid[p],
             w \in Ending => \A p \in due'[w] :
               \/ oid'[p] = disk[p]
               \/ oid'[p] = oid[p] /\ (pc = "place" => p # work[w].path)
      PROVE  Sweeping'
  <2> DEFINE s == [pc |-> pc, todo |-> work[w].todo, path |-> work[w].path, src |-> work[w].src]
  <2>1. Go(w, s)
    BY <1>d DEF Step
  <2>2. /\ s.pc = pc /\ s.todo = work[w].todo /\ s.path = work[w].path /\ s.src = work[w].src
        /\ pc \in InHand /\ (pc # "place" => pc \in InHand \ {"place"})
    BY DEF InHand
  <2> HIDE DEF s
  <2>3. w \in Ending /\ s.path \in due'[w] => s.src = disk[s.path]
    BY <1>d, <2>2 DEF Sweeping, InHandIsCurrent
  <2>4. ASSUME w \in Ending, NEW p \in due'[w]
        PROVE  \/ oid'[p] = disk[p]
               \/ p \in s.todo
               \/ s.pc \in InHand \ {"place"} /\ s.path = p
    <3>1. Swept(p, w)
      BY <1>d, <2>4 DEF Sweeping, InHand
    <3> QED BY <1>d, <2>2, <2>4, <3>1 DEF Swept
  <2> QED BY <1>d, <1>b, <2>1, <2>3, <2>4
<1>6. ASSUME NEW w \in Worker, DropGone(w)
      PROVE  Sweeping'
  <2> DEFINE p == work[w].path
  <2>1. /\ work[w].pc = "gone" /\ "gone" \in InHand /\ p \in Path /\ work[w].src = Absent
        /\ Onward(w) /\ UNCHANGED disk
    BY <1>6 DEF DropGone, IngestTypeOK, WorkerOK, InHand
  <2>2. w \in Ending /\ p \in due[w] => disk[p] = Absent
    BY <2>1 DEF Sweeping, InHandIsCurrent
  <2>3. CASE oid[p] # Absent
    <3>1. drop_file(p) /\ Disturbs(w, p)
      BY <1>6, <2>3 DEF DropGone
    <3>2. /\ oid'[p] = Absent /\ \A q \in Path : q # p => oid'[q] = oid[q]
          /\ \A v \in Worker : due'[v] = IF v = w THEN due[v] ELSE due[v] \ {p}
      BY <3>1, <2>1 DEF drop_file, Disturbs, Shares, IngestTypeOK
    <3>3. \A v \in Worker : due[v] \subseteq Path
      BY DEF IngestTypeOK
    <3> HIDE DEF p
    <3>4. \A v \in Worker : v # w => \A q \in due'[v] : oid'[q] = oid[q]
      BY <3>2, <3>3
    <3>5. w \in Ending => \A q \in due'[w] : oid'[q] = disk[q] \/ (q # p /\ oid'[q] = oid[q])
      BY <3>2, <3>3, <2>2
    <3>6. \A v \in Worker : due'[v] \subseteq due[v]
      BY <3>2
    <3> QED BY <1>c, <2>1, <3>4, <3>5, <3>6 DEF p
  <2>4. CASE oid[p] = Absent
    <3>1. UNCHANGED <<oid, due>>
      BY <1>6, <2>4 DEF DropGone, storeVars, history
    <3> QED BY <1>c, <2>1, <2>2, <2>4, <3>1
  <2> QED BY <2>3, <2>4
<1>7. ASSUME NEW w \in Worker, CheckOid(w)
      PROVE  Sweeping'
  <2>1. UNCHANGED <<disk, oid, due>> /\ work[w].pc = "check" /\ "check" \in InHand \ {"place"}
    BY <1>7 DEF CheckOid, storeVars, history, InHand
  <2>2. CASE oid[work[w].path] = work[w].src
    <3>1. w \in Ending /\ work[w].path \in due[w] => oid[work[w].path] = disk[work[w].path]
      BY <2>1, <2>2 DEF Sweeping, InHandIsCurrent
    <3>2. Onward(w)
      BY <1>7, <2>2 DEF CheckOid
    <3> QED BY <1>c, <2>1, <3>1, <3>2
  <2>3. CASE oid[work[w].path] # work[w].src
    <3>1. Step(w, "fetch")
      BY <1>7, <2>3 DEF CheckOid
    <3> QED BY <1>d, <2>1, <3>1
  <2> QED BY <2>2, <2>3
<1>8. ASSUME NEW w \in Worker, FetchStored(w)
      PROVE  Sweeping'
  <2> DEFINE s == [pc |-> "replace", todo |-> work[w].todo, path |-> work[w].path,
                   src |-> work[w].src, stored |-> code[work[w].path]]
  <2>1. /\ UNCHANGED <<disk, oid, due>> /\ work[w].pc = "fetch" /\ "fetch" \in InHand \ {"place"}
        /\ Go(w, s)
    BY <1>8 DEF FetchStored, storeVars, history, InHand
  <2>2. /\ s.pc \in InHand \ {"place"} /\ s.todo = work[w].todo /\ s.path = work[w].path
        /\ s.src = work[w].src
    BY DEF InHand
  <2> HIDE DEF s
  <2>3. w \in Ending => \A q \in due[w] : oid[q] = disk[q] \/ q \in s.todo \/ s.path = q
    BY <2>1, <2>2 DEF Sweeping, Swept
  <2>4. w \in Ending /\ s.path \in due[w] => s.src = disk[s.path]
    BY <2>1, <2>2 DEF Sweeping, InHandIsCurrent
  <2> QED BY <1>b, <2>1, <2>2, <2>3, <2>4
<1>9. ASSUME NEW w \in Worker, ReplaceFile(w)
      PROVE  Sweeping'
  <2>1. /\ UNCHANGED <<disk, oid>> /\ work[w].pc = "replace" /\ "replace" \in InHand \ {"place"}
        /\ Step(w, "record") /\ Disturbs(w, work[w].path)
    BY <1>9 DEF ReplaceFile, InHand
  <2>2. \A v \in Worker : due'[v] \subseteq due[v]
    BY <2>1 DEF Disturbs, Shares
  <2> QED BY <1>d, <2>1, <2>2
<1>10. ASSUME NEW w \in Worker, IngestFails(w)
       PROVE  Sweeping'
  <2>1. /\ UNCHANGED <<disk, oid>> /\ work[w].pc = "replace" /\ "replace" \in InHand
        /\ Onward(w)
    BY <1>10 DEF IngestFails, storeVars, InHand
  <2>2. \A v \in Worker : due'[v] = IF v = w THEN due[v] \ {work[w].path} ELSE due[v]
    BY <1>10 DEF IngestFails, IngestTypeOK
  <2> QED BY <1>c, <2>1, <2>2
<1>11. ASSUME NEW w \in Worker, RecordOid(w)
       PROVE  Sweeping'
  <2> DEFINE p == work[w].path
  <2>1. /\ UNCHANGED disk /\ work[w].pc = "record" /\ "record" \in InHand \ {"place"}
        /\ p \in Path
        /\ oid' = [oid EXCEPT ![p] = work[w].src]
        /\ Shares(w, p)
        /\ Onward(w) \/ Step(w, "place")
    BY <1>11 DEF RecordOid, IngestTypeOK, WorkerOK, InHand
  <2>2. /\ oid'[p] = work[w].src /\ \A q \in Path : q # p => oid'[q] = oid[q]
        /\ \A v \in Worker : due'[v] = IF v = w THEN due[v] ELSE due[v] \ {p}
    BY <2>1 DEF Shares, IngestTypeOK
  <2>3. \A v \in Worker : due[v] \subseteq Path /\ due'[v] \subseteq due[v]
    BY <2>2 DEF IngestTypeOK
  <2>4. w \in Ending /\ p \in due[w] => oid'[p] = disk[p]
    BY <2>1, <2>2 DEF Sweeping, InHandIsCurrent
  <2> HIDE DEF p
  <2>5. \A v \in Worker : v # w => \A q \in due'[v] : oid'[q] = oid[q]
    BY <2>2, <2>3
  <2>6. w \in Ending => \A q \in due'[w] : oid'[q] = disk[q] \/ (q # p /\ oid'[q] = oid[q])
    BY <2>2, <2>3, <2>4
  <2>7. CASE Onward(w)
    BY <1>c, <2>1, <2>3, <2>5, <2>6, <2>7 DEF p
  <2>8. CASE Step(w, "place")
    BY <1>d, <2>1, <2>3, <2>5, <2>6, <2>8 DEF p
  <2> QED BY <2>1, <2>7, <2>8
<1>12. ASSUME NEW w \in Worker, PlaceFile(w)
       PROVE  Sweeping'
  <2>1. /\ UNCHANGED <<disk, oid, due>> /\ work[w].pc = "place" /\ Onward(w)
    BY <1>12 DEF PlaceFile, history
  <2>2. w \in Ending => \A q \in due[w] : oid[q] = disk[q] \/ q \in work[w].todo
    BY <2>1 DEF Sweeping, Swept
  <2>3. Go(w, [pc |-> "next", todo |-> work[w].todo]) /\ "next" \notin InHand
    BY <2>1 DEF Onward, InHand
  <2> QED BY <1>b, <2>1, <2>2, <2>3
<1>13. ASSUME NEW w \in Worker, Finish(w)
       PROVE  Sweeping'
  <2>1. UNCHANGED <<disk, oid, due>> /\ Go(w, IF w = Opening THEN [pc |-> "done"] ELSE Idle)
    BY <1>13 DEF Finish, storeVars, history
  <2>2. w \in Ending => Go(w, Idle) /\ Idle.pc = "idle" /\ "idle" \notin InHand
    BY <2>1, WorkersAre DEF Idle, InHand
  <2>3. CASE w \in Ending
    BY <1>b, <2>1, <2>2, <2>3
  <2>4. CASE w \notin Ending
    BY <1>b, <2>1, <2>4
  <2> QED BY <2>3, <2>4
<1>14. ASSUME NEW r \in Reader, NEW p \in Path, ReadDisk(r, p)
       PROVE  Sweeping'
  BY <1>14, <1>a DEF ReadDisk, storeVars, history
<1>15. ASSUME NEW r \in Reader, CheckFresh(r)
       PROVE  Sweeping'
  BY <1>15, <1>a DEF CheckFresh, storeVars, history
<1>16. ASSUME NEW r \in Reader, ServeFromGraph(r)
       PROVE  Sweeping'
  BY <1>16, <1>a DEF ServeFromGraph, storeVars, history
<1>17. CASE Die
  <2>1. \A w \in Worker : work'[w].pc = "idle"
    BY <1>17 DEF Die, Idle
  <2> QED BY <2>1, WorkersAre DEF Sweeping, InHandIsCurrent, InHand
<1>18. CASE UNCHANGED ingestVars
  BY <1>18, <1>a DEF ingestVars, storeVars, history
<1> QED BY <1>1, <1>2, <1>3, <1>4, <1>5, <1>6, <1>7, <1>8, <1>9, <1>10, <1>11, <1>12, <1>13,
           <1>14, <1>15, <1>16, <1>17, <1>18 DEF IngestNext

\* Only a sweep with nothing left comes to its end.
LEMMA SweepEnds ==
  ASSUME Typed, Sweeping, [IngestNext]_ingestVars
  PROVE  \A t \in Ending : work[t].pc = "next" /\ work'[t] = Idle /\ UNCHANGED used
           => \A p \in due[t] : oid[p] = disk[p]
<1> SUFFICES ASSUME NEW t \in Ending, work[t].pc = "next", work'[t] = Idle, UNCHANGED used,
                    NEW p \in due[t]
             PROVE  oid[p] = disk[p]
  OBVIOUS
<1> USE DEF Typed
<1>1. work'[t] # work[t] /\ work'[t].pc = "idle"
  BY DEF Idle
<1>2. t \in Worker /\ t # Opening
  BY WorkersAre
<1>3. ASSUME work[t].todo = {}
      PROVE  oid[p] = disk[p]
  BY <1>3 DEF Sweeping, Swept, InHand
<1>4. ~Die
  <2>1. Die => used'.deaths = used.deaths + 1
    BY DEF Die, Spend, IngestTypeOK
  <2>2. used.deaths \in Nat
    BY DEF IngestTypeOK
  <2> QED BY <2>1, <2>2
<1>5. \A w \in Worker : \A s : Go(w, s) => t # w \/ work'[t] = s
  BY Turned
<1>6. \A w \in Worker : \A s : Go(w, s) => t = w
  BY <1>1, <1>2, Turned
<1>7. \A s : Go(t, s) => s.pc = "idle"
  BY <1>1, <1>2, Turned
<1>8. ASSUME NEW w \in Worker, Finish(w)
      PROVE  oid[p] = disk[p]
  <2>1. \E s : Go(w, s)
    BY <1>8 DEF Finish
  <2>2. work[t] = [pc |-> "next", todo |-> {}]
    BY <1>8, <2>1, <1>6 DEF Finish
  <2> QED BY <2>2, <1>3
<1>9. \A w \in Worker : ~Onward(w) /\ (\A pc : ~Step(w, pc) \/ pc = "idle")
  <2>1. ASSUME NEW w \in Worker, Onward(w)
        PROVE  FALSE
    BY <2>1, <1>6, <1>7 DEF Onward
  <2>2. ASSUME NEW w \in Worker, NEW pc, Step(w, pc), pc # "idle"
        PROVE  FALSE
    BY <2>2, <1>6, <1>7 DEF Step
  <2> QED BY <2>1, <2>2
<1>10. ASSUME NEW p2 \in Path, NEW c \in Source \union {Absent}, Change(p2, c)
       PROVE  FALSE
  BY <1>10, <1>1 DEF Change
<1>11. ASSUME OpenRepository
       PROVE  FALSE
  BY <1>11, <1>2, <1>6, WorkersAre DEF OpenRepository
<1>12. ASSUME NEW u \in Ending, NEW wrote \in SUBSET Path, EndTurn(u, wrote)
       PROVE  FALSE
  BY <1>12, <1>6, WorkersAre DEF EndTurn, Idle
<1>13. ASSUME NEW q \in Path, SkipHeld(q)
       PROVE  FALSE
  BY <1>13, <1>2, <1>6, WorkersAre DEF SkipHeld
<1>14. ASSUME NEW w \in Worker, NEW q \in Path, ReadSource(w, q)
       PROVE  FALSE
  <2>1. \E s : Go(w, s) /\ s.pc # "idle"
    BY <1>14 DEF ReadSource
  <2> QED BY <2>1, <1>6, <1>7
<1>15. ASSUME NEW w \in Worker,
              DropGone(w) \/ CheckOid(w) \/ ReplaceFile(w) \/ IngestFails(w) \/ RecordOid(w) \/ PlaceFile(w)
       PROVE  FALSE
  BY <1>15, <1>9 DEF DropGone, CheckOid, ReplaceFile, IngestFails, RecordOid, PlaceFile
<1>16. ASSUME NEW w \in Worker, FetchStored(w)
       PROVE  FALSE
  BY <1>16, <1>6, <1>7 DEF FetchStored
<1>17. ASSUME NEW r \in Reader, NEW q \in Path, ReadDisk(r, q) \/ CheckFresh(r) \/ ServeFromGraph(r)
       PROVE  FALSE
  BY <1>17, <1>1 DEF ReadDisk, CheckFresh, ServeFromGraph
<1>18. ASSUME NEW r \in Reader, CheckFresh(r) \/ ServeFromGraph(r)
       PROVE  FALSE
  BY <1>18, <1>1 DEF CheckFresh, ServeFromGraph
<1>19. ASSUME UNCHANGED ingestVars
       PROVE  FALSE
  BY <1>19, <1>1 DEF ingestVars
<1> QED BY <1>4, <1>8, <1>10, <1>11, <1>12, <1>13, <1>14, <1>15, <1>16, <1>17, <1>18, <1>19
        DEF IngestNext

-----------------------------------------------------------------------------
(* The comments.                                                           *)

\* The node with key k of the file holds its i-th comment.
Holds(p, i, k) ==
  \E n \in DOMAIN code[p] : code[p][n].order = k /\ code[p][n].text = notes[p][i]

EachBound ==
  /\ \A e \in bound : e[1] \in Path
  /\ CommentsStayBound

\* A replaced file's edges join its new notes and nodes; other files keep theirs.
LEMMA EachBoundStep ==
  ASSUME Typed, EachBound, [IngestNext]_ingestVars
  PROVE  EachBound'
<1> USE DEF Typed
<1>1. CASE UNCHANGED <<code, notes, bound>>
  BY <1>1 DEF EachBound, CommentsStayBound
<1>2. ASSUME NEW p \in Path,
             \A q \in Path : q # p => code'[q] = code[q] /\ notes'[q] = notes[q],
             NEW new, \A e \in new : e[1] = p,
             NEW kept, kept \subseteq {e \in bound : e[1] = p},
             bound' = {e \in bound : e[1] # p} \union kept \union new,
             \A i \in DOMAIN notes'[p] : \E e \in new : e[2] = i /\ Holds(p, i, e[3])',
             \A e \in kept \union new :
               e[2] \in DOMAIN notes'[p] /\ \E n \in DOMAIN code'[p] : code'[p][n].order = e[3]
      PROVE  EachBound'
  <2>1. \A e \in bound' : e[1] \in Path
    BY <1>2 DEF EachBound
  <2>2. ASSUME NEW q \in Path, NEW i \in DOMAIN notes'[q]
        PROVE  \E e \in bound' : e[1] = q /\ e[2] = i /\ Holds(q, i, e[3])'
    <3>1. CASE q = p
      BY <1>2, <2>2, <3>1
    <3>2. CASE q # p
      <4>1. i \in DOMAIN notes[q] /\ code'[q] = code[q] /\ notes'[q] = notes[q]
        BY <1>2, <2>2, <3>2
      <4>2. PICK e \in bound : e[1] = q /\ e[2] = i /\ Holds(q, i, e[3])
        BY <4>1 DEF EachBound, CommentsStayBound, Holds
      <4>3. e \in bound'
        BY <1>2, <3>2, <4>2
      <4>4. Holds(q, i, e[3])'
        BY <4>1, <4>2 DEF Holds
      <4> QED BY <4>2, <4>3, <4>4
    <3> QED BY <3>1, <3>2
  <2>3. ASSUME NEW e \in bound'
        PROVE  /\ e[2] \in DOMAIN notes'[e[1]]
               /\ \E n \in DOMAIN code'[e[1]] : code'[e[1]][n].order = e[3]
    <3>1. CASE e \in kept \union new
      <4>1. e[1] = p
        BY <1>2, <3>1
      <4> QED BY <1>2, <3>1, <4>1
    <3>2. CASE e \notin kept \union new
      <4>1. e \in bound /\ e[1] # p /\ e[1] \in Path
        BY <1>2, <2>3, <3>2 DEF EachBound
      <4>2. code'[e[1]] = code[e[1]] /\ notes'[e[1]] = notes[e[1]]
        BY <1>2, <4>1
      <4> QED BY <4>1, <4>2 DEF EachBound, CommentsStayBound
    <3> QED BY <3>1, <3>2
  <2> QED BY <2>1, <2>2, <2>3 DEF EachBound, CommentsStayBound, Holds
<1>3. ASSUME NEW w \in Worker, DropGone(w)
      PROVE  EachBound'
  <2>1. CASE oid[work[w].path] = Absent
    BY <1>1, <1>3, <2>1 DEF DropGone, storeVars
  <2>2. CASE oid[work[w].path] # Absent
    <3> DEFINE p == work[w].path
    <3>1. p \in Path
      BY <1>3 DEF DropGone, IngestTypeOK, WorkerOK, InHand
    <3>2. drop_file(p)
      BY <1>3, <2>2 DEF DropGone
    <3>3. /\ \A q \in Path : q # p => code'[q] = code[q] /\ notes'[q] = notes[q]
          /\ notes'[p] = <<>> /\ bound' = {e \in bound : e[1] # p} \union {} \union {}
      BY <3>1, <3>2 DEF drop_file, IngestTypeOK
    <3>4. \A i \in DOMAIN notes'[p] : FALSE
      BY <3>3
    <3> HIDE DEF p
    <3> QED BY <3>1, <3>3, <3>4, <1>2
  <2> QED BY <2>1, <2>2
<1>4. ASSUME NEW w \in Worker, ReplaceFile(w)
      PROVE  EachBound'
  <2>1. PICK p, c, had :
          /\ p \in Path /\ c \in Source
          /\ Keyed(had)
          /\ replace_file(p, reconcile(had, c), c)
    BY <1>4 DEF ReplaceFile, IngestTypeOK, WorkerOK, InHand
  <2> DEFINE cs == CommentsOf(c)
             node == reconcile(had, c).nodes
             keys == {node[i].order : i \in DOMAIN node}
             kept == {e \in bound : e[1] = p /\ e[2] \in DOMAIN cs /\ e[3] \in keys}
             new == {<<p, i, node[cs[i]].order>> : i \in DOMAIN cs}
  <2>2. /\ \A q \in Path : q # p => code'[q] = code[q] /\ notes'[q] = notes[q]
        /\ \A i \in DOMAIN c : i \in DOMAIN code'[p] /\ code'[p][i].text = c[i].text
        /\ notes'[p] = [i \in DOMAIN CommentsOf(c) |-> c[CommentsOf(c)[i]].text]
    BY <2>1, ReplacedWhole
  <2>3. code'[p] = node
    BY <2>1 DEF replace_file, IngestTypeOK
  <2>4. bound' = {e \in bound : e[1] # p} \union kept \union new
    BY <2>1 DEF replace_file
  <2>5. \A i \in DOMAIN cs : cs[i] \in DOMAIN c
    BY <2>1, CommentsInOrder
  <2>6. DOMAIN notes'[p] = DOMAIN cs /\ \A i \in DOMAIN cs : notes'[p][i] = c[cs[i]].text
    BY <2>2
  <2> HIDE DEF node, cs
  <2>7. ASSUME NEW i \in DOMAIN notes'[p]
        PROVE  \E e \in new : e[2] = i /\ Holds(p, i, e[3])'
    <3>1. /\ i \in DOMAIN cs /\ cs[i] \in DOMAIN code'[p]
          /\ code'[p][cs[i]].text = notes'[p][i] /\ code'[p][cs[i]].order = node[cs[i]].order
      BY <2>2, <2>3, <2>5, <2>6
    <3>2. Holds(p, i, node[cs[i]].order)'
      BY <3>1 DEF Holds
    <3>3. <<p, i, node[cs[i]].order>> \in new
      BY <3>1
    <3> QED BY <3>2, <3>3
  <2>8. ASSUME NEW e \in kept \union new
        PROVE  e[2] \in DOMAIN notes'[p] /\ \E n \in DOMAIN code'[p] : code'[p][n].order = e[3]
    <3>1. CASE e \in kept
      BY <3>1, <2>3, <2>6
    <3>2. CASE e \in new
      <4>1. PICK i \in DOMAIN cs : e = <<p, i, node[cs[i]].order>>
        BY <3>2
      <4>2. cs[i] \in DOMAIN code'[p]
        BY <2>2, <2>5
      <4> QED BY <4>1, <4>2, <2>3, <2>6
    <3> QED BY <3>1, <3>2
  <2>9. kept \subseteq {e \in bound : e[1] = p} /\ \A e \in new : e[1] = p
    OBVIOUS
  <2> HIDE DEF kept, new
  <2> QED BY <2>1, <2>2, <2>4, <2>7, <2>8, <2>9, <1>2
<1> QED BY <1>1, <1>3, <1>4
        DEF IngestNext, Change, OpenRepository, EndTurn, SkipHeld, ReadSource, CheckOid,
            FetchStored, IngestFails, RecordOid, PlaceFile, Finish, ReadDisk, CheckFresh,
            ServeFromGraph, Die, ingestVars, storeVars, history

-----------------------------------------------------------------------------
(* The invariant.                                                          *)

IngestInv == Typed /\ Matched /\ ServedIsCurrent /\ Sweeping /\ EachBound

\* It holds of an empty store.
LEMMA IngestInvInit == IngestInit => IngestInv
<1> SUFFICES ASSUME IngestInit
             PROVE  IngestInv
  OBVIOUS
<1> USE DEF IngestInit
<1>1. \A p \in Path : Keyed(code[p]) /\ IsSeq(notes[p])
  BY EmptyWhole
<1>2. WorkerOK(Idle) /\ ReaderOK(Idle)
  BY DEF WorkerOK, ReaderOK, Idle, InHand
<1>3. Typed
  BY <1>1, <1>2 DEF Typed, IngestTypeOK, NotesAreWhole
<1>4. Matched
  BY DEF Matched, RecordMatchesNodes, RecordsItsOwn, Idle
<1>5. ServedIsCurrent
  BY DEF ServedIsCurrent
<1>6. Sweeping
  BY WorkersAre DEF Sweeping, InHandIsCurrent, InHand, Idle
<1>7. EachBound
  BY DEF EachBound, CommentsStayBound
<1> QED BY <1>3, <1>4, <1>5, <1>6, <1>7 DEF IngestInv

\* The parts hold together in every state.
LEMMA IngestInvHolds == IngestSpec => []IngestInv
<1>1. IngestInv /\ [IngestNext]_ingestVars => IngestInv'
  BY TypedStep, MatchedStep, ServedStep, SweepingStep, EachBoundStep DEF IngestInv
<1> QED BY <1>1, IngestInvInit, PTL DEF IngestSpec

\* A file's nodes compose to the content on its record, whatever ingests
\* overlapped, unless the two were written apart.
THEOREM RecordMatchesNodesHolds == IngestSpec => []RecordMatchesNodes
<1>1. IngestInv => RecordMatchesNodes
  BY DEF IngestInv, Matched
<1> QED BY <1>1, IngestInvHolds, PTL

\* A read answered from the graph is the content the reader found on disk.
THEOREM ServedIsCurrentHolds == IngestSpec => []ServedIsCurrent
<1>1. IngestInv => ServedIsCurrent
  BY DEF IngestInv
<1> QED BY <1>1, IngestInvHolds, PTL

\* Every comment is bound to the node that holds it and no edge dangles,
\* however often a file is ingested.
THEOREM CommentsStayBoundHolds == IngestSpec => []CommentsStayBound
<1>1. IngestInv => CommentsStayBound
  BY DEF IngestInv, EachBound
<1> QED BY <1>1, IngestInvHolds, PTL

\* A turn's end leaves no file it answers for behind.
THEOREM SweepCatchesUpHolds == IngestSpec => SweepCatchesUp
<1>1. IngestInv /\ [IngestNext]_ingestVars =>
        [\A t \in Ending : work[t].pc = "next" /\ work'[t] = Idle /\ UNCHANGED used
           => \A p \in due[t] : oid[p] = disk[p]]_ingestVars
  BY SweepEnds DEF IngestInv
<1> QED BY <1>1, IngestInvHolds, PTL DEF IngestSpec, SweepCatchesUp

=============================================================================
