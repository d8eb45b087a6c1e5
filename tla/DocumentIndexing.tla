-------------------------- MODULE DocumentIndexing --------------------------
(***************************************************************************)
(* Uploaded documents and their search index: documents.py, chunk_store.py, *)
(* chunk_enrichment.py and the indexing worker (indexing_worker.py) of the  *)
(* leading process.                                                        *)
(*                                                                         *)
(* A document is checked, read (which awaits a thread and a vision model)   *)
(* and stored as a row; the worker then takes one pending row after the     *)
(* other, awaits a summary, context notes and vectors, and writes the       *)
(* chunks.  People delete documents, queue them again, delete the knowledge *)
(* base around them and choose another embedding model at any moment.       *)
(*                                                                         *)
(* The text of a document never changes, so the chunks of a unit are one    *)
(* value: absent, "plain" (keyword search only) or embedded by a model.     *)
(***************************************************************************)
EXTENDS Integers, FiniteSets

CONSTANTS Doc,            \* document ids
          InBase,         \* the documents uploaded to the knowledge base
          Model,          \* embedding models an owner can choose
          MaxAttempts,    \* MAX_ATTEMPTS
          MaxDocFaults,   \* bound: failed calls and ends of the process
          MaxDocOps       \* bound: re-index requests and changes of the model

ASSUME DocAssumption ==
    /\ {"none", "plain", "no model"} \cap Model = {} /\ "none" \notin Doc
    /\ MaxAttempts \in Nat /\ MaxAttempts > 0 /\ MaxDocFaults \in Nat /\ MaxDocOps \in Nat

VARIABLES docs,      \* KnowledgeDocumentRow of every document
          units,     \* KnowledgeChunkRow of every document: its chunks
          base,      \* the knowledge base exists
          uploads,   \* documents whose text is being read
          worker,    \* index_document under way, between its awaits
          filling,   \* _backfill under way: [model, units] it read, or Resting
          attempts,  \* IndexingWorker._attempts
          model,     \* default of the embeddings capability
          stray,     \* history: units a process left when it ended
          purged,    \* history: units an index purge took and no run made again
          docFaults, docOps

docVars == <<docs, units, base, uploads, worker, filling, attempts, model, stray, purged, docFaults, docOps>>

NoModel == "no model"
NoRow   == [st |-> "none", sum |-> FALSE, err |-> FALSE]
AtRest  == [pc |-> "rest", doc |-> "none", sum |-> FALSE, emb |-> NoModel]
Resting == [model |-> NoModel, units |-> {}]

Exists(d)  == docs[d].st \notin {"none", "deleted"}
Vectors    == Model \cup {NoModel}
Unit       == {"none", "plain"} \cup Model
DocStatus  == {"none", "deleted", "pending", "processing", "indexed", "failed"}
DocumentRow == [st : DocStatus, sum : BOOLEAN, err : BOOLEAN]
Searchable == {d \in Doc : units[d] # "none"}

DocTypeOK ==
    /\ docs \in [Doc -> DocumentRow]
    /\ units \in [Doc -> Unit]
    /\ base \in BOOLEAN /\ uploads \subseteq Doc /\ stray \cup purged \subseteq Doc
    /\ worker \in [pc : {"rest", "summary", "sync", "save", "mark"}, doc : Doc \cup {"none"},
                   sum : BOOLEAN, emb : Vectors]
    /\ filling \in [model : Vectors, units : SUBSET Doc]
    /\ attempts \in [Doc -> 0..MaxAttempts] /\ model \in Vectors
    /\ \A d \in Doc : Exists(d) => attempts[d] < MaxAttempts
    /\ docFaults \in 0..MaxDocFaults /\ docOps \in 0..MaxDocOps

-----------------------------------------------------------------------------
(***************************************************************************)
(* Plausible bugs, see PROJECT.json                                        *)
(***************************************************************************)
LeavesTheChunks(d) == UNCHANGED units
KeepsOldVectors(m, d) == units[d] = "plain"
LeavesThemProcessing == UNCHANGED docs
NeverTheLast(d) == FALSE

-----------------------------------------------------------------------------
(***************************************************************************)
(* People                                                                  *)
(***************************************************************************)

\* DocumentService.ingest up to the thread that reads the file
IngestAsk(d) ==
    /\ docs[d].st = "none" /\ d \notin uploads
    /\ d \in InBase => base                       \* _check_scope_target
    /\ uploads' = uploads \cup {d}
    /\ UNCHANGED <<docs, units, base, worker, filling, attempts, model, stray, purged, docFaults, docOps>>

\* The file is read: nothing readable in it, or a new pending row
IngestSave(d) ==
    /\ d \in uploads
    /\ uploads' = uploads \ {d}
    /\ docs' \in {docs, [docs EXCEPT ![d] = [NoRow EXCEPT !.st = "pending"]]}
    /\ UNCHANGED <<units, base, worker, filling, attempts, model, stray, purged, docFaults, docOps>>

Removed(D) == [d \in Doc |-> IF d \in D /\ Exists(d) THEN [NoRow EXCEPT !.st = "deleted"] ELSE docs[d]]

\* DocumentService.delete: the row and its chunks in one transaction
Delete(d) ==
    /\ Exists(d)
    /\ docs' = Removed({d})
    /\ units' = [units EXCEPT ![d] = "none"]
    /\ stray' = stray \ {d}
    /\ UNCHANGED <<base, uploads, worker, filling, attempts, model, docFaults, docOps, purged>>

\* KnowledgeBaseService.delete_base: every chunk and document of its scope
DeleteBase ==
    /\ base /\ base' = FALSE
    /\ docs' = Removed(InBase)
    /\ units' = [d \in Doc |-> IF d \in InBase THEN "none" ELSE units[d]]
    /\ stray' = stray \ InBase
    /\ UNCHANGED <<uploads, worker, filling, attempts, model, docFaults, docOps, purged>>

\* StoragePurgeService: documents by age or by choice
PurgeDocuments(D) ==
    /\ D # {} /\ \A d \in D : Exists(d)
    /\ docs' = Removed(D)
    /\ units' = [d \in Doc |-> IF d \in D THEN "none" ELSE units[d]]
    /\ stray' = stray \ D
    /\ UNCHANGED <<base, uploads, worker, filling, attempts, model, purged, docFaults, docOps>>

\* _queue_reindex
Requested(reindex) == [d \in Doc |-> IF reindex /\ docs[d].st = "indexed" THEN [docs[d] EXCEPT !.st = "pending"]
                                     ELSE docs[d]]

\* The search index alone, made again or not; a document being indexed is not
\* queued, so a purge just before its last transaction leaves it without chunks
PurgeIndex(reindex) ==
    /\ docOps < MaxDocOps /\ docOps' = docOps + 1
    /\ docs' = Requested(reindex)
    /\ units' = [d \in Doc |-> "none"] /\ stray' = {}
    /\ purged' = {d \in Doc : docs'[d].st = "indexed" \/ (worker.pc = "mark" /\ worker.doc = d)}
    /\ UNCHANGED <<base, uploads, worker, filling, attempts, model, docFaults>>

RequestReindex(d) ==
    /\ Exists(d) /\ docOps < MaxDocOps
    /\ docs' = [docs EXCEPT ![d].st = "pending", ![d].err = FALSE]
    /\ docOps' = docOps + 1
    /\ UNCHANGED <<units, base, uploads, worker, filling, attempts, model, stray, purged, docFaults>>

\* An owner chooses another default, or deletes the profile
ChooseModel(m) ==
    /\ m # model /\ docOps < MaxDocOps
    /\ model' = m /\ docOps' = docOps + 1
    /\ UNCHANGED <<docs, units, base, uploads, worker, filling, attempts, stray, purged, docFaults>>

-----------------------------------------------------------------------------
(***************************************************************************)
(* IndexingWorker.index_document                                           *)
(***************************************************************************)

Take(d) ==
    /\ worker = AtRest /\ filling = Resting
    /\ docs[d].st = "pending"                     \* process_documents
    /\ docs' = [docs EXCEPT ![d].st = "processing"]
    /\ worker' = [pc |-> IF docs[d].sum THEN "sync" ELSE "summary",
                  doc |-> d, sum |-> docs[d].sum, emb |-> NoModel]
    /\ UNCHANGED <<units, base, uploads, filling, attempts, model, stray, purged, docFaults, docOps>>

\* _summarize: a provider that cannot answer leaves the document without one
Summarize ==
    /\ worker.pc = "summary"
    /\ \E has \in BOOLEAN : worker' = [worker EXCEPT !.pc = "sync", !.sum = has]
    /\ UNCHANGED <<docs, units, base, uploads, filling, attempts, model, stray, purged, docFaults, docOps>>

\* ChunkStore._sync begins: it reads the route before it awaits the vectors
Embed ==
    /\ worker.pc = "sync"
    /\ worker' = [worker EXCEPT !.pc = "save", !.emb = model]
    /\ UNCHANGED <<docs, units, base, uploads, filling, attempts, model, stray, purged, docFaults, docOps>>

\* What _write stores: without vectors if the provider did not give them
Written == IF worker.emb = NoModel THEN {"plain"} ELSE {"plain", worker.emb}

\* ChunkStore.delete_unit for a document deleted while it was indexed
DropUnit(d) == units' = [units EXCEPT ![d] = "none"]

\* ChunkStore._write: the chunks, whatever became of the row meanwhile
Write ==
    /\ worker.pc = "save"
    /\ \E u \in Written : /\ units' = [units EXCEPT ![worker.doc] = u]
                          /\ worker' = [worker EXCEPT !.pc = "mark",
                                                      !.emb = IF u = "plain" THEN NoModel ELSE u]
    /\ purged' = purged \ {worker.doc}
    /\ UNCHANGED <<docs, base, uploads, filling, attempts, model, stray, docFaults, docOps>>

\* The last transaction of index_document
Mark ==
    LET d == worker.doc
    IN  /\ worker.pc = "mark"
        /\ worker' = AtRest
        /\ attempts' = [attempts EXCEPT ![d] = 0]
        /\ IF Exists(d)
           THEN /\ docs' = IF docs[d].st # "processing" THEN docs
                           ELSE [docs EXCEPT ![d] = [st |-> "indexed", sum |-> worker.sum,
                                                     err |-> worker.emb = NoModel]]
                /\ UNCHANGED units
           ELSE DropUnit(d) /\ UNCHANGED docs
        /\ UNCHANGED <<base, uploads, filling, model, stray, purged, docFaults, docOps>>

LastAttempt(d) == attempts[d] + 1 >= MaxAttempts

\* _failed: whatever the row says meanwhile, it is pending or failed again
Failed ==
    LET d == worker.doc
        final == LastAttempt(d)
    IN  /\ worker.pc \in {"summary", "sync", "save"}
        /\ docFaults < MaxDocFaults /\ docFaults' = docFaults + 1
        /\ worker' = AtRest
        /\ attempts' = [attempts EXCEPT ![d] = IF final /\ Exists(d) THEN 0 ELSE @ + 1]
        /\ docs' = IF ~Exists(d) THEN docs
                   ELSE [docs EXCEPT ![d].st = IF final THEN "failed" ELSE "pending", ![d].err = TRUE]
        /\ UNCHANGED <<units, base, uploads, filling, model, stray, purged, docOps>>

-----------------------------------------------------------------------------
(***************************************************************************)
(* IndexingWorker._backfill                                                *)
(***************************************************************************)

\* A unit that has no vectors of the chosen model
Outdated(m, d) == units[d] \notin {"none", m}

BackfillReads ==
    /\ worker = AtRest /\ filling = Resting /\ model # NoModel
    /\ LET D == {d \in Doc : Outdated(model, d)}
       IN  D # {} /\ filling' = [model |-> model, units |-> D]
    /\ UNCHANGED <<docs, units, base, uploads, worker, attempts, model, stray, purged, docFaults, docOps>>

\* The vectors are there: chunks that went meanwhile are passed over
BackfillWrites ==
    /\ filling # Resting
    /\ units' = [d \in Doc |-> IF d \in filling.units \cap Searchable THEN filling.model ELSE units[d]]
    /\ filling' = Resting
    /\ UNCHANGED <<docs, base, uploads, worker, attempts, model, stray, purged, docFaults, docOps>>

BackfillFails ==
    /\ filling # Resting /\ docFaults < MaxDocFaults
    /\ docFaults' = docFaults + 1 /\ filling' = Resting
    /\ UNCHANGED <<docs, units, base, uploads, worker, attempts, model, stray, purged, docOps>>

-----------------------------------------------------------------------------
(***************************************************************************)
(* The end of the process and the next one                                 *)
(***************************************************************************)

\* reset_interrupted of the next process
Requeue == docs' = [d \in Doc |-> IF docs[d].st = "processing" THEN [docs[d] EXCEPT !.st = "pending"]
                                  ELSE docs[d]]

\* The process ends.  Between the two transactions of index_document, the
\* chunks of a document deleted meanwhile stay.
EndsAndRestarts ==
    /\ docFaults < MaxDocFaults /\ docFaults' = docFaults + 1
    /\ worker' = AtRest /\ filling' = Resting /\ uploads' = {}
    /\ attempts' = [d \in Doc |-> 0]
    /\ stray' = IF worker.pc = "mark" /\ ~Exists(worker.doc) THEN stray \cup {worker.doc} ELSE stray
    /\ Requeue
    /\ UNCHANGED <<units, base, model, docOps, purged>>

DocInit ==
    /\ docs = [d \in Doc |-> NoRow] /\ units = [d \in Doc |-> "none"]
    /\ base = TRUE /\ uploads = {} /\ worker = AtRest /\ filling = Resting
    /\ attempts = [d \in Doc |-> 0] /\ model \in Vectors /\ stray = {} /\ purged = {}
    /\ docFaults = 0 /\ docOps = 0

IndexDocument == Summarize \/ Embed \/ Write \/ Mark \/ Failed
Backfill == BackfillReads \/ BackfillWrites \/ BackfillFails

DocNext ==
    \/ \E d \in Doc : IngestAsk(d) \/ IngestSave(d) \/ Delete(d) \/ RequestReindex(d) \/ Take(d)
    \/ \E m \in Vectors : ChooseModel(m)
    \/ \E D \in SUBSET Doc : PurgeDocuments(D)
    \/ \E reindex \in BOOLEAN : PurgeIndex(reindex)
    \/ DeleteBase \/ IndexDocument \/ Backfill \/ EndsAndRestarts

\* The loop of the worker runs while its process does; every await ends
DocFairness ==
    /\ \A d \in Doc : SF_docVars(Take(d))
    /\ WF_docVars(IndexDocument)
    /\ SF_docVars(BackfillReads) /\ WF_docVars(BackfillWrites \/ BackfillFails)

-----------------------------------------------------------------------------
(***************************************************************************)
(* Properties                                                              *)
(***************************************************************************)

\* Deleting a document removes its text from the search index for good, even
\* while the worker is embedding it, and what reads "indexed" can be found.  The
\* exceptions: the end of a process between two transactions leaves chunks
\* behind, and a purge of the index between them takes the new ones
\* (index_document, delete, delete_base, _purge_search_index).
IndexFollowsDocuments ==
    /\ \A d \in Searchable : Exists(d) \/ d \in stray \/ (worker.pc = "mark" /\ worker.doc = d)
    /\ \A d \in Doc : docs[d].st = "indexed" => d \in Searchable \cup purged

\* Every queued document ends up indexed, failed or deleted whatever fails or
\* ends meanwhile, and nothing stays "processing" (run, reset_interrupted); and
\* once an owner chose an embedding model for good, every stored unit is in the
\* end embedded by it, those written under the earlier one included (_backfill).
DocumentsSettle ==
    /\ \A d \in Doc : docs[d].st \in {"pending", "processing"} ~> docs[d].st \in {"indexed", "failed", "deleted"}
    /\ \A m \in Model : <>[](model = m) => <>[](\A d \in Searchable : units[d] = m)
=============================================================================
