--------------------------- MODULE LibraryProofs ---------------------------
(***************************************************************************)
(* Proofs about what people bring in and what is found of it: pieces of a   *)
(* recording, letters and names of its speakers, documents, the passages    *)
(* they and a talk become, and knowledge bases, for any number of them, any *)
(* texts, voices and embedding models and any changes and faults.           *)
(*                                                                         *)
(* The arguments.  Documents and bases: every change of the evidence makes  *)
(* a newer request, so a run that still answers the newest request read the *)
(* evidence as it is, and the lock of the unit is fair: of two runs, the    *)
(* one that began first writes first.  Recordings: a pass only begins once  *)
(* no piece is taken any more, the parts it plans cover the pieces it read, *)
(* and they are deleted after the transcript of all of them.  Speakers: a   *)
(* pair is accepted only where both of its letters are free, and a name     *)
(* claimed by two is cleared.  Passages: what was cut is kept beside what   *)
(* is still to be cut, word by word, sentence by sentence, block by block.  *)
(*                                                                         *)
(* Induction over data is done with sets: the numbers, or the sequences,    *)
(* of which something is so hold the first and with one the next.           *)
(***************************************************************************)
EXTENDS MCLibrary, FiniteSetTheorems, SequenceTheorems, WellFoundedInduction, TLAPS

-----------------------------------------------------------------------------
(***************************************************************************)
(* Documents                                                               *)
(***************************************************************************)
\* An upload under way has no row, and the worker's document has or had one
UploadsAreNew == /\ \A d \in uploads : docs[d].st = "none"
                 /\ worker.pc # "rest" => worker.doc \in Doc /\ docs[worker.doc].st # "none"

\* A document that can still be indexed or fail has attempts left, and a back-fill a model
CountsAreLow == /\ \A d \in Doc : docs[d].st # "deleted" \/ (worker.pc # "rest" /\ worker.doc = d) => attempts[d] < MaxAttempts
                /\ filling # Resting => filling.model \in Model

\* What was just written can be found, or was purged or deleted since
WrittenIsThere == worker.pc = "mark" /\ Exists(worker.doc) => worker.doc \in Searchable \cup purged

DocInv == DocTypeOK /\ CountsAreLow /\ UploadsAreNew /\ WrittenIsThere /\ IndexFollowsDocuments

-----------------------------------------------------------------------------
(***************************************************************************)
(* Knowledge bases                                                         *)
(***************************************************************************)
Writes(r)  == runner[r].pc \in {"queues", "waits", "embeds"}
Works(r)   == Writes(r) \/ runner[r].pc = "marks"
Newest(r)  == runner[r].start = indexJob.requested
\* q is behind r on the way through the lock
Behind(q, r) == \/ runner[q].pc = "queues" /\ runner[r].pc \in {"waits", "embeds", "marks"}
                \/ runner[q].pc = "waits"  /\ runner[r].pc \in {"embeds", "marks"}
                \/ runner[q].pc = "embeds" /\ runner[r].pc = "marks"
RunnerRow  == [pc : {"off", "taken", "queues", "waits", "embeds", "marks"}, taken : Nat, start : Nat,
               sources : SUBSET Evidence, existing : SUBSET Evidence]

IndexTypes ==
    /\ IndexTypeOK /\ runner \in [Runner -> RunnerRow] /\ asking \in [on : BOOLEAN, given : SUBSET Evidence]
    /\ \A t \in Talk : talks[t].rev <= changes

\* Requests are numbered as they come
RequestsGrow == wiki => /\ indexJob.st # "none" /\ indexJob.requested < changes + 2
                        /\ \A r \in Runner : Works(r) => runner[r].start <= indexJob.requested

\* A run that answers the newest request read the evidence as it is
NewestReadsCurrent == wiki => \A r \in Runner : Works(r) /\ Newest(r) => runner[r].sources = Current

\* One lock for the runs of a process: who began first goes first, and while one writes nobody adds rows
OneAtATime ==
    OneProcess /\ wiki =>
    /\ \A r, q \in Runner : r # q /\ runner[r].pc = runner[q].pc => runner[r].pc \notin {"queues", "waits", "embeds"}
    /\ \A r, q \in Runner : r # q /\ runner[q].pc = "queues" => runner[r].pc = "waits"
    /\ \A r, q \in Runner : Behind(q, r) => runner[r].start <= runner[q].start
    /\ \A r \in Runner : runner[r].pc = "embeds" => copies \subseteq runner[r].existing

\* What was written last for the newest request is what is there, and stays
NewestIsThere ==
    OneProcess /\ wiki =>
    /\ \A r \in Runner : runner[r].pc = "marks" /\ Newest(r) /\ ~emptied => copies = Current
    /\ indexJob.st = "succeeded" => /\ ~emptied => copies = Current
                                    /\ \A r \in Runner : Writes(r) => Newest(r)

IndexInv == IndexTypes /\ RequestsGrow /\ NewestReadsCurrent /\ OneAtATime /\ NewestIsThere /\ AnswersStayTrue

-----------------------------------------------------------------------------
(***************************************************************************)
(* Documents: every step keeps the invariant                               *)
(***************************************************************************)
\* The invariant of the documents holds when nothing was uploaded
LEMMA DocBegins == DocInit => DocInv
<1> SUFFICES ASSUME DocInit PROVE DocInv
  OBVIOUS
<1>1. /\ NoRow \in DocumentRow /\ NoRow.st = "none"
      /\ AtRest \in [pc : {"rest", "summary", "sync", "save", "mark"}, doc : Doc \cup {"none"}, sum : BOOLEAN, emb : Vectors]
      /\ AtRest.pc = "rest" /\ Resting \in [model : Vectors, units : SUBSET Doc]
  BY DEF NoRow, DocumentRow, DocStatus, AtRest, Resting, Vectors
<1>2. \A d \in Doc : docs[d] = NoRow /\ units[d] = "none" /\ attempts[d] = 0
  BY DEF DocInit
<1>3. Searchable = {} /\ \A d \in Doc : ~Exists(d)
  BY <1>1, <1>2 DEF Searchable, Exists
<1>4. DocTypeOK
  <2>a. MaxAttempts \in Nat /\ MaxDocFaults \in Nat /\ MaxDocOps \in Nat
    BY DocAssumption
  <2>1. 0 \in 0..MaxAttempts /\ 0 \in 0..MaxDocFaults /\ 0 \in 0..MaxDocOps
    BY <2>a
  <2>0. "none" \in Unit
    BY DEF Unit
  <2>2. docs \in [Doc -> DocumentRow] /\ units \in [Doc -> Unit] /\ attempts \in [Doc -> 0..MaxAttempts]
    BY <1>1, <2>0, <2>1 DEF DocInit
  <2> QED  BY <1>1, <1>3, <2>1, <2>2 DEF DocInit, DocTypeOK
<1>5. CountsAreLow /\ UploadsAreNew
  <2>1. 0 < MaxAttempts
    BY DocAssumption
  <2>2. uploads = {} /\ worker = AtRest /\ filling = Resting
    BY DEF DocInit
  <2> QED  BY <1>1, <1>2, <2>1, <2>2 DEF CountsAreLow, UploadsAreNew
<1>6. WrittenIsThere /\ IndexFollowsDocuments
  BY <1>1, <1>2, <1>3 DEF DocInit, WrittenIsThere, IndexFollowsDocuments
<1> QED  BY <1>4, <1>5, <1>6 DEF DocInv

\* Who is searchable follows the units
LEMMA Found == \A d \in Doc : d \in Searchable <=> units[d] # "none"
BY DEF Searchable

\* A step that changes no row and no unit but may take the worker elsewhere
LEMMA WorkerMoves ==
    ASSUME DocInv, UNCHANGED <<docs, units, base, uploads, model, stray, purged>>,
           worker' \in [pc : {"rest", "summary", "sync", "save"}, doc : Doc \cup {"none"}, sum : BOOLEAN, emb : Vectors],
           worker.pc # "mark", worker'.pc # "rest" => worker'.doc = worker.doc /\ worker.pc # "rest",
           filling' \in [model : Vectors, units : SUBSET Doc], filling' # Resting => filling'.model \in Model,
           attempts' = attempts,
           docFaults' \in 0..MaxDocFaults, docOps' \in 0..MaxDocOps
    PROVE  DocInv'
<1>1. DocTypeOK'
  BY DEF DocInv, DocTypeOK, Exists
<1>2. CountsAreLow' /\ UploadsAreNew'
  BY DEF DocInv, CountsAreLow, UploadsAreNew, Exists
<1>3. Searchable' = Searchable /\ \A d \in Doc : Exists(d)' = Exists(d)
  BY DEF Searchable, Exists
<1>4. worker'.pc # "mark" /\ \A d \in Doc : docs'[d] = docs[d]
  OBVIOUS
<1>5. WrittenIsThere' /\ \A d \in Searchable : Exists(d) \/ d \in stray
  BY <1>4 DEF DocInv, WrittenIsThere, IndexFollowsDocuments
<1>6. IndexFollowsDocuments'
  BY <1>3, <1>4, <1>5 DEF DocInv, IndexFollowsDocuments, Searchable
<1> QED  BY <1>1, <1>2, <1>5, <1>6 DEF DocInv

\* Documents that go: the row and the chunks in one transaction
LEMMA DocumentsGo ==
    ASSUME DocInv, NEW D \in SUBSET Doc, docs' = Removed(D),
           units' = [d \in Doc |-> IF d \in D THEN "none" ELSE units[d]], stray' = stray \ D,
           base' \in BOOLEAN, UNCHANGED <<uploads, worker, filling, attempts, model, purged, docFaults, docOps>>
    PROVE  DocInv'
<1>1. PICK gone : gone = [NoRow EXCEPT !.st = "deleted"]
  OBVIOUS
<1>2. gone = [st |-> "deleted", sum |-> FALSE, err |-> FALSE]
  BY <1>1 DEF NoRow
<1>3. \A d \in Doc : docs'[d] = IF d \in D /\ Exists(d) THEN gone ELSE docs[d]
  BY <1>1 DEF Removed
<1>4. gone \in DocumentRow /\ gone.st = "deleted"
  BY <1>2 DEF DocumentRow, DocStatus
<1>5. docs' \in [Doc -> DocumentRow]
  BY <1>1, <1>4 DEF Removed, DocInv, DocTypeOK
<1>6. \A d \in Doc : Exists(d)' <=> Exists(d) /\ d \notin D
  BY <1>3, <1>4 DEF Exists
<1>7. units' \in [Doc -> Unit] /\ \A d \in Doc : units'[d] # "none" <=> units[d] # "none" /\ d \notin D
  BY DEF DocInv, DocTypeOK, Unit
<1>8. DocTypeOK'
  BY <1>5, <1>6, <1>7 DEF DocInv, DocTypeOK
<1>9. CountsAreLow' /\ UploadsAreNew'
  BY <1>3, <1>4 DEF DocInv, DocTypeOK, CountsAreLow, UploadsAreNew, Exists
<1>10. WrittenIsThere'
  BY <1>6, <1>7 DEF DocInv, WrittenIsThere, UploadsAreNew, Searchable
<1>11. IndexFollowsDocuments'
  <2>1. \A d \in Searchable' : d \in Doc /\ d \notin D /\ d \in Searchable
    BY <1>7 DEF Searchable
  <2>2. \A d \in Searchable' : Exists(d)' \/ d \in stray' \/ (worker'.pc = "mark" /\ worker'.doc = d)
    BY <1>6, <2>1 DEF DocInv, IndexFollowsDocuments
  <2>3. \A d \in Doc : docs'[d].st = "indexed" => docs[d].st = "indexed" /\ (d \notin D)
    BY <1>3, <1>4 DEF Exists
  <2>4. \A d \in Doc : docs'[d].st = "indexed" => d \in Searchable' \cup purged'
    BY <1>7, <2>3 DEF DocInv, IndexFollowsDocuments, Searchable
  <2> QED  BY <2>2, <2>4 DEF IndexFollowsDocuments
<1> QED  BY <1>8, <1>9, <1>10, <1>11 DEF DocInv

\* One row changes, its chunks and what was purged do not, and the worker stays or rests
LEMMA RowChanges ==
    ASSUME DocInv, NEW d \in Doc, NEW row \in DocumentRow, docs' = [docs EXCEPT ![d] = row],
           row.st \notin {"none", "deleted", "indexed"}, docs[d].st # "deleted",
           UNCHANGED <<units, base, filling, model, stray, purged>>,
           worker' \in {worker, AtRest}, worker.pc = "mark" => worker' = worker,
           uploads' \subseteq uploads, d \notin uploads',
           worker' = AtRest \/ attempts' = attempts, attempts' \in [Doc -> 0..MaxAttempts],
           \A c \in Doc : attempts'[c] = attempts[c] \/ docs[c].st = "deleted" \/ attempts'[c] < MaxAttempts,
           docFaults' \in 0..MaxDocFaults, docOps' \in 0..MaxDocOps
    PROVE  DocInv'
<1>1. docs' \in [Doc -> DocumentRow] /\ docs'[d] = row /\ \A c \in Doc : c # d => docs'[c] = docs[c]
  BY DEF DocInv, DocTypeOK
<1>2. \A c \in Doc : Exists(c) \/ c = d <=> docs'[c].st \notin {"none", "deleted"}
  BY <1>1 DEF Exists
<1>3. \A c \in Doc : docs'[c].st # "deleted" => docs[c].st # "deleted"
  BY <1>1
<1>4. CountsAreLow'
  BY <1>3 DEF DocInv, CountsAreLow, AtRest
<1>5. DocTypeOK'
  <2>1. AtRest \in [pc : {"rest", "summary", "sync", "save", "mark"}, doc : Doc \cup {"none"}, sum : BOOLEAN, emb : Vectors]
    BY DEF AtRest, Vectors
  <2>2. \A c \in Doc : Exists(c)' => attempts'[c] < MaxAttempts
    BY <1>4 DEF CountsAreLow, Exists
  <2> QED  BY <1>1, <2>1, <2>2 DEF DocInv, DocTypeOK
<1>6. UploadsAreNew'
  BY <1>1 DEF DocInv, DocTypeOK, UploadsAreNew, AtRest
<1>7. WrittenIsThere'
  <2> SUFFICES ASSUME worker'.pc = "mark", docs'[worker'.doc].st \notin {"none", "deleted"}
               PROVE  worker'.doc \in (Searchable \cup purged)'
    BY DEF WrittenIsThere, Exists
  <2>1. worker' = worker
    BY DEF AtRest
  <2>2. worker.doc \in Doc /\ docs[worker.doc].st \notin {"none", "deleted"}
    BY <1>1, <2>1 DEF DocInv, UploadsAreNew
  <2> QED  BY <2>1, <2>2 DEF DocInv, WrittenIsThere, Exists, Searchable
<1>8. IndexFollowsDocuments'
  <2>1. \A c \in Searchable' : docs'[c].st \notin {"none", "deleted"} \/ c \in stray' \/ (worker'.pc = "mark" /\ worker'.doc = c)
    <3> SUFFICES ASSUME NEW c \in Doc, units[c] # "none"
                 PROVE  docs'[c].st \notin {"none", "deleted"} \/ c \in stray \/ (worker'.pc = "mark" /\ worker'.doc = c)
      BY DEF Searchable
    <3>1. Exists(c) \/ c \in stray \/ (worker.pc = "mark" /\ worker.doc = c)
      BY DEF DocInv, IndexFollowsDocuments, Searchable
    <3> QED  BY <1>2, <3>1
  <2>2. \A c \in Doc : docs'[c].st = "indexed" => c \in Searchable \cup purged
    BY <1>1 DEF DocInv, IndexFollowsDocuments
  <2> QED  BY <2>1, <2>2 DEF IndexFollowsDocuments, Searchable, Exists
<1> QED  BY <1>4, <1>5, <1>6, <1>7, <1>8 DEF DocInv

\* The worker goes on with one document: units, what was purged and the rest as they were
LEMMA TakesADocument ==
    ASSUME DocInv, NEW d \in Doc, Take(d)
    PROVE  DocInv'
<1>1. PICK row : row = [docs[d] EXCEPT !.st = "processing"]
  OBVIOUS
<1>2. docs[d] \in DocumentRow /\ docs[d].st = "pending" /\ worker.pc = "rest" /\ filling = Resting
  BY DEF DocInv, DocTypeOK, Take, AtRest
<1>3. row = [st |-> "processing", sum |-> docs[d].sum, err |-> docs[d].err] /\ row \in DocumentRow /\ row.st = "processing"
  BY <1>1, <1>2 DEF DocumentRow, DocStatus
<1>4. docs' = [docs EXCEPT ![d] = row]
  BY <1>1 DEF Take
<1>5. docs' \in [Doc -> DocumentRow] /\ docs'[d] = row /\ \A c \in Doc : c # d => docs'[c] = docs[c]
  BY <1>3, <1>4 DEF DocInv, DocTypeOK
<1>6. worker' \in [pc : {"summary", "sync"}, doc : Doc \cup {"none"}, sum : BOOLEAN, emb : Vectors] /\ worker'.doc = d
  BY <1>2 DEF Take, Vectors, DocumentRow
<1>7. worker'.pc \in {"summary", "sync"}
  BY <1>6
<1>8. \A c \in Doc : (docs'[c].st \in {"none", "deleted"} <=> docs[c].st \in {"none", "deleted"})
                     /\ (docs'[c].st = "deleted" <=> docs[c].st = "deleted")
                     /\ (docs'[c].st = "none" <=> docs[c].st = "none") /\ (docs'[c].st = "indexed" => docs[c].st = "indexed")
  BY <1>2, <1>3, <1>5
<1>9. Searchable' = Searchable /\ \A c \in Doc : Exists(c)' = Exists(c)
  BY <1>8 DEF Searchable, Exists, Take
<1>10. CountsAreLow'
  BY <1>2, <1>8 DEF DocInv, CountsAreLow, Take
<1>11. DocTypeOK'
  BY <1>5, <1>6, <1>9 DEF DocInv, DocTypeOK, Take
<1>12. UploadsAreNew'
  BY <1>3, <1>5, <1>6, <1>8 DEF DocInv, DocTypeOK, UploadsAreNew, Take
<1>13. WrittenIsThere' /\ IndexFollowsDocuments'
  BY <1>2, <1>7, <1>8, <1>9 DEF DocInv, WrittenIsThere, IndexFollowsDocuments, Take, Searchable
<1> QED  BY <1>10, <1>11, <1>12, <1>13 DEF DocInv

\* The search index alone is purged
LEMMA TheIndexGoes ==
    ASSUME DocInv, NEW reindex \in BOOLEAN, PurgeIndex(reindex)
    PROVE  DocInv'
<1>1. \A c \in Doc : docs'[c] = docs[c] \/ (docs[c].st = "indexed" /\ docs'[c] = [docs[c] EXCEPT !.st = "pending"])
  BY DEF PurgeIndex, Requested
<1>2. \A c \in Doc : docs[c] \in DocumentRow
  BY DEF DocInv, DocTypeOK
<1>3. \A c \in Doc : docs'[c] \in DocumentRow /\ (docs'[c] = docs[c] \/ (docs[c].st = "indexed" /\ docs'[c].st = "pending"))
  <2> SUFFICES ASSUME NEW c \in Doc
               PROVE  docs'[c] \in DocumentRow /\ (docs'[c] = docs[c] \/ (docs[c].st = "indexed" /\ docs'[c].st = "pending"))
    OBVIOUS
  <2>1. PICK row : row = [docs[c] EXCEPT !.st = "pending"]
    OBVIOUS
  <2>2. row = [st |-> "pending", sum |-> docs[c].sum, err |-> docs[c].err] /\ row \in DocumentRow
    BY <1>2, <2>1 DEF DocumentRow, DocStatus
  <2> QED  BY <1>1, <1>2, <2>1, <2>2
<1>4. docs' \in [Doc -> DocumentRow]
  BY <1>3 DEF PurgeIndex, Requested
<1>5. \A c \in Doc : (docs'[c].st \in {"none", "deleted"} <=> docs[c].st \in {"none", "deleted"})
                     /\ (docs'[c].st = "deleted" <=> docs[c].st = "deleted")
                     /\ (docs'[c].st = "none" <=> docs[c].st = "none")
  BY <1>3
<1>6. \A c \in Doc : units'[c] = "none"
  BY DEF PurgeIndex
<1>7. Searchable' = {} /\ \A c \in Doc : Exists(c)' = Exists(c)
  BY <1>5, <1>6 DEF Searchable, Exists
<1>8. docOps \in 0..MaxDocOps /\ MaxDocOps \in Nat
  BY DocAssumption DEF DocInv, DocTypeOK
<1>9. docOps' \in 0..MaxDocOps
  BY <1>8 DEF PurgeIndex
<1>10. units' \in [Doc -> Unit]
  BY DEF PurgeIndex, Unit
<1>11. purged' = {c \in Doc : docs'[c].st = "indexed" \/ (worker.pc = "mark" /\ worker.doc = c)}
  BY DEF PurgeIndex
<1>12. CountsAreLow'
  BY <1>5 DEF DocInv, CountsAreLow, PurgeIndex
<1>13. DocTypeOK'
  <2>1. stray' = {} /\ purged' \subseteq Doc
    BY <1>11 DEF PurgeIndex
  <2> QED  BY <1>4, <1>7, <1>9, <1>10, <2>1 DEF DocInv, DocTypeOK, PurgeIndex
<1>14. UploadsAreNew'
  BY <1>5 DEF DocInv, DocTypeOK, UploadsAreNew, PurgeIndex
<1>15. WrittenIsThere' /\ IndexFollowsDocuments'
  <2>1. worker.pc # "rest" => worker.doc \in Doc
    BY DEF DocInv, UploadsAreNew
  <2>2. worker' = worker
    BY DEF PurgeIndex
  <2>3. WrittenIsThere'
    BY <1>11, <2>1, <2>2 DEF WrittenIsThere
  <2>4. IndexFollowsDocuments'
    BY <1>7, <1>11 DEF IndexFollowsDocuments
  <2> QED  BY <2>3, <2>4
<1> QED  BY <1>12, <1>13, <1>14, <1>15 DEF DocInv

\* The chunks are written, whatever became of the row
LEMMA TheWorkerWrites ==
    ASSUME DocInv, Write
    PROVE  DocInv'
<1>1. PICK u \in Written : /\ units' = [units EXCEPT ![worker.doc] = u]
                           /\ worker' = [worker EXCEPT !.pc = "mark", !.emb = IF u = "plain" THEN NoModel ELSE u]
  BY DEF Write
<1>2. worker.doc \in Doc /\ docs[worker.doc].st # "none" /\ worker.pc = "save"
  BY DEF DocInv, UploadsAreNew, Write
<1>3. worker \in [pc : {"rest", "summary", "sync", "save", "mark"}, doc : Doc \cup {"none"}, sum : BOOLEAN, emb : Vectors]
  BY DEF DocInv, DocTypeOK
<1>4. u \in {"plain"} \cup Model /\ u # "none"
  <2>1. worker.emb \in Vectors
    BY <1>3
  <2>2. u = "plain" \/ (u = worker.emb /\ worker.emb # NoModel)
    BY <1>1 DEF Written
  <2>3. "none" \notin Model
    BY DocAssumption
  <2> QED  BY <2>1, <2>2, <2>3 DEF Vectors
<1>5. units' \in [Doc -> Unit] /\ units'[worker.doc] # "none" /\ \A c \in Doc : c # worker.doc => units'[c] = units[c]
  BY <1>1, <1>2, <1>4 DEF DocInv, DocTypeOK, Unit
<1>6. PICK e : e = IF u = "plain" THEN NoModel ELSE u
  OBVIOUS
<1>7. e \in Vectors
  BY <1>4, <1>6 DEF Vectors
<1>8. worker' = [pc |-> "mark", doc |-> worker.doc, sum |-> worker.sum, emb |-> e]
  BY <1>1, <1>3, <1>6
<1>9. /\ worker' \in [pc : {"rest", "summary", "sync", "save", "mark"}, doc : Doc \cup {"none"}, sum : BOOLEAN, emb : Vectors]
      /\ worker'.doc = worker.doc /\ worker'.pc = "mark"
  BY <1>3, <1>7, <1>8
<1>10. /\ UNCHANGED <<docs, base, uploads, filling, attempts, model, stray, docFaults, docOps>>
       /\ purged' = purged \ {worker.doc}
  BY DEF Write
<1>11. \A c \in Doc : Exists(c)' = Exists(c)
  BY <1>10 DEF Exists
<1>12. DocTypeOK' /\ CountsAreLow'
  BY <1>2, <1>5, <1>9, <1>10, <1>11 DEF DocInv, DocTypeOK, CountsAreLow
<1>13. UploadsAreNew' /\ WrittenIsThere'
  BY <1>2, <1>5, <1>9, <1>10 DEF DocInv, UploadsAreNew, WrittenIsThere, Searchable
<1>14. \A c \in Doc : c # worker.doc => (c \in Searchable' <=> c \in Searchable)
  BY <1>5 DEF Searchable
<1>15. worker.doc \in Searchable'
  BY <1>2, <1>5 DEF Searchable
<1>16. IndexFollowsDocuments'
  <2>1. \A c \in Searchable' : c = worker.doc \/ (c \in Searchable /\ c # worker.doc)
    BY <1>14 DEF Searchable
  <2>2. \A c \in Searchable' : Exists(c)' \/ c \in stray' \/ (worker'.pc = "mark" /\ worker'.doc = c)
    BY <1>2, <1>9, <1>10, <1>11, <2>1 DEF DocInv, IndexFollowsDocuments, Searchable
  <2>3. \A c \in Doc : docs'[c].st = "indexed" => c \in Searchable' \cup purged'
    BY <1>10, <1>14, <1>15 DEF DocInv, IndexFollowsDocuments
  <2> QED  BY <2>2, <2>3 DEF IndexFollowsDocuments
<1> QED  BY <1>12, <1>13, <1>16 DEF DocInv

\* The last transaction: the row is indexed, or the chunks of a deleted one go
LEMMA TheWorkerMarks ==
    ASSUME DocInv, Mark
    PROVE  DocInv'
<1>0. PICK d : d = worker.doc
  OBVIOUS
<1>1. d \in Doc /\ docs[d].st # "none" /\ worker.pc = "mark"
  BY <1>0 DEF DocInv, UploadsAreNew, Mark
<1>2. worker \in [pc : {"rest", "summary", "sync", "save", "mark"}, doc : Doc \cup {"none"}, sum : BOOLEAN, emb : Vectors]
  BY DEF DocInv, DocTypeOK
<1>3. PICK row : row = [st |-> "indexed", sum |-> worker.sum, err |-> worker.emb = NoModel]
  OBVIOUS
<1>4. row \in DocumentRow /\ row.st = "indexed"
  BY <1>2, <1>3 DEF DocumentRow, DocStatus
<1>5. /\ worker' = AtRest /\ attempts' = [attempts EXCEPT ![d] = 0]
      /\ IF Exists(d) THEN docs' = (IF docs[d].st # "processing" THEN docs ELSE [docs EXCEPT ![d] = row]) /\ units' = units
                      ELSE units' = [units EXCEPT ![d] = "none"] /\ docs' = docs
      /\ UNCHANGED <<base, uploads, filling, model, stray, purged, docFaults, docOps>>
  BY <1>0, <1>3 DEF Mark, DropUnit
<1>6. AtRest \in [pc : {"rest", "summary", "sync", "save", "mark"}, doc : Doc \cup {"none"}, sum : BOOLEAN, emb : Vectors] /\ AtRest.pc = "rest"
  BY DEF AtRest, Vectors
<1>7. MaxAttempts \in Nat /\ MaxAttempts > 0
  BY DocAssumption
<1>8. attempts' \in [Doc -> 0..MaxAttempts] /\ \A c \in Doc : attempts'[c] = attempts[c] \/ attempts'[c] = 0
  BY <1>1, <1>5, <1>7 DEF DocInv, DocTypeOK
<1>9. docs' \in [Doc -> DocumentRow] /\ \A c \in Doc : docs'[c] = docs[c] \/ (c = d /\ docs[c].st = "processing" /\ docs'[c].st = "indexed")
  BY <1>1, <1>4, <1>5 DEF DocInv, DocTypeOK
<1>10. \A c \in Doc : (docs'[c].st \in {"none", "deleted"} <=> docs[c].st \in {"none", "deleted"})
                      /\ (docs'[c].st = "deleted" <=> docs[c].st = "deleted")
                      /\ (docs'[c].st = "none" <=> docs[c].st = "none")
  BY <1>9
<1>11. \A c \in Doc : Exists(c)' = Exists(c)
  BY <1>10 DEF Exists
<1>12. units' \in [Doc -> Unit] /\ (\A c \in Doc : c # d => units'[c] = units[c])
       /\ IF Exists(d) THEN units'[d] = units[d] ELSE units'[d] = "none"
  BY <1>1, <1>5 DEF DocInv, DocTypeOK, Unit
<1>13. CountsAreLow'
  BY <1>5, <1>6, <1>7, <1>8, <1>10 DEF DocInv, CountsAreLow
<1>14. DocTypeOK'
  <2>1. \A c \in Doc : Exists(c)' => attempts'[c] < MaxAttempts
    BY <1>13 DEF CountsAreLow, Exists
  <2> QED  BY <1>5, <1>6, <1>8, <1>9, <1>12, <2>1 DEF DocInv, DocTypeOK
<1>15. UploadsAreNew' /\ WrittenIsThere'
  <2>1. \A c \in uploads : docs'[c].st = "none"
    BY <1>10 DEF DocInv, DocTypeOK, UploadsAreNew
  <2> QED  BY <1>5, <1>6, <2>1 DEF UploadsAreNew, WrittenIsThere
<1>16. IndexFollowsDocuments'
  <2>1. \A c \in Searchable' : Exists(c)' \/ c \in stray' \/ (worker'.pc = "mark" /\ worker'.doc = c)
    <3> SUFFICES ASSUME NEW c \in Doc, units'[c] # "none"
                 PROVE  Exists(c)' \/ c \in stray'
      BY DEF Searchable
    <3>1. units[c] # "none" /\ (c = d => Exists(d))
      BY <1>12
    <3>2. Exists(c) \/ c \in stray \/ (worker.pc = "mark" /\ worker.doc = c)
      BY <3>1 DEF DocInv, IndexFollowsDocuments, Searchable
    <3> QED  BY <1>0, <1>5, <1>11, <3>1, <3>2
  <2>2. \A c \in Doc : docs'[c].st = "indexed" => c \in Searchable' \cup purged'
    <3> SUFFICES ASSUME NEW c \in Doc, docs'[c].st = "indexed"
                 PROVE  units'[c] # "none" \/ c \in purged
      BY <1>5 DEF Searchable
    <3>1. Exists(c)
      BY <1>10 DEF Exists
    <3>2. units'[c] = units[c]
      BY <1>12, <3>1
    <3>3. CASE docs[c].st = "indexed"
      BY <3>2, <3>3 DEF DocInv, IndexFollowsDocuments, Searchable
    <3>4. CASE docs[c].st # "indexed"
      <4>1. c = d
        BY <1>9, <3>4
      <4> QED  BY <1>0, <1>1, <3>1, <3>2, <4>1 DEF DocInv, WrittenIsThere, Searchable
    <3> QED  BY <3>3, <3>4
  <2> QED  BY <2>1, <2>2 DEF IndexFollowsDocuments
<1> QED  BY <1>13, <1>14, <1>15, <1>16 DEF DocInv

\* The vectors of the back-fill: whoever was searchable still is, nobody else
LEMMA TheFillWrites ==
    ASSUME DocInv, BackfillWrites
    PROVE  DocInv'
<1>1. filling.model \in Model /\ filling.model # "none"
  <2>1. filling.model \in Model
    BY DEF DocInv, CountsAreLow, BackfillWrites
  <2>2. "none" \notin Model
    BY DocAssumption
  <2> QED  BY <2>1, <2>2
<1>2. PICK m : m = filling.model
  OBVIOUS
<1>3. /\ units' = [d \in Doc |-> IF d \in filling.units \cap Searchable THEN m ELSE units[d]]
      /\ filling' = Resting
      /\ UNCHANGED <<docs, base, uploads, worker, attempts, model, stray, purged, docFaults, docOps>>
  BY <1>2 DEF BackfillWrites
<1>4. units' \in [Doc -> Unit] /\ \A d \in Doc : units'[d] # "none" <=> units[d] # "none"
  BY <1>1, <1>2, <1>3 DEF DocInv, DocTypeOK, Unit, Searchable
<1>5. Searchable' = Searchable /\ \A d \in Doc : Exists(d)' = Exists(d)
  BY <1>3, <1>4 DEF Searchable, Exists
<1>6. Resting \in [model : Vectors, units : SUBSET Doc]
  BY DEF Resting, Vectors
<1>7. DocTypeOK' /\ CountsAreLow'
  BY <1>3, <1>4, <1>5, <1>6 DEF DocInv, DocTypeOK, CountsAreLow
<1>8. UploadsAreNew' /\ WrittenIsThere'
  <2>1. Exists(worker.doc)' = Exists(worker.doc)
    BY <1>3 DEF Exists
  <2> QED  BY <1>3, <1>5, <2>1 DEF DocInv, UploadsAreNew, WrittenIsThere
<1>9. IndexFollowsDocuments'
  BY <1>3, <1>5 DEF DocInv, IndexFollowsDocuments, Searchable
<1> QED  BY <1>7, <1>8, <1>9 DEF DocInv

\* The file is read
LEMMA AnUploadEnds ==
    ASSUME DocInv, NEW d \in Doc, IngestSave(d)
    PROVE  DocInv'
<1>1. docs[d].st = "none" /\ d \in uploads /\ uploads' = uploads \ {d}
      /\ UNCHANGED <<units, base, worker, filling, attempts, model, stray, purged, docFaults, docOps>>
  BY DEF DocInv, UploadsAreNew, IngestSave
<1>2. CASE docs' = docs
  <2>1. Searchable' = Searchable /\ \A c \in Doc : Exists(c)' = Exists(c)
    BY <1>1, <1>2 DEF Searchable, Exists
  <2>2. Exists(worker.doc)' = Exists(worker.doc)
    BY <1>1, <1>2 DEF Exists
  <2>3. DocTypeOK' /\ CountsAreLow' /\ UploadsAreNew'
    BY <1>1, <1>2, <2>1 DEF DocInv, DocTypeOK, CountsAreLow, UploadsAreNew
  <2>4. WrittenIsThere' /\ IndexFollowsDocuments'
    BY <1>1, <1>2, <2>1, <2>2 DEF DocInv, WrittenIsThere, IndexFollowsDocuments, Searchable
  <2> QED  BY <2>3, <2>4 DEF DocInv
<1>3. CASE docs' # docs
  <2>1. PICK row : row = [NoRow EXCEPT !.st = "pending"]
    OBVIOUS
  <2>2. row = [st |-> "pending", sum |-> FALSE, err |-> FALSE]
    BY <2>1 DEF NoRow
  <2>3. row \in DocumentRow /\ row.st = "pending"
    BY <2>2 DEF DocumentRow, DocStatus
  <2>4. docs' = [docs EXCEPT ![d] = row]
    BY <1>3, <2>1 DEF IngestSave
  <2>5. attempts' \in [Doc -> 0..MaxAttempts] /\ docFaults' \in 0..MaxDocFaults /\ docOps' \in 0..MaxDocOps
    BY <1>1 DEF DocInv, DocTypeOK
  <2> QED  BY <1>1, <2>3, <2>4, <2>5, RowChanges
<1> QED  BY <1>2, <1>3

\* A document is queued again
LEMMA AReindexIsAsked ==
    ASSUME DocInv, NEW d \in Doc, RequestReindex(d)
    PROVE  DocInv'
<1>1. PICK row : row = [docs[d] EXCEPT !.st = "pending", !.err = FALSE]
  OBVIOUS
<1>2. docs[d] \in DocumentRow /\ docs[d].st \notin {"none", "deleted"}
  BY DEF DocInv, DocTypeOK, RequestReindex, Exists
<1>3. row = [st |-> "pending", sum |-> docs[d].sum, err |-> FALSE]
  BY <1>1, <1>2 DEF DocumentRow
<1>4. row \in DocumentRow /\ row.st = "pending"
  BY <1>2, <1>3 DEF DocumentRow, DocStatus
<1>5. docs' = [docs EXCEPT ![d] = row]
  <2>1. docs' = [docs EXCEPT ![d].st = "pending", ![d].err = FALSE]
    BY DEF RequestReindex
  <2>2. docs \in [Doc -> DocumentRow]
    BY DEF DocInv, DocTypeOK
  <2> QED  BY <1>1, <2>1, <2>2
<1>6. docOps \in 0..MaxDocOps /\ MaxDocOps \in Nat
  BY DocAssumption DEF DocInv, DocTypeOK
<1>7. docOps' \in 0..MaxDocOps
  BY <1>6 DEF RequestReindex
<1>8. UNCHANGED <<units, base, uploads, worker, filling, attempts, model, stray, purged, docFaults>>
  BY DEF RequestReindex
<1>9. d \notin uploads /\ attempts \in [Doc -> 0..MaxAttempts] /\ docFaults \in 0..MaxDocFaults
  BY <1>2 DEF DocInv, DocTypeOK, UploadsAreNew
<1> QED  BY <1>2, <1>4, <1>5, <1>7, <1>8, <1>9, RowChanges

\* _failed: whatever the row says meanwhile, it is pending or failed again
LEMMA TheWorkerFails ==
    ASSUME DocInv, Failed
    PROVE  DocInv'
<1>0. PICK d : d = worker.doc
  OBVIOUS
<1>1. d \in Doc /\ docs[d].st # "none" /\ worker.pc \in {"summary", "sync", "save"}
  BY <1>0 DEF DocInv, UploadsAreNew, Failed
<1>2. docFaults \in 0..MaxDocFaults /\ MaxDocFaults \in Nat /\ MaxAttempts \in Nat /\ MaxAttempts > 0
  BY DocAssumption DEF DocInv, DocTypeOK
<1>3. docFaults' \in 0..MaxDocFaults /\ docOps' \in 0..MaxDocOps
  BY <1>2 DEF DocInv, DocTypeOK, Failed
<1>4. attempts \in [Doc -> 0..MaxAttempts] /\ attempts[d] < MaxAttempts
  BY <1>0, <1>1 DEF DocInv, DocTypeOK, CountsAreLow
<1>5. PICK final : final = LastAttempt(d)
  OBVIOUS
<1>6. PICK n : n = IF LastAttempt(d) /\ Exists(d) THEN 0 ELSE attempts[d] + 1
  OBVIOUS
<1>7. n = IF final /\ Exists(d) THEN 0 ELSE attempts[d] + 1
  BY <1>5, <1>6
<1>8. n \in 0..MaxAttempts /\ (Exists(d) => n < MaxAttempts)
  BY <1>1, <1>2, <1>4, <1>6 DEF LastAttempt
<1>9. attempts' = [attempts EXCEPT ![d] = n]
  BY <1>0, <1>5, <1>7 DEF Failed
<1>10. attempts' \in [Doc -> 0..MaxAttempts] /\ attempts'[d] = n /\ \A c \in Doc : c # d => attempts'[c] = attempts[c]
  BY <1>1, <1>4, <1>8, <1>9
<1>11. worker' = AtRest /\ UNCHANGED <<units, base, uploads, filling, model, stray, purged, docOps>>
  BY DEF Failed
<1>12. CASE Exists(d)
  <2>1. PICK row : row = [docs[d] EXCEPT !.st = IF final THEN "failed" ELSE "pending", !.err = TRUE]
    OBVIOUS
  <2>2. docs[d] \in DocumentRow /\ docs[d].st \notin {"none", "deleted"}
    BY <1>1, <1>12 DEF DocInv, DocTypeOK, Exists
  <2>3. row = [st |-> IF final THEN "failed" ELSE "pending", sum |-> docs[d].sum, err |-> TRUE]
    BY <2>1, <2>2 DEF DocumentRow
  <2>4. row \in DocumentRow /\ row.st \in {"failed", "pending"}
    BY <2>2, <2>3 DEF DocumentRow, DocStatus
  <2>5. docs' = [docs EXCEPT ![d] = row]
    <3>1. docs' = [docs EXCEPT ![d].st = IF final THEN "failed" ELSE "pending", ![d].err = TRUE]
      BY <1>0, <1>5, <1>12 DEF Failed
    <3>2. docs \in [Doc -> DocumentRow]
      BY DEF DocInv, DocTypeOK
    <3> QED  BY <1>1, <2>1, <3>1, <3>2
  <2>6. \A c \in Doc : attempts'[c] = attempts[c] \/ docs[c].st = "deleted" \/ attempts'[c] < MaxAttempts
    BY <1>8, <1>10, <1>12
  <2>7. d \notin uploads' /\ worker.pc # "mark"
    BY <1>1, <1>11 DEF DocInv, UploadsAreNew
  <2> QED  BY <1>1, <1>3, <1>10, <1>11, <2>2, <2>4, <2>5, <2>6, <2>7, RowChanges
<1>13. CASE ~Exists(d)
  <2>1. docs[d].st = "deleted" /\ docs' = docs
    BY <1>0, <1>1, <1>13 DEF Exists, Failed
  <2>2. AtRest \in [pc : {"rest", "summary", "sync", "save", "mark"}, doc : Doc \cup {"none"}, sum : BOOLEAN, emb : Vectors] /\ AtRest.pc = "rest"
    BY DEF AtRest, Vectors
  <2>3. Searchable' = Searchable /\ \A c \in Doc : Exists(c)' = Exists(c)
    BY <1>11, <2>1 DEF Searchable, Exists
  <2>4. CountsAreLow'
    BY <1>10, <1>11, <2>1, <2>2 DEF DocInv, CountsAreLow
  <2>5. DocTypeOK'
    <3>1. \A c \in Doc : Exists(c)' => attempts'[c] < MaxAttempts
      BY <2>4 DEF CountsAreLow, Exists
    <3> QED  BY <1>3, <1>10, <1>11, <2>1, <2>2, <3>1 DEF DocInv, DocTypeOK
  <2>6. UploadsAreNew' /\ WrittenIsThere'
    BY <1>11, <2>1, <2>2 DEF DocInv, UploadsAreNew, WrittenIsThere
  <2>7. IndexFollowsDocuments'
    BY <1>1, <1>11, <2>1, <2>2, <2>3 DEF DocInv, IndexFollowsDocuments, Searchable
  <2> QED  BY <2>4, <2>5, <2>6, <2>7 DEF DocInv
<1> QED  BY <1>12, <1>13

\* The process ends between two steps and the next one begins
LEMMA AProcessEnds ==
    ASSUME DocInv, EndsAndRestarts
    PROVE  DocInv'
<1>1. \A c \in Doc : docs'[c] = docs[c] \/ (docs[c].st = "processing" /\ docs'[c] = [docs[c] EXCEPT !.st = "pending"])
  BY DEF EndsAndRestarts, Requeue
<1>2. \A c \in Doc : docs[c] \in DocumentRow
  BY DEF DocInv, DocTypeOK
<1>3. \A c \in Doc : docs'[c] \in DocumentRow /\ (docs'[c] = docs[c] \/ (docs[c].st = "processing" /\ docs'[c].st = "pending"))
  <2> SUFFICES ASSUME NEW c \in Doc
               PROVE  docs'[c] \in DocumentRow /\ (docs'[c] = docs[c] \/ (docs[c].st = "processing" /\ docs'[c].st = "pending"))
    OBVIOUS
  <2>1. PICK row : row = [docs[c] EXCEPT !.st = "pending"]
    OBVIOUS
  <2>2. row = [st |-> "pending", sum |-> docs[c].sum, err |-> docs[c].err] /\ row \in DocumentRow
    BY <1>2, <2>1 DEF DocumentRow, DocStatus
  <2> QED  BY <1>1, <1>2, <2>1, <2>2
<1>4. docs' \in [Doc -> DocumentRow]
  BY <1>3 DEF EndsAndRestarts, Requeue
<1>5. \A c \in Doc : (docs'[c].st \in {"none", "deleted"} <=> docs[c].st \in {"none", "deleted"})
                     /\ (docs'[c].st = "indexed" => docs[c].st = "indexed")
  BY <1>3
<1>6. /\ worker' = AtRest /\ filling' = Resting /\ uploads' = {} /\ attempts' = [d \in Doc |-> 0]
      /\ stray' = IF worker.pc = "mark" /\ ~Exists(worker.doc) THEN stray \cup {worker.doc} ELSE stray
      /\ UNCHANGED <<units, base, model, docOps, purged>>
  BY DEF EndsAndRestarts
<1>7. AtRest \in [pc : {"rest", "summary", "sync", "save", "mark"}, doc : Doc \cup {"none"}, sum : BOOLEAN, emb : Vectors]
      /\ AtRest.pc = "rest" /\ Resting \in [model : Vectors, units : SUBSET Doc]
  BY DEF AtRest, Resting, Vectors
<1>8. docFaults \in 0..MaxDocFaults /\ MaxDocFaults \in Nat /\ MaxAttempts \in Nat /\ MaxAttempts > 0
  BY DocAssumption DEF DocInv, DocTypeOK
<1>9. docFaults' \in 0..MaxDocFaults
  BY <1>8 DEF EndsAndRestarts
<1>10. attempts' \in [Doc -> 0..MaxAttempts] /\ \A c \in Doc : attempts'[c] < MaxAttempts
  BY <1>6, <1>8
<1>11. worker.pc = "mark" => worker.doc \in Doc
  BY DEF DocInv, UploadsAreNew
<1>12. Searchable' = Searchable /\ \A c \in Doc : Exists(c)' = Exists(c)
  BY <1>5, <1>6 DEF Searchable, Exists
<1>13. stray' \subseteq Doc
  BY <1>6, <1>11 DEF DocInv, DocTypeOK
<1>14. DocTypeOK'
  BY <1>4, <1>6, <1>7, <1>9, <1>10, <1>13 DEF DocInv, DocTypeOK
<1>15. CountsAreLow' /\ UploadsAreNew' /\ WrittenIsThere'
  BY <1>6, <1>7, <1>10 DEF CountsAreLow, UploadsAreNew, WrittenIsThere
<1>16. IndexFollowsDocuments'
  <2>1. \A c \in Searchable' : Exists(c)' \/ c \in stray'
    <3> SUFFICES ASSUME NEW c \in Doc, c \in Searchable
                 PROVE  Exists(c) \/ c \in stray'
      BY <1>12 DEF Searchable
    <3>1. Exists(c) \/ c \in stray \/ (worker.pc = "mark" /\ worker.doc = c)
      BY DEF DocInv, IndexFollowsDocuments
    <3> QED  BY <1>6, <3>1
  <2>2. \A c \in Doc : docs'[c].st = "indexed" => c \in Searchable' \cup purged'
    BY <1>5, <1>6, <1>12 DEF DocInv, IndexFollowsDocuments
  <2> QED  BY <2>1, <2>2 DEF IndexFollowsDocuments
<1> QED  BY <1>14, <1>15, <1>16 DEF DocInv

\* Every step of the documents keeps their invariant
LEMMA DocSteps == DocInv /\ [DocNext]_docVars => DocInv'
<1> SUFFICES ASSUME DocInv, [DocNext]_docVars PROVE DocInv'
  OBVIOUS
<1>0. worker \in [pc : {"rest", "summary", "sync", "save", "mark"}, doc : Doc \cup {"none"}, sum : BOOLEAN, emb : Vectors]
      /\ filling \in [model : Vectors, units : SUBSET Doc] /\ docFaults \in 0..MaxDocFaults /\ docOps \in 0..MaxDocOps
  BY DEF DocInv, DocTypeOK
<1>a. MaxDocFaults \in Nat /\ MaxDocOps \in Nat
  BY DocAssumption
<1>1. ASSUME NEW d \in Doc, IngestAsk(d) PROVE DocInv'
  <2>1. UNCHANGED <<docs, units, base, worker, filling, attempts, model, stray, purged, docFaults, docOps>>
        /\ uploads' = uploads \cup {d} /\ docs[d].st = "none"
    BY <1>1 DEF IngestAsk
  <2>2. Searchable' = Searchable /\ \A c \in Doc : Exists(c)' = Exists(c)
    BY <2>1 DEF Searchable, Exists
  <2>3. Exists(worker.doc)' = Exists(worker.doc)
    BY <2>1 DEF Exists
  <2>4. DocTypeOK' /\ CountsAreLow' /\ UploadsAreNew'
    BY <2>1, <2>2 DEF DocInv, DocTypeOK, CountsAreLow, UploadsAreNew
  <2>5. WrittenIsThere' /\ IndexFollowsDocuments'
    BY <2>1, <2>2, <2>3 DEF DocInv, WrittenIsThere, IndexFollowsDocuments, Searchable
  <2> QED  BY <2>4, <2>5 DEF DocInv
<1>2. ASSUME NEW m \in Vectors, ChooseModel(m) PROVE DocInv'
  <2>1. UNCHANGED <<docs, units, base, uploads, worker, filling, attempts, stray, purged, docFaults>> /\ model' = m
    BY <1>2 DEF ChooseModel
  <2>2. docOps' \in 0..MaxDocOps
    BY <1>0, <1>a, <1>2 DEF ChooseModel
  <2>3. Searchable' = Searchable /\ \A c \in Doc : Exists(c)' = Exists(c)
    BY <2>1 DEF Searchable, Exists
  <2>4. Exists(worker.doc)' = Exists(worker.doc)
    BY <2>1 DEF Exists
  <2>5. DocTypeOK' /\ CountsAreLow' /\ UploadsAreNew'
    BY <2>1, <2>2, <2>3 DEF DocInv, DocTypeOK, CountsAreLow, UploadsAreNew
  <2>6. WrittenIsThere' /\ IndexFollowsDocuments'
    BY <2>1, <2>3, <2>4 DEF DocInv, WrittenIsThere, IndexFollowsDocuments, Searchable
  <2> QED  BY <2>5, <2>6 DEF DocInv
<1>3. ASSUME NEW d \in Doc, Delete(d) PROVE DocInv'
  <2>1. units' = [c \in Doc |-> IF c \in {d} THEN "none" ELSE units[c]]
    BY <1>3 DEF Delete, DocInv, DocTypeOK
  <2>2. docs' = Removed({d}) /\ stray' = stray \ {d} /\ base' \in BOOLEAN
        /\ UNCHANGED <<uploads, worker, filling, attempts, model, purged, docFaults, docOps>>
    BY <1>3 DEF Delete, DocInv, DocTypeOK
  <2>3. {d} \in SUBSET Doc
    OBVIOUS
  <2> QED  BY <2>1, <2>2, <2>3, DocumentsGo
<1>4. ASSUME DeleteBase PROVE DocInv'
  <2>1. PICK D : D = InBase \cap Doc
    OBVIOUS
  <2>2. docs' = Removed(D) /\ units' = [c \in Doc |-> IF c \in D THEN "none" ELSE units[c]] /\ stray' = stray \ D
    <3>1. Removed(InBase) = Removed(D)
      BY <2>1 DEF Removed
    <3>2. stray \subseteq Doc
      BY DEF DocInv, DocTypeOK
    <3> QED  BY <1>4, <2>1, <3>1, <3>2 DEF DeleteBase
  <2>3. base' \in BOOLEAN /\ UNCHANGED <<uploads, worker, filling, attempts, model, purged, docFaults, docOps>>
    BY <1>4 DEF DeleteBase
  <2>4. D \in SUBSET Doc
    BY <2>1
  <2> QED  BY <2>2, <2>3, <2>4, DocumentsGo
<1>5. ASSUME NEW D \in SUBSET Doc, PurgeDocuments(D) PROVE DocInv'
  <2>1. docs' = Removed(D) /\ units' = [c \in Doc |-> IF c \in D THEN "none" ELSE units[c]] /\ stray' = stray \ D /\ base' \in BOOLEAN
        /\ UNCHANGED <<uploads, worker, filling, attempts, model, purged, docFaults, docOps>>
    BY <1>5 DEF PurgeDocuments, DocInv, DocTypeOK
  <2> QED  BY <2>1, DocumentsGo
<1>6. ASSUME Summarize PROVE DocInv'
  <2>1. PICK has \in BOOLEAN : worker' = [worker EXCEPT !.pc = "sync", !.sum = has]
    BY <1>6 DEF Summarize
  <2>2. worker' = [pc |-> "sync", doc |-> worker.doc, sum |-> has, emb |-> worker.emb]
    BY <1>0, <2>1
  <2>3. UNCHANGED <<docs, units, base, uploads, filling, attempts, model, stray, purged, docFaults, docOps>> /\ worker.pc = "summary"
    BY <1>6 DEF Summarize
  <2>4. worker' \in [pc : {"rest", "summary", "sync", "save"}, doc : Doc \cup {"none"}, sum : BOOLEAN, emb : Vectors] /\ worker'.doc = worker.doc
    BY <1>0, <2>2
  <2>5. filling # Resting => filling.model \in Model
    BY DEF DocInv, CountsAreLow
  <2> QED  BY <1>0, <2>3, <2>4, <2>5, WorkerMoves
<1>7. ASSUME Embed PROVE DocInv'
  <2>1. worker' = [worker EXCEPT !.pc = "save", !.emb = model] /\ worker.pc = "sync"
        /\ UNCHANGED <<docs, units, base, uploads, filling, attempts, model, stray, purged, docFaults, docOps>>
    BY <1>7 DEF Embed
  <2>2. worker' = [pc |-> "save", doc |-> worker.doc, sum |-> worker.sum, emb |-> model] /\ model \in Vectors
    BY <1>0, <2>1 DEF DocInv, DocTypeOK
  <2>3. worker' \in [pc : {"rest", "summary", "sync", "save"}, doc : Doc \cup {"none"}, sum : BOOLEAN, emb : Vectors] /\ worker'.doc = worker.doc
    BY <1>0, <2>2
  <2>4. filling # Resting => filling.model \in Model
    BY DEF DocInv, CountsAreLow
  <2> QED  BY <1>0, <2>1, <2>3, <2>4, WorkerMoves
<1>8. ASSUME BackfillReads \/ BackfillFails PROVE DocInv'
  <2>1. UNCHANGED <<docs, units, base, uploads, worker, attempts, model, stray, purged, docOps>>
    BY <1>8 DEF BackfillReads, BackfillFails
  <2>2. filling' \in [model : Vectors, units : SUBSET Doc] /\ (filling' # Resting => filling'.model \in Model)
    <3>1. CASE BackfillReads
      <4>1. model \in Vectors /\ model # NoModel
        BY <3>1 DEF DocInv, DocTypeOK, BackfillReads
      <4>2. model \in Model
        BY <4>1 DEF Vectors
      <4> QED  BY <3>1, <4>1, <4>2 DEF BackfillReads
    <3>2. CASE BackfillFails
      BY <3>2 DEF BackfillFails, Resting, Vectors
    <3> QED  BY <1>8, <3>1, <3>2
  <2>3. docFaults' \in 0..MaxDocFaults
    BY <1>0, <1>a, <1>8 DEF BackfillReads, BackfillFails
  <2>4. CASE worker.pc # "mark"
    <3>1. worker' \in [pc : {"rest", "summary", "sync", "save"}, doc : Doc \cup {"none"}, sum : BOOLEAN, emb : Vectors]
      BY <1>0, <2>1, <2>4
    <3> QED  BY <1>0, <2>1, <2>2, <2>3, <2>4, <3>1, WorkerMoves
  <2>5. CASE worker.pc = "mark"
    <3>1. Searchable' = Searchable /\ \A c \in Doc : Exists(c)' = Exists(c)
      BY <2>1 DEF Searchable, Exists
    <3>2. Exists(worker.doc)' = Exists(worker.doc)
      BY <2>1 DEF Exists
    <3>3. DocTypeOK' /\ CountsAreLow' /\ UploadsAreNew'
      BY <2>1, <2>2, <2>3, <3>1 DEF DocInv, DocTypeOK, CountsAreLow, UploadsAreNew
    <3>4. WrittenIsThere' /\ IndexFollowsDocuments'
      BY <2>1, <3>1, <3>2 DEF DocInv, WrittenIsThere, IndexFollowsDocuments, Searchable
    <3> QED  BY <3>3, <3>4 DEF DocInv
  <2> QED  BY <2>4, <2>5
<1>9. ASSUME UNCHANGED docVars PROVE DocInv'
  <2>1. UNCHANGED <<docs, units, base, uploads, worker, filling, attempts, model, stray, purged, docFaults, docOps>>
    BY <1>9 DEF docVars
  <2>2. Searchable' = Searchable /\ \A c \in Doc : Exists(c)' = Exists(c)
    BY <2>1 DEF Searchable, Exists
  <2>3. Exists(worker.doc)' = Exists(worker.doc)
    BY <2>1 DEF Exists
  <2>4. DocTypeOK' /\ CountsAreLow' /\ UploadsAreNew'
    BY <2>1, <2>2 DEF DocInv, DocTypeOK, CountsAreLow, UploadsAreNew
  <2>5. WrittenIsThere' /\ IndexFollowsDocuments'
    BY <2>1, <2>2, <2>3 DEF DocInv, WrittenIsThere, IndexFollowsDocuments, Searchable
  <2> QED  BY <2>4, <2>5 DEF DocInv
<1> QED
  BY <1>1, <1>2, <1>3, <1>4, <1>5, <1>6, <1>7, <1>8, <1>9, TakesADocument, TheIndexGoes, TheWorkerWrites, TheWorkerMarks,
     TheFillWrites, AnUploadEnds, AReindexIsAsked, TheWorkerFails, AProcessEnds
  DEF DocNext, IndexDocument, Backfill

-----------------------------------------------------------------------------
(***************************************************************************)
(* Knowledge bases: every step keeps the invariant                         *)
(***************************************************************************)
\* The parts of the invariant that speak of numbers and rows, as the steps need them
LEMMA IndexFacts ==
    ASSUME IndexInv
    PROVE  /\ MaxChanges \in Nat /\ changes \in Nat /\ changes <= MaxChanges
           /\ indexJob.requested \in Nat /\ indexJob.requested <= MaxChanges + 2
           /\ indexJob.st \in {"none", "pending", "running", "failed", "succeeded"}
           /\ indexJob = [st |-> indexJob.st, requested |-> indexJob.requested]
           /\ \A r \in Runner : /\ runner[r] \in RunnerRow /\ runner[r].start \in Nat /\ runner[r].taken \in Nat
                                /\ runner[r].pc \in {"off", "taken", "queues", "waits", "embeds", "marks"}
           /\ \A t \in Talk : talks[t] \in TalkRow /\ talks[t].rev \in Nat /\ talks[t].rev <= changes
           /\ Current \subseteq Evidence
<1>1. MaxChanges \in Nat
  BY IndexAssumption
<1>2. changes \in 0..MaxChanges /\ indexJob \in IndexJobRow
  BY DEF IndexInv, IndexTypes, IndexTypeOK
<1>3. /\ indexJob.requested \in 0..MaxChanges + 2 /\ indexJob.st \in {"none", "pending", "running", "failed", "succeeded"}
      /\ indexJob = [st |-> indexJob.st, requested |-> indexJob.requested]
  BY <1>2 DEF IndexJobRow
<1>4. \A r \in Runner : runner[r] \in RunnerRow
  BY DEF IndexInv, IndexTypes
<1>5. \A r \in Runner : runner[r].start \in Nat /\ runner[r].taken \in Nat
                        /\ runner[r].pc \in {"off", "taken", "queues", "waits", "embeds", "marks"}
  BY <1>4 DEF RunnerRow
<1>6. \A t \in Talk : talks[t] \in TalkRow /\ talks[t].rev <= changes
  BY DEF IndexInv, IndexTypes, IndexTypeOK
<1>7. \A t \in Talk : talks[t].rev \in 0..MaxChanges
  BY <1>6 DEF TalkRow
<1>8. Current \subseteq Evidence
  BY <1>7 DEF Current, Evidence
<1> QED  BY <1>1, <1>2, <1>3, <1>4, <1>5, <1>6, <1>7, <1>8

\* The invariant of a knowledge base holds when its first request is pending
LEMMA IndexBegins == IndexInit => IndexInv
<1> SUFFICES ASSUME IndexInit PROVE IndexInv
  OBVIOUS
<1>1. MaxChanges \in Nat /\ MaxIndexFaults \in Nat
  BY IndexAssumption
<1>2. /\ wiki = TRUE /\ indexJob = [st |-> "pending", requested |-> 1] /\ copies = {} /\ saved = {}
      /\ asking = NotAsking /\ changes = 0 /\ indexFaults = 0 /\ emptied = FALSE
      /\ runner = [r \in Runner |-> Off]
      /\ talks = [t \in Talk |-> [gone |-> FALSE, inBase |-> TRUE, enabled |-> TRUE, rev |-> 0]]
  BY DEF IndexInit
<1>3. Off \in RunnerRow /\ Off.pc = "off" /\ Off.sources = {} /\ Off.existing = {}
  BY DEF Off, RunnerRow
<1>4. \A r \in Runner : runner[r] = Off
  BY <1>2
<1>5. talks \in [Talk -> TalkRow] /\ \A t \in Talk : talks[t].rev = 0
  BY <1>1, <1>2 DEF TalkRow
<1>6. indexJob \in IndexJobRow /\ 0 \in 0..MaxChanges /\ 0 \in 0..MaxIndexFaults
  BY <1>1, <1>2 DEF IndexJobRow
<1>7. NotAsking \in [on : BOOLEAN, given : SUBSET Evidence] /\ NotAsking.given = {}
  BY DEF NotAsking
<1>8. IndexTypes
  <2>1. IndexTypeOK
    BY <1>2, <1>3, <1>4, <1>5, <1>6, <1>7 DEF IndexTypeOK
  <2> QED  BY <1>2, <1>3, <1>5, <1>7, <2>1 DEF IndexTypes
<1>9. \A r \in Runner : runner[r].pc = "off"
  BY <1>3, <1>4
<1>10. indexJob.st = "pending" /\ indexJob.requested = 1
  BY <1>2
<1>11. RequestsGrow /\ NewestReadsCurrent
  BY <1>2, <1>9, <1>10 DEF RequestsGrow, NewestReadsCurrent, Works, Writes
<1>12. OneAtATime /\ NewestIsThere
  BY <1>9, <1>10 DEF OneAtATime, NewestIsThere, Behind
<1>13. AnswersStayTrue
  BY <1>2 DEF AnswersStayTrue
<1> QED  BY <1>8, <1>11, <1>12, <1>13 DEF IndexInv

\* A change of the evidence, or a purge of the copies: a newer request, or nothing changes
LEMMA EvidenceMoves ==
    ASSUME IndexInv, changes < MaxChanges, changes' = changes + 1, UNCHANGED <<wiki, runner, asking, indexFaults>>,
           talks' \in [Talk -> TalkRow], \A t \in Talk : talks'[t].rev <= changes + 1,
           copies' \subseteq copies, saved' \subseteq saved, AnswersStayTrue', emptied' \in BOOLEAN,
           \/ indexJob' = [st |-> "pending", requested |-> changes + 2]
           \/ UNCHANGED indexJob /\ ~wiki
           \/ UNCHANGED indexJob /\ Current' = Current /\ emptied'
           \/ UNCHANGED indexJob /\ Current' = Current /\ UNCHANGED emptied /\ (copies = Current => copies' = Current)
    PROVE  IndexInv'
<1>1. /\ MaxChanges \in Nat /\ changes \in Nat /\ changes + 1 \in 0..MaxChanges /\ changes + 2 \in 0..MaxChanges + 2
      /\ indexJob.requested \in Nat /\ \A r \in Runner : runner[r].start \in Nat
  BY IndexFacts
<1>2. indexJob' \in IndexJobRow
  <2>1. [st |-> "pending", requested |-> changes + 2] \in IndexJobRow
    BY <1>1 DEF IndexJobRow
  <2> QED  BY <2>1 DEF IndexInv, IndexTypes, IndexTypeOK
<1>3. IndexTypes'
  BY <1>1, <1>2 DEF IndexInv, IndexTypes, IndexTypeOK
<1>4. \A r \in Runner : Works(r)' = Works(r) /\ Writes(r)' = Writes(r)
  BY DEF Works, Writes
<1>5. \A r, q \in Runner : Behind(q, r)' = Behind(q, r)
  BY DEF Behind
<1>6. OneAtATime'
  BY <1>5 DEF IndexInv, OneAtATime
<1>7. CASE indexJob' = [st |-> "pending", requested |-> changes + 2]
  <2>1. indexJob'.st = "pending" /\ indexJob'.requested = changes + 2
    BY <1>7
  <2>2. wiki => \A r \in Runner : Works(r) => runner[r].start < changes + 2
    BY <1>1 DEF IndexInv, RequestsGrow
  <2>3. wiki => \A r \in Runner : Works(r) => ~Newest(r)'
    BY <1>1, <2>1, <2>2 DEF Newest
  <2>4. RequestsGrow'
    BY <1>1, <1>4, <2>1, <2>2 DEF RequestsGrow
  <2>5. NewestReadsCurrent'
    BY <1>4, <2>3 DEF NewestReadsCurrent
  <2>6. NewestIsThere'
    BY <2>1, <2>3 DEF NewestIsThere, Works
  <2> QED  BY <1>3, <1>6, <2>4, <2>5, <2>6 DEF IndexInv
<1>8. ASSUME UNCHANGED indexJob, Current' = Current, OneProcess /\ wiki /\ ~emptied' => ~emptied /\ (copies = Current => copies' = Current)
      PROVE  IndexInv'
  <2>1. \A r \in Runner : Newest(r)' = Newest(r)
    BY <1>8 DEF Newest
  <2>2. RequestsGrow'
    BY <1>1, <1>4, <1>8 DEF IndexInv, RequestsGrow
  <2>3. NewestReadsCurrent'
    BY <1>8 DEF IndexInv, NewestReadsCurrent, Works, Writes, Newest
  <2>4. NewestIsThere'
    <3> SUFFICES ASSUME OneProcess, wiki PROVE NewestIsThere'
      BY DEF NewestIsThere
    <3>1. \A r \in Runner : runner[r].pc = "marks" /\ Newest(r) /\ ~emptied => copies = Current
      BY DEF IndexInv, NewestIsThere
    <3>2. indexJob.st = "succeeded" => (~emptied => copies = Current) /\ \A r \in Runner : Writes(r) => Newest(r)
      BY DEF IndexInv, NewestIsThere
    <3>3. \A r \in Runner : runner[r].pc = "marks" /\ Newest(r) /\ ~emptied' => copies' = Current'
      BY <1>8, <3>1
    <3>4. indexJob'.st = "succeeded" => (~emptied' => copies' = Current') /\ \A r \in Runner : Writes(r)' => Newest(r)'
      BY <1>4, <1>8, <2>1, <3>2
    <3> QED  BY <2>1, <3>3, <3>4 DEF NewestIsThere
  <2> QED  BY <1>3, <1>6, <2>2, <2>3, <2>4 DEF IndexInv
<1>9. CASE UNCHANGED indexJob /\ ~wiki
  BY <1>3, <1>6, <1>9 DEF IndexInv, RequestsGrow, NewestReadsCurrent, NewestIsThere
<1>10. CASE UNCHANGED indexJob /\ Current' = Current /\ emptied'
  BY <1>8, <1>10
<1>11. CASE UNCHANGED indexJob /\ Current' = Current /\ UNCHANGED emptied /\ (copies = Current => copies' = Current)
  <2>1. OneProcess /\ wiki /\ ~emptied' => ~emptied /\ (copies = Current => copies' = Current)
    BY <1>11
  <2> QED  BY <1>8, <1>11, <2>1
<1> QED  BY <1>7, <1>9, <1>10, <1>11

\* Runs that stop: nothing else moves, and an index that becomes served holds the newest
LEMMA RunsStop ==
    ASSUME IndexInv, UNCHANGED <<talks, wiki, copies, saved, asking, changes, emptied>>,
           runner' \in [Runner -> RunnerRow], indexFaults' \in 0..MaxIndexFaults, indexJob' \in IndexJobRow,
           \A r \in Runner : runner'[r] = runner[r] \/ runner'[r].pc \in {"off", "taken"},
           OneProcess /\ wiki => \/ \A r \in Runner : runner'[r] = runner[r] \/ runner[r].pc # "waits"
                                 \/ \A r \in Runner : runner'[r].pc \in {"off", "taken"},
           wiki => indexJob'.requested = indexJob.requested /\ indexJob'.st # "none",
           wiki /\ OneProcess /\ indexJob'.st = "succeeded" =>
               (~emptied => copies = Current) /\ \A r \in Runner : Writes(r)' => Newest(r)
    PROVE  IndexInv'
<1>1. indexJob.requested \in Nat /\ changes \in Nat /\ \A r \in Runner : runner[r].start \in Nat
  BY IndexFacts
<1>2. IndexTypes'
  <2>1. \A r \in Runner : /\ runner'[r].pc \in {"off", "taken", "queues", "waits", "embeds", "marks"}
                          /\ runner'[r].sources \cup runner'[r].existing \subseteq Evidence
    BY DEF RunnerRow
  <2> QED  BY <2>1 DEF IndexInv, IndexTypes, IndexTypeOK
<1>3. Current' = Current /\ AnswersStayTrue'
  BY DEF Current, AnswersStayTrue, IndexInv
<1>4. \A r \in Runner : (Works(r)' => Works(r) /\ runner'[r] = runner[r]) /\ (Writes(r)' => Writes(r) /\ runner'[r] = runner[r])
  BY DEF Works, Writes
<1>5. \A r \in Runner : wiki => Newest(r)' = (runner'[r].start = indexJob.requested)
  BY DEF Newest
<1>6. RequestsGrow'
  BY <1>4 DEF IndexInv, RequestsGrow
<1>7. NewestReadsCurrent'
  BY <1>3, <1>4, <1>5 DEF IndexInv, NewestReadsCurrent, Newest
<1>8. OneAtATime'
  BY DEF IndexInv, OneAtATime, Behind
<1>9. NewestIsThere'
  BY <1>3, <1>4, <1>5 DEF IndexInv, NewestIsThere, Newest, Writes
<1> QED  BY <1>2, <1>3, <1>6, <1>7, <1>8, <1>9 DEF IndexInv

\* Who is in the base, one by one
LEMMA InTheBase ==
    \A e : e \in Current <=> \E t \in Talk : ~talks[t].gone /\ talks[t].inBase /\ talks[t].enabled /\ e = <<t, talks[t].rev>>
BY DEF Current

\* A change of one meeting keeps the evidence of the others
LEMMA OneTalkChanges ==
    ASSUME IndexInv, NEW t \in Talk, NEW row \in TalkRow, row.rev <= changes + 1, talks' = [talks EXCEPT ![t] = row],
           changes < MaxChanges, changes' = changes + 1, UNCHANGED <<wiki, runner, asking, indexFaults, emptied>>,
           copies' \in {copies, Purged(t)},
           \/ saved' = Uncited(t)
           \/ /\ saved' = saved /\ row.rev = talks[t].rev
              /\ (row.gone => talks[t].gone) /\ (talks[t].inBase => row.inBase) /\ (talks[t].enabled => row.enabled),
           \/ indexJob' = [st |-> "pending", requested |-> changes + 2]
           \/ UNCHANGED indexJob /\ ~wiki
           \/ UNCHANGED indexJob /\ ~talks[t].inBase /\ ~row.inBase
    PROVE  IndexInv'
<1>1. talks \in [Talk -> TalkRow]
  BY DEF IndexInv, IndexTypes, IndexTypeOK
<1>2. talks' \in [Talk -> TalkRow] /\ talks'[t] = row /\ \A u \in Talk : u # t => talks'[u] = talks[u]
  BY <1>1
<1>3. changes \in Nat /\ \A u \in Talk : talks[u].rev \in Nat /\ talks[u].rev <= changes
  BY IndexFacts
<1>4. \A u \in Talk : talks'[u].rev <= changes + 1
  BY <1>2, <1>3
<1>5. copies' \subseteq copies /\ saved' \subseteq saved
  BY DEF Purged, Uncited
<1>6. \A e : e \in Current' <=> \E u \in Talk : ~talks'[u].gone /\ talks'[u].inBase /\ talks'[u].enabled /\ e = <<u, talks'[u].rev>>
  BY DEF Current
<1>7. \A e \in Current : e[1] # t => e \in Current'
  BY <1>2, <1>6, InTheBase
<1>8. AnswersStayTrue'
  <2> SUFFICES ASSUME NEW c \in saved', ~c.late
               PROVE  c.cited \subseteq Current'
    BY DEF AnswersStayTrue
  <2>1. c.cited \subseteq Current
    BY <1>5 DEF IndexInv, AnswersStayTrue
  <2>2. CASE saved' = Uncited(t)
    <3>1. \A e \in c.cited : e[1] # t
      BY <2>2 DEF Uncited
    <3> QED  BY <1>7, <2>1, <3>1
  <2>3. CASE /\ saved' = saved /\ row.rev = talks[t].rev
             /\ (row.gone => talks[t].gone) /\ (talks[t].inBase => row.inBase) /\ (talks[t].enabled => row.enabled)
    <3>1. \A e \in Current : e \in Current'
      BY <1>2, <1>6, <2>3, InTheBase
    <3> QED  BY <2>1, <3>1
  <2> QED  BY <2>2, <2>3
<1>9. emptied' \in BOOLEAN
  BY DEF IndexInv, IndexTypes, IndexTypeOK
<1>10. ASSUME ~talks[t].inBase, ~row.inBase
       PROVE  Current' = Current /\ (copies = Current => copies' = Current)
  <2>1. \A e : e \in Current' <=> e \in Current
    BY <1>2, <1>6, <1>10, InTheBase
  <2>2. \A e \in Current : e[1] # t
    BY <1>10, InTheBase
  <2>3. Current' = Current
    BY <2>1
  <2>4. copies = Current => Purged(t) = Current
    BY <2>2 DEF Purged
  <2> QED  BY <2>3, <2>4
<1>11. CASE indexJob' = [st |-> "pending", requested |-> changes + 2]
  BY <1>2, <1>4, <1>5, <1>8, <1>9, <1>11, EvidenceMoves
<1>12. CASE UNCHANGED indexJob /\ ~wiki
  BY <1>2, <1>4, <1>5, <1>8, <1>9, <1>12, EvidenceMoves
<1>13. CASE UNCHANGED indexJob /\ ~talks[t].inBase /\ ~row.inBase
  <2>1. Current' = Current /\ UNCHANGED emptied /\ (copies = Current => copies' = Current)
    BY <1>10, <1>13
  <2> QED  BY <1>2, <1>4, <1>5, <1>8, <1>9, <1>13, <2>1, EvidenceMoves
<1> QED  BY <1>11, <1>12, <1>13

\* A new revision, the switch, the association and the end of a meeting
LEMMA AMeetingChanges ==
    ASSUME IndexInv, NEW t \in Talk, NEW on \in BOOLEAN,
           ChangeEvidence(t) \/ SetKnowledge(t, on) \/ AssignMeeting(t, on) \/ DeleteMeeting(t)
    PROVE  IndexInv'
<1>1. PICK old : old = talks[t]
  OBVIOUS
<1>2. /\ changes \in Nat /\ MaxChanges \in Nat /\ old \in TalkRow /\ old.rev \in Nat /\ old.rev <= changes
  BY <1>1, IndexFacts
<1>3. /\ changes < MaxChanges /\ changes' = changes + 1 /\ ~old.gone
      /\ UNCHANGED <<wiki, runner, asking, indexFaults, emptied>>
  BY <1>1 DEF ChangeEvidence, SetKnowledge, AssignMeeting, DeleteMeeting, Count
<1>4. old.gone \in BOOLEAN /\ old.inBase \in BOOLEAN /\ old.enabled \in BOOLEAN /\ old.rev + 1 \in 0..MaxChanges
  BY <1>2, <1>3 DEF TalkRow
<1>5. CASE ChangeEvidence(t)
  <2>1. PICK row : row = [old EXCEPT !.rev = @ + 1]
    OBVIOUS
  <2>2. row = [gone |-> old.gone, inBase |-> old.inBase, enabled |-> old.enabled, rev |-> old.rev + 1]
    BY <1>2, <2>1 DEF TalkRow
  <2>3. row \in TalkRow /\ row.inBase = old.inBase /\ row.rev <= changes + 1
    BY <1>2, <1>4, <2>2 DEF TalkRow
  <2>4. talks' = [talks EXCEPT ![t] = row] /\ copies' = Purged(t) /\ saved' = Uncited(t) /\ Queued(old.inBase)
    BY <1>1, <1>5, <2>1 DEF ChangeEvidence
  <2>5. \/ indexJob' = [st |-> "pending", requested |-> changes + 2]
        \/ UNCHANGED indexJob /\ ~wiki
        \/ UNCHANGED indexJob /\ ~talks[t].inBase /\ ~row.inBase
    BY <1>1, <2>3, <2>4 DEF Queued
  <2> QED  BY <1>3, <2>3, <2>4, <2>5, OneTalkChanges
<1>6. CASE SetKnowledge(t, on)
  <2>1. PICK row : row = [old EXCEPT !.enabled = on]
    OBVIOUS
  <2>2. row = [gone |-> old.gone, inBase |-> old.inBase, enabled |-> on, rev |-> old.rev]
    BY <1>2, <2>1 DEF TalkRow
  <2>3. row \in TalkRow /\ row.inBase = old.inBase /\ row.rev = old.rev /\ row.gone = old.gone /\ row.enabled = on
    BY <1>2, <2>2 DEF TalkRow
  <2>4. talks' = [talks EXCEPT ![t] = row] /\ copies' = Purged(t) /\ Queued(old.inBase)
        /\ saved' = IF on THEN saved ELSE Uncited(t)
    BY <1>1, <1>6, <2>1 DEF SetKnowledge
  <2>5. \/ indexJob' = [st |-> "pending", requested |-> changes + 2]
        \/ UNCHANGED indexJob /\ ~wiki
        \/ UNCHANGED indexJob /\ ~talks[t].inBase /\ ~row.inBase
    BY <1>1, <2>3, <2>4 DEF Queued
  <2>6. \/ saved' = Uncited(t)
        \/ /\ saved' = saved /\ row.rev = talks[t].rev
           /\ (row.gone => talks[t].gone) /\ (talks[t].inBase => row.inBase) /\ (talks[t].enabled => row.enabled)
    BY <1>1, <2>3, <2>4
  <2>7. row.rev <= changes + 1
    BY <1>2, <2>3
  <2> QED  BY <1>3, <2>3, <2>4, <2>5, <2>6, <2>7, OneTalkChanges
<1>7. CASE AssignMeeting(t, on)
  <2>1. PICK row : row = [old EXCEPT !.inBase = on]
    OBVIOUS
  <2>2. row = [gone |-> old.gone, inBase |-> on, enabled |-> old.enabled, rev |-> old.rev]
    BY <1>2, <2>1 DEF TalkRow
  <2>3. row \in TalkRow /\ row.inBase = on /\ row.rev = old.rev /\ row.gone = old.gone /\ row.enabled = old.enabled
    BY <1>2, <2>2 DEF TalkRow
  <2>4. /\ talks' = [talks EXCEPT ![t] = row] /\ Queued(old.inBase \/ on)
        /\ IF old.inBase /\ ~on THEN copies' = Purged(t) /\ saved' = Uncited(t) ELSE UNCHANGED <<copies, saved>>
    BY <1>1, <1>7, <2>1 DEF AssignMeeting
  <2>5. \/ indexJob' = [st |-> "pending", requested |-> changes + 2]
        \/ UNCHANGED indexJob /\ ~wiki
        \/ UNCHANGED indexJob /\ ~talks[t].inBase /\ ~row.inBase
    BY <1>1, <2>3, <2>4 DEF Queued
  <2>6. \/ saved' = Uncited(t)
        \/ /\ saved' = saved /\ row.rev = talks[t].rev
           /\ (row.gone => talks[t].gone) /\ (talks[t].inBase => row.inBase) /\ (talks[t].enabled => row.enabled)
    BY <1>1, <2>3, <2>4
  <2>7. row.rev <= changes + 1 /\ copies' \in {copies, Purged(t)}
    BY <1>2, <2>3, <2>4
  <2> QED  BY <1>3, <2>3, <2>4, <2>5, <2>6, <2>7, OneTalkChanges
<1>8. CASE DeleteMeeting(t)
  <2>1. PICK row : row = [old EXCEPT !.gone = TRUE, !.inBase = FALSE]
    OBVIOUS
  <2>2. row = [gone |-> TRUE, inBase |-> FALSE, enabled |-> old.enabled, rev |-> old.rev]
    BY <1>2, <2>1 DEF TalkRow
  <2>3. row \in TalkRow /\ ~row.inBase /\ row.rev = old.rev
    BY <1>2, <2>2 DEF TalkRow
  <2>4. talks' = [talks EXCEPT ![t] = row] /\ copies' = Purged(t) /\ saved' = Uncited(t) /\ Queued(old.inBase)
    <3>1. talks' = [talks EXCEPT ![t].gone = TRUE, ![t].inBase = FALSE] /\ talks \in [Talk -> TalkRow]
      BY <1>8 DEF DeleteMeeting, IndexInv, IndexTypes, IndexTypeOK
    <3>2. talks' = [talks EXCEPT ![t] = row]
      BY <1>1, <2>1, <3>1
    <3> QED  BY <1>1, <1>8, <3>2 DEF DeleteMeeting
  <2>5. \/ indexJob' = [st |-> "pending", requested |-> changes + 2]
        \/ UNCHANGED indexJob /\ ~wiki
        \/ UNCHANGED indexJob /\ ~talks[t].inBase /\ ~row.inBase
    BY <1>1, <2>3, <2>4 DEF Queued
  <2>6. row.rev <= changes + 1
    BY <1>2, <2>3
  <2> QED  BY <1>3, <2>3, <2>4, <2>5, <2>6, OneTalkChanges
<1> QED  BY <1>5, <1>6, <1>7, <1>8

\* Only what was asked and answered moves
LEMMA OnlyAnswersMove ==
    ASSUME IndexInv, UNCHANGED <<talks, wiki, indexJob, copies, runner, changes, indexFaults, emptied>>,
           \A c \in saved' : c \in Conversation, AnswersStayTrue', asking' \in [on : BOOLEAN, given : SUBSET Evidence]
    PROVE  IndexInv'
<1>1. Current' = Current /\ \A r \in Runner : Works(r)' = Works(r) /\ Writes(r)' = Writes(r) /\ Newest(r)' = Newest(r)
  BY DEF Current, Works, Writes, Newest
<1>2. asking'.given \subseteq Evidence
  OBVIOUS
<1>3. IndexTypes'
  BY <1>2 DEF IndexInv, IndexTypes, IndexTypeOK
<1>4. RequestsGrow' /\ NewestReadsCurrent'
  BY <1>1 DEF IndexInv, RequestsGrow, NewestReadsCurrent
<1>5. OneAtATime' /\ NewestIsThere'
  <2>1. OneAtATime'
    BY DEF IndexInv, OneAtATime, Behind
  <2>2. NewestIsThere'
    BY <1>1 DEF IndexInv, NewestIsThere
  <2> QED  BY <2>1, <2>2
<1> QED  BY <1>3, <1>4, <1>5 DEF IndexInv

\* Questions, answers and what is purged of them
LEMMA AnswersMove ==
    ASSUME IndexInv, Ask \/ Answer \/ \E old \in SUBSET saved : PurgeChats(old)
    PROVE  IndexInv'
<1>1. asking \in [on : BOOLEAN, given : SUBSET Evidence] /\ (\A c \in saved : c \in Conversation) /\ AnswersStayTrue
      /\ Current \subseteq Evidence
  BY IndexFacts DEF IndexInv, IndexTypes, IndexTypeOK
<1>2. CASE Ask
  <2>1. UNCHANGED <<talks, wiki, indexJob, copies, runner, saved, changes, indexFaults, emptied>> /\ asking' = [on |-> TRUE, given |-> Current]
    BY <1>2 DEF Ask
  <2>2. AnswersStayTrue'
    BY <1>1, <2>1 DEF AnswersStayTrue, Current
  <2> QED  BY <1>1, <2>1, <2>2, OnlyAnswersMove
<1>3. CASE Answer
  <2>1. UNCHANGED <<talks, wiki, indexJob, copies, runner, changes, indexFaults, emptied>> /\ asking' = NotAsking
    BY <1>3 DEF Answer
  <2>2. PICK cited \in SUBSET asking.given \ {{}} :
          saved' = IF wiki THEN saved \cup {[cited |-> cited, late |-> ~(cited \subseteq Current)]} ELSE saved
    BY <1>3 DEF Answer
  <2>3. PICK answer : answer = [cited |-> cited, late |-> ~(cited \subseteq Current)]
    OBVIOUS
  <2>4. answer \in Conversation /\ answer.cited = cited /\ (answer.late <=> ~(cited \subseteq Current))
    <3>1. cited \subseteq Evidence
      BY <1>1, <2>2
    <3> QED  BY <2>3, <3>1 DEF Conversation
  <2>5. \A c \in saved' : c \in saved \/ c = answer
    BY <2>2, <2>3
  <2>6. Current' = Current
    BY <2>1 DEF Current
  <2>7. \A c \in saved' : c \in Conversation /\ (c.late \/ c.cited \subseteq Current)
    BY <1>1, <2>4, <2>5 DEF AnswersStayTrue
  <2>8. AnswersStayTrue'
    BY <2>6, <2>7 DEF AnswersStayTrue
  <2>9. NotAsking \in [on : BOOLEAN, given : SUBSET Evidence]
    BY DEF NotAsking
  <2> QED  BY <2>1, <2>7, <2>8, <2>9, OnlyAnswersMove
<1>4. CASE \E old \in SUBSET saved : PurgeChats(old)
  <2>1. UNCHANGED <<talks, wiki, indexJob, copies, runner, asking, emptied, changes, indexFaults>> /\ saved' \subseteq saved
    BY <1>4 DEF PurgeChats
  <2>2. AnswersStayTrue'
    BY <1>1, <2>1 DEF AnswersStayTrue, Current
  <2> QED  BY <1>1, <2>1, <2>2, OnlyAnswersMove
<1> QED  BY <1>2, <1>3, <1>4

\* The knowledge base goes, or its copies alone
LEMMA TheBaseMoves ==
    ASSUME IndexInv, DeleteWiki \/ \E reindex \in BOOLEAN : PurgeCopies(reindex)
    PROVE  IndexInv'
<1>1. changes \in Nat /\ MaxChanges \in Nat /\ \A t \in Talk : talks[t] \in TalkRow /\ talks[t].rev \in Nat /\ talks[t].rev <= changes
  BY IndexFacts
<1>2. CASE DeleteWiki
  <2>1. /\ changes < MaxChanges /\ changes' = changes + 1 /\ wiki' = FALSE /\ indexJob' = NoJob /\ copies' = {} /\ saved' = {}
        /\ talks' = [t \in Talk |-> [talks[t] EXCEPT !.inBase = FALSE, !.enabled = @ /\ ~talks[t].inBase]]
        /\ UNCHANGED <<runner, asking, indexFaults, emptied>>
    BY <1>2 DEF DeleteWiki, Count
  <2>2. \A t \in Talk : talks'[t] \in TalkRow /\ talks'[t].rev <= changes + 1
    <3> SUFFICES ASSUME NEW t \in Talk PROVE talks'[t] \in TalkRow /\ talks'[t].rev <= changes + 1
      OBVIOUS
    <3>1. PICK old : old = talks[t]
      OBVIOUS
    <3>2. PICK row : row = [old EXCEPT !.inBase = FALSE, !.enabled = @ /\ ~old.inBase]
      OBVIOUS
    <3>3. old \in TalkRow /\ old.rev \in Nat /\ old.rev <= changes
      BY <1>1, <3>1
    <3>4. row = [gone |-> old.gone, inBase |-> FALSE, enabled |-> old.enabled /\ ~old.inBase, rev |-> old.rev]
      BY <3>2, <3>3 DEF TalkRow
    <3>5. row \in TalkRow /\ row.rev = old.rev
      BY <3>3, <3>4 DEF TalkRow
    <3>6. talks'[t] = row
      BY <2>1, <3>1, <3>2
    <3> QED  BY <1>1, <3>3, <3>5, <3>6
  <2>3. talks' \in [Talk -> TalkRow]
    BY <2>1, <2>2
  <2>4. NoJob \in IndexJobRow
    BY <1>1 DEF NoJob, IndexJobRow
  <2>5. changes' \in 0..MaxChanges
    <3>1. changes < MaxChanges /\ changes' = changes + 1
      BY <2>1
    <3> QED  BY <1>1, <3>1
  <2>6. IndexTypes'
    BY <2>1, <2>2, <2>3, <2>4, <2>5 DEF IndexInv, IndexTypes, IndexTypeOK
  <2>7. AnswersStayTrue' /\ RequestsGrow' /\ NewestReadsCurrent' /\ OneAtATime' /\ NewestIsThere'
    BY <2>1 DEF AnswersStayTrue, RequestsGrow, NewestReadsCurrent, OneAtATime, NewestIsThere
  <2> QED  BY <2>6, <2>7 DEF IndexInv
<1>3. ASSUME NEW reindex \in BOOLEAN, PurgeCopies(reindex) PROVE IndexInv'
  <2>1. /\ changes < MaxChanges /\ changes' = changes + 1 /\ copies' = {} /\ emptied' = ~reindex
        /\ IF reindex THEN indexJob' = [st |-> "pending", requested |-> changes + 2] ELSE UNCHANGED indexJob
        /\ UNCHANGED <<talks, wiki, runner, saved, asking, indexFaults>>
    BY <1>3 DEF PurgeCopies, Count
  <2>2. talks' \in [Talk -> TalkRow] /\ \A t \in Talk : talks'[t].rev <= changes + 1
    BY <1>1, <2>1 DEF IndexInv, IndexTypes, IndexTypeOK
  <2>3. Current' = Current /\ AnswersStayTrue'
    BY <2>1 DEF Current, IndexInv, AnswersStayTrue
  <2>4. \/ indexJob' = [st |-> "pending", requested |-> changes + 2]
        \/ UNCHANGED indexJob /\ Current' = Current /\ emptied'
    BY <2>1, <2>3
  <2>5. copies' \subseteq copies /\ saved' \subseteq saved /\ emptied' \in BOOLEAN
    BY <2>1
  <2> QED  BY <2>1, <2>2, <2>3, <2>4, <2>5, EvidenceMoves
<1> QED  BY <1>2, <1>3

\* The worker takes the job: it has not read anything yet
LEMMA TheJobIsTaken ==
    ASSUME IndexInv, TakeJob
    PROVE  IndexInv'
<1>1. PICK row : row = [Off EXCEPT !.pc = "taken", !.taken = indexJob.requested]
  OBVIOUS
<1>2. row = [pc |-> "taken", taken |-> indexJob.requested, start |-> 0, sources |-> {}, existing |-> {}]
  BY <1>1 DEF Off
<1>3. indexJob.requested \in Nat /\ indexJob = [st |-> indexJob.st, requested |-> indexJob.requested] /\ indexJob \in IndexJobRow
  BY IndexFacts DEF IndexInv, IndexTypes, IndexTypeOK
<1>4. row \in RunnerRow /\ row.pc = "taken"
  BY <1>2, <1>3 DEF RunnerRow
<1>5. runner \in [Runner -> RunnerRow] /\ "worker" \in Runner
  BY DEF IndexInv, IndexTypes, Runner
<1>6. runner' = [runner EXCEPT !["worker"] = row] /\ runner["worker"].pc = "off" /\ indexJob' = [indexJob EXCEPT !.st = "running"]
      /\ UNCHANGED <<talks, wiki, copies, saved, asking, changes, indexFaults, emptied>>
  BY <1>1 DEF TakeJob, Off
<1>7. runner' \in [Runner -> RunnerRow] /\ \A r \in Runner : runner'[r] = runner[r] \/ (runner'[r].pc = "taken" /\ runner[r].pc = "off")
  BY <1>4, <1>5, <1>6
<1>8. indexJob' = [st |-> "running", requested |-> indexJob.requested]
  BY <1>3, <1>6
<1>9. indexJob' \in IndexJobRow /\ indexJob'.st = "running" /\ indexJob'.requested = indexJob.requested
  BY <1>3, <1>8 DEF IndexJobRow
<1>10. indexFaults' \in 0..MaxIndexFaults
  BY <1>6 DEF IndexInv, IndexTypes, IndexTypeOK
<1> QED  BY <1>6, <1>7, <1>9, <1>10, RunsStop

\* There are two runners
LEMMA TheOther == \A r \in Runner : \E q \in Runner : q # r /\ \A p \in Runner : p = r \/ p = q
BY DEF Runner

\* A run begins: it answers the newest request from the evidence as it is, and goes to the end of the line
LEMMA ARunBegins ==
    ASSUME IndexInv, NEW r \in Runner, Begin(r)
    PROVE  IndexInv'
<1>1. PICK q \in Runner : q # r /\ \A p \in Runner : p = r \/ p = q
  BY TheOther
<1>2. PICK pc : pc = IF Others(r, {"waits"}) THEN "queues" ELSE IF OneProcess /\ ~Others(r, {"embeds"}) THEN "embeds" ELSE "waits"
  OBVIOUS
<1>3. PICK row : row = [runner[r] EXCEPT !.pc = pc, !.start = indexJob.requested, !.sources = Current, !.existing = copies]
  OBVIOUS
<1>4. /\ runner' = [runner EXCEPT ![r] = row] /\ wiki /\ runner[r].pc \in {"off", "taken"}
      /\ UNCHANGED <<talks, wiki, indexJob, copies, saved, asking, changes, indexFaults, emptied>>
  BY <1>2, <1>3 DEF Begin
<1>5. /\ runner[r] \in RunnerRow /\ indexJob.requested \in Nat /\ Current \subseteq Evidence /\ copies \subseteq Evidence
      /\ runner \in [Runner -> RunnerRow] /\ runner[q].start \in Nat
  BY IndexFacts DEF IndexInv, IndexTypes, IndexTypeOK
<1>6. row = [pc |-> pc, taken |-> runner[r].taken, start |-> indexJob.requested, sources |-> Current, existing |-> copies]
  BY <1>3, <1>5 DEF RunnerRow
<1>7. pc \in {"queues", "waits", "embeds"}
  BY <1>2
<1>8. row \in RunnerRow /\ row.pc = pc /\ row.start = indexJob.requested /\ row.sources = Current /\ row.existing = copies
  BY <1>5, <1>6, <1>7 DEF RunnerRow
<1>9. runner' \in [Runner -> RunnerRow] /\ runner'[r] = row /\ runner'[q] = runner[q]
  BY <1>1, <1>4, <1>5, <1>8
<1>10. Current' = Current
  BY <1>4 DEF Current
<1>11. IndexTypes'
  <2>1. \A p \in Runner : /\ runner'[p].pc \in {"off", "taken", "queues", "waits", "embeds", "marks"}
                          /\ runner'[p].sources \cup runner'[p].existing \subseteq Evidence
    BY <1>9 DEF RunnerRow
  <2> QED  BY <1>4, <1>9, <2>1 DEF IndexInv, IndexTypes, IndexTypeOK
<1>12. RequestsGrow'
  <2>1. indexJob.st # "none" /\ indexJob.requested < changes + 2 /\ \A p \in Runner : Works(p) => runner[p].start <= indexJob.requested
    BY <1>4 DEF IndexInv, RequestsGrow
  <2>2. \A p \in Runner : Works(p)' => runner'[p].start <= indexJob.requested
    BY <1>1, <1>5, <1>8, <1>9, <2>1 DEF Works, Writes
  <2> QED  BY <1>4, <2>1, <2>2 DEF RequestsGrow
<1>13. NewestReadsCurrent'
  <2>1. \A p \in Runner : Works(p) /\ Newest(p) => runner[p].sources = Current
    BY <1>4 DEF IndexInv, NewestReadsCurrent
  <2>2. \A p \in Runner : Works(p)' /\ Newest(p)' => runner'[p].sources = Current
    BY <1>1, <1>4, <1>8, <1>9, <2>1 DEF Works, Writes, Newest
  <2> QED  BY <1>10, <2>2 DEF NewestReadsCurrent
<1>14. ASSUME OneProcess PROVE OneAtATime' /\ NewestIsThere'
  <2>1. /\ runner[q].pc # "queues"
        /\ runner[q].pc = "embeds" => copies \subseteq runner[q].existing
    BY <1>1, <1>4, <1>14 DEF IndexInv, OneAtATime
  <2>2. pc = IF runner[q].pc = "waits" THEN "queues" ELSE IF runner[q].pc # "embeds" THEN "embeds" ELSE "waits"
    BY <1>1, <1>2, <1>14 DEF Others
  <2>3. Works(q) => runner[q].start <= indexJob.requested
    BY <1>4 DEF IndexInv, RequestsGrow
  <2>4. Behind(r, q)' => runner'[q].start <= runner'[r].start
    BY <1>7, <1>8, <1>9, <2>3 DEF Behind, Works, Writes
  <2>5. ~Behind(q, r)'
    BY <1>7, <1>8, <1>9, <2>1, <2>2 DEF Behind
  <2>6. \A p \in Runner : ~Behind(p, p)'
    BY DEF Behind
  <2>7. OneAtATime'
    <3>1. \A p, o \in Runner : p # o /\ runner'[p].pc = runner'[o].pc => runner'[p].pc \notin {"queues", "waits", "embeds"}
      BY <1>1, <1>7, <1>8, <1>9, <2>1, <2>2
    <3>2. \A p, o \in Runner : p # o /\ runner'[o].pc = "queues" => runner'[p].pc = "waits"
      BY <1>1, <1>8, <1>9, <2>1, <2>2
    <3>3. \A p, o \in Runner : Behind(o, p)' => runner'[p].start <= runner'[o].start
      BY <1>1, <2>4, <2>5, <2>6
    <3>4. \A p \in Runner : runner'[p].pc = "embeds" => copies' \subseteq runner'[p].existing
      BY <1>1, <1>4, <1>8, <1>9, <2>1
    <3> QED  BY <3>1, <3>2, <3>3, <3>4 DEF OneAtATime
  <2>8. NewestIsThere'
    <3>1. \A p \in Runner : runner[p].pc = "marks" /\ Newest(p) /\ ~emptied => copies = Current
      BY <1>4, <1>14 DEF IndexInv, NewestIsThere
    <3>2. indexJob.st = "succeeded" => (~emptied => copies = Current) /\ \A p \in Runner : Writes(p) => Newest(p)
      BY <1>4, <1>14 DEF IndexInv, NewestIsThere
    <3>3. Newest(r)' /\ Newest(q)' = Newest(q) /\ Writes(q)' = Writes(q)
      BY <1>4, <1>8, <1>9 DEF Newest, Writes
    <3>4. indexJob'.st = "succeeded" => (~emptied' => copies' = Current') /\ \A p \in Runner : Writes(p)' => Newest(p)'
      BY <1>1, <1>4, <1>10, <3>2, <3>3
    <3>5. \A p \in Runner : runner'[p].pc = "marks" /\ Newest(p)' /\ ~emptied' => copies' = Current'
      BY <1>1, <1>4, <1>7, <1>8, <1>9, <1>10, <3>1, <3>3
    <3> QED  BY <3>4, <3>5 DEF NewestIsThere
  <2> QED  BY <2>7, <2>8
<1>15. OneAtATime' /\ NewestIsThere'
  <2>1. CASE ~OneProcess
    BY <2>1 DEF OneAtATime, NewestIsThere
  <2> QED  BY <1>14, <2>1
<1>16. AnswersStayTrue'
  BY <1>4, <1>10 DEF IndexInv, AnswersStayTrue
<1> QED  BY <1>11, <1>12, <1>13, <1>15, <1>16 DEF IndexInv

\* The lock: the run whose turn it is reads the rows there are, and the next one waits for its turn
LEMMA TheLockIsTaken ==
    ASSUME IndexInv, NEW r \in Runner, Locked(r)
    PROVE  IndexInv'
<1>1. PICK q \in Runner : q # r /\ \A p \in Runner : p = r \/ p = q
  BY TheOther
<1>2. PICK row : row = [runner[r] EXCEPT !.pc = "embeds", !.existing = copies]
  OBVIOUS
<1>3. PICK next : next = IF runner[q].pc = "queues" THEN [runner[q] EXCEPT !.pc = "waits"] ELSE runner[q]
  OBVIOUS
<1>4. /\ runner' = [p \in Runner |-> IF p = r THEN [runner[p] EXCEPT !.pc = "embeds", !.existing = copies]
                                     ELSE IF runner[p].pc = "queues" THEN [runner[p] EXCEPT !.pc = "waits"] ELSE runner[p]]
      /\ runner[r].pc = "waits" /\ (OneProcess => runner[q].pc # "embeds")
      /\ UNCHANGED <<talks, wiki, indexJob, copies, saved, asking, changes, indexFaults, emptied>>
  BY <1>1 DEF Locked, Others
<1>5. runner'[r] = row /\ runner'[q] = next
  BY <1>1, <1>2, <1>3, <1>4
<1>6. runner[r] \in RunnerRow /\ runner[q] \in RunnerRow /\ runner[r].start \in Nat /\ runner[q].start \in Nat /\ copies \subseteq Evidence
      /\ indexJob.requested \in Nat
  BY IndexFacts DEF IndexInv, IndexTypes, IndexTypeOK
<1>7. row = [pc |-> "embeds", taken |-> runner[r].taken, start |-> runner[r].start, sources |-> runner[r].sources, existing |-> copies]
  BY <1>2, <1>6 DEF RunnerRow
<1>8. row \in RunnerRow /\ row.pc = "embeds" /\ row.start = runner[r].start /\ row.sources = runner[r].sources /\ row.existing = copies
  BY <1>6, <1>7 DEF RunnerRow
<1>9. /\ next \in RunnerRow /\ next.start = runner[q].start /\ next.sources = runner[q].sources /\ next.existing = runner[q].existing
      /\ next.pc = (IF runner[q].pc = "queues" THEN "waits" ELSE runner[q].pc)
  <2>1. PICK moved : moved = [runner[q] EXCEPT !.pc = "waits"]
    OBVIOUS
  <2>2. moved = [pc |-> "waits", taken |-> runner[q].taken, start |-> runner[q].start, sources |-> runner[q].sources,
                 existing |-> runner[q].existing]
    BY <1>6, <2>1 DEF RunnerRow
  <2>3. /\ moved \in RunnerRow /\ moved.start = runner[q].start /\ moved.sources = runner[q].sources
        /\ moved.existing = runner[q].existing /\ moved.pc = "waits"
    BY <1>6, <2>2 DEF RunnerRow
  <2>4. next = IF runner[q].pc = "queues" THEN moved ELSE runner[q]
    BY <1>3, <2>1
  <2> QED  BY <1>6, <2>3, <2>4
<1>10. runner' \in [Runner -> RunnerRow]
  <2>1. \A p \in Runner : runner'[p] \in RunnerRow
    BY <1>1, <1>5, <1>8, <1>9
  <2> QED  BY <1>4, <2>1
<1>11. Current' = Current
  BY <1>4 DEF Current
<1>12. /\ Works(r)' /\ Works(r) /\ Writes(r) /\ Writes(r)' /\ Works(q)' = Works(q) /\ Writes(q)' = Writes(q)
       /\ Newest(r)' = Newest(r) /\ Newest(q)' = Newest(q)
  <2>1. runner'[r].pc = "embeds" /\ runner[r].pc = "waits" /\ runner'[q].pc = (IF runner[q].pc = "queues" THEN "waits" ELSE runner[q].pc)
    BY <1>4, <1>5, <1>8, <1>9
  <2>2. runner'[r].start = runner[r].start /\ runner'[q].start = runner[q].start /\ UNCHANGED indexJob
    BY <1>4, <1>5, <1>8, <1>9
  <2>3. Works(r)' /\ Works(r) /\ Writes(r) /\ Writes(r)'
    BY <2>1 DEF Works, Writes
  <2>4. Works(q)' = Works(q)
    BY <2>1 DEF Works, Writes
  <2>5. Writes(q)' = Writes(q)
    BY <2>1 DEF Writes
  <2>6. Newest(r)' = Newest(r) /\ Newest(q)' = Newest(q)
    BY <2>2 DEF Newest
  <2> QED  BY <2>3, <2>4, <2>5, <2>6
<1>13. IndexTypes'
  <2>1. \A p \in Runner : /\ runner'[p].pc \in {"off", "taken", "queues", "waits", "embeds", "marks"}
                          /\ runner'[p].sources \cup runner'[p].existing \subseteq Evidence
    BY <1>10 DEF RunnerRow
  <2> QED  BY <1>4, <1>10, <2>1 DEF IndexInv, IndexTypes, IndexTypeOK
<1>14. RequestsGrow'
  BY <1>1, <1>4, <1>5, <1>8, <1>9, <1>12 DEF IndexInv, RequestsGrow
<1>15. NewestReadsCurrent'
  BY <1>1, <1>4, <1>5, <1>8, <1>9, <1>11, <1>12 DEF IndexInv, NewestReadsCurrent
<1>16. ASSUME OneProcess, wiki PROVE OneAtATime' /\ NewestIsThere'
  <2>1. /\ runner[q].pc # "waits" /\ runner[q].pc # "embeds"
        /\ Behind(r, q) => runner[q].start <= runner[r].start
        /\ Behind(q, r) => runner[r].start <= runner[q].start
    BY <1>1, <1>4, <1>16 DEF IndexInv, OneAtATime
  <2>2. \A p \in Runner : ~Behind(p, p)'
    BY DEF Behind
  <2>3. (Behind(r, q)' => Behind(r, q)) /\ (Behind(q, r)' => Behind(q, r))
    BY <1>4, <1>5, <1>8, <1>9, <2>1 DEF Behind
  <2>4. OneAtATime'
    <3>1. \A p, o \in Runner : p # o /\ runner'[p].pc = runner'[o].pc => runner'[p].pc \notin {"queues", "waits", "embeds"}
      BY <1>1, <1>5, <1>8, <1>9, <2>1
    <3>2. \A p, o \in Runner : p # o /\ runner'[o].pc = "queues" => runner'[p].pc = "waits"
      BY <1>1, <1>5, <1>8, <1>9
    <3>3. \A p, o \in Runner : Behind(o, p)' => runner'[p].start <= runner'[o].start
      BY <1>1, <1>5, <1>8, <1>9, <2>1, <2>2, <2>3
    <3>4. \A p \in Runner : runner'[p].pc = "embeds" => copies' \subseteq runner'[p].existing
      BY <1>1, <1>4, <1>5, <1>8, <1>9, <2>1
    <3> QED  BY <3>1, <3>2, <3>3, <3>4 DEF OneAtATime
  <2>5. NewestIsThere'
    <3>1. \A p \in Runner : runner[p].pc = "marks" /\ Newest(p) /\ ~emptied => copies = Current
      BY <1>16 DEF IndexInv, NewestIsThere
    <3>2. indexJob.st = "succeeded" => (~emptied => copies = Current) /\ \A p \in Runner : Writes(p) => Newest(p)
      BY <1>16 DEF IndexInv, NewestIsThere
    <3>3. \A p \in Runner : runner'[p].pc = "marks" /\ Newest(p)' /\ ~emptied' => copies' = Current'
      BY <1>1, <1>4, <1>5, <1>8, <1>9, <1>11, <1>12, <3>1
    <3>4. indexJob'.st = "succeeded" => (~emptied' => copies' = Current') /\ \A p \in Runner : Writes(p)' => Newest(p)'
      BY <1>1, <1>4, <1>11, <1>12, <3>2
    <3> QED  BY <3>3, <3>4 DEF NewestIsThere
  <2> QED  BY <2>4, <2>5
<1>17. OneAtATime' /\ NewestIsThere'
  <2>1. CASE ~(OneProcess /\ wiki)
    BY <1>4, <2>1 DEF OneAtATime, NewestIsThere
  <2> QED  BY <1>16, <2>1
<1>18. AnswersStayTrue'
  BY <1>4, <1>11 DEF IndexInv, AnswersStayTrue
<1> QED  BY <1>13, <1>14, <1>15, <1>17, <1>18 DEF IndexInv

\* The rows are written: what the run knew goes, what it read stays
LEMMA TheCopiesAreWritten ==
    ASSUME IndexInv, NEW r \in Runner, WriteCopies(r)
    PROVE  IndexInv'
<1>1. PICK q \in Runner : q # r /\ \A p \in Runner : p = r \/ p = q
  BY TheOther
<1>2. PICK row : row = [runner[r] EXCEPT !.pc = "marks"]
  OBVIOUS
<1>3. /\ runner' = [runner EXCEPT ![r] = row] /\ runner[r].pc = "embeds" /\ emptied' = FALSE
      /\ copies' = (copies \ (runner[r].existing \ runner[r].sources)) \cup runner[r].sources
      /\ UNCHANGED <<talks, wiki, indexJob, saved, asking, changes, indexFaults>>
  BY <1>2 DEF WriteCopies
<1>4. /\ runner[r] \in RunnerRow /\ runner \in [Runner -> RunnerRow] /\ copies \subseteq Evidence /\ indexJob.requested \in Nat
      /\ runner[r].start \in Nat /\ runner[q].start \in Nat
  BY IndexFacts DEF IndexInv, IndexTypes, IndexTypeOK
<1>5. row = [pc |-> "marks", taken |-> runner[r].taken, start |-> runner[r].start, sources |-> runner[r].sources,
             existing |-> runner[r].existing]
  BY <1>2, <1>4 DEF RunnerRow
<1>6. row \in RunnerRow /\ row.pc = "marks" /\ row.start = runner[r].start /\ row.sources = runner[r].sources
  BY <1>4, <1>5 DEF RunnerRow
<1>7. runner' \in [Runner -> RunnerRow] /\ runner'[r] = row /\ runner'[q] = runner[q]
  BY <1>1, <1>3, <1>4, <1>6
<1>8. Current' = Current
  BY <1>3 DEF Current
<1>9. Works(r) /\ Works(r)' /\ Writes(r) /\ ~Writes(r)' /\ Newest(r)' = Newest(r)
  BY <1>3, <1>6, <1>7 DEF Works, Writes, Newest
<1>10. Works(q)' = Works(q) /\ Writes(q)' = Writes(q) /\ Newest(q)' = Newest(q)
  BY <1>3, <1>7 DEF Works, Writes, Newest
<1>11. IndexTypes'
  <2>1. \A p \in Runner : /\ runner'[p].pc \in {"off", "taken", "queues", "waits", "embeds", "marks"}
                          /\ runner'[p].sources \cup runner'[p].existing \subseteq Evidence
    BY <1>7 DEF RunnerRow
  <2>2. copies' \subseteq Evidence /\ emptied' \in BOOLEAN
    BY <1>3, <1>4 DEF RunnerRow
  <2>3. UNCHANGED <<talks, wiki, indexJob, saved, asking, changes, indexFaults>>
    BY <1>3
  <2> QED  BY <1>7, <2>1, <2>2, <2>3 DEF IndexInv, IndexTypes, IndexTypeOK
<1>12. RequestsGrow'
  BY <1>1, <1>3, <1>6, <1>7, <1>9, <1>10 DEF IndexInv, RequestsGrow
<1>13. NewestReadsCurrent'
  BY <1>1, <1>3, <1>6, <1>7, <1>8, <1>9, <1>10 DEF IndexInv, NewestReadsCurrent
<1>14. ASSUME OneProcess, wiki PROVE OneAtATime' /\ NewestIsThere'
  <2>1. /\ runner[q].pc \notin {"queues", "embeds"} /\ copies \subseteq runner[r].existing
        /\ (Behind(r, q) => runner[q].start <= runner[r].start) /\ (Behind(q, r) => runner[r].start <= runner[q].start)
    BY <1>1, <1>3, <1>14 DEF IndexInv, OneAtATime
  <2>2. copies' = runner[r].sources
    BY <1>3, <2>1
  <2>3. Newest(r) => copies' = Current
    BY <1>9, <1>14, <2>2 DEF IndexInv, NewestReadsCurrent
  <2>4. OneAtATime'
    <3>1. \A p \in Runner : ~Behind(p, p)'
      BY DEF Behind
    <3>2. ~Behind(r, q)' /\ (Behind(q, r)' => Behind(q, r))
      BY <1>3, <1>6, <1>7, <2>1 DEF Behind
    <3>3. \A p, o \in Runner : p # o /\ runner'[p].pc = runner'[o].pc => runner'[p].pc \notin {"queues", "waits", "embeds"}
      BY <1>1, <1>6, <1>7
    <3>4. \A p, o \in Runner : p # o /\ runner'[o].pc = "queues" => runner'[p].pc = "waits"
      BY <1>1, <1>6, <1>7, <2>1
    <3>5. \A p, o \in Runner : Behind(o, p)' => runner'[p].start <= runner'[o].start
      BY <1>1, <1>6, <1>7, <2>1, <3>1, <3>2
    <3>6. \A p \in Runner : runner'[p].pc # "embeds"
      BY <1>1, <1>6, <1>7, <2>1
    <3> QED  BY <3>3, <3>4, <3>5, <3>6 DEF OneAtATime
  <2>5. NewestIsThere'
    <3>1. runner[r].start <= indexJob.requested /\ (Works(q) => runner[q].start <= indexJob.requested)
      BY <1>9, <1>14 DEF IndexInv, RequestsGrow
    <3>2. runner[q].pc = "marks" /\ Newest(q) => Newest(r)
      BY <1>3, <1>4, <2>1, <3>1 DEF Behind, Newest
    <3>3. \A p \in Runner : runner'[p].pc = "marks" /\ Newest(p)' => copies' = Current'
      BY <1>1, <1>7, <1>8, <1>9, <1>10, <2>3, <3>2
    <3>4. indexJob.st = "succeeded" => \A p \in Runner : Writes(p) => Newest(p)
      BY <1>14 DEF IndexInv, NewestIsThere
    <3>5. indexJob'.st = "succeeded" => copies' = Current' /\ \A p \in Runner : Writes(p)' => Newest(p)'
      BY <1>1, <1>3, <1>8, <1>9, <1>10, <2>3, <3>4
    <3> QED  BY <3>3, <3>5 DEF NewestIsThere
  <2> QED  BY <2>4, <2>5
<1>15. OneAtATime' /\ NewestIsThere'
  <2>1. CASE ~(OneProcess /\ wiki)
    BY <1>3, <2>1 DEF OneAtATime, NewestIsThere
  <2> QED  BY <1>14, <2>1
<1>16. AnswersStayTrue'
  BY <1>3, <1>8 DEF IndexInv, AnswersStayTrue
<1> QED  BY <1>11, <1>12, <1>13, <1>15, <1>16 DEF IndexInv

\* A run that wrote its rows serves the request it began with, if that is still the newest
LEMMA TheRunIsMarked ==
    ASSUME IndexInv, NEW r \in Runner, MarkServed(r)
    PROVE  IndexInv'
<1>1. /\ runner' = [runner EXCEPT ![r] = Off] /\ runner[r].pc = "marks"
      /\ UNCHANGED <<talks, wiki, copies, saved, asking, changes, indexFaults, emptied>>
      /\ indexJob' = IF indexJob.st = "none" THEN [st |-> "succeeded", requested |-> changes + 2]
                     ELSE IF StillAsked(r) THEN [indexJob EXCEPT !.st = "succeeded"] ELSE indexJob
  BY DEF MarkServed
<1>2. Off \in RunnerRow /\ Off.pc = "off"
  BY DEF Off, RunnerRow
<1>3. /\ runner \in [Runner -> RunnerRow] /\ indexJob \in IndexJobRow /\ indexFaults' \in 0..MaxIndexFaults
      /\ changes \in Nat /\ MaxChanges \in Nat /\ changes <= MaxChanges
      /\ indexJob.requested \in Nat /\ \A p \in Runner : runner[p].start \in Nat
  BY <1>1, IndexFacts DEF IndexInv, IndexTypes, IndexTypeOK
<1>4. runner' \in [Runner -> RunnerRow] /\ runner'[r].pc = "off" /\ \A p \in Runner : p # r => runner'[p] = runner[p]
  BY <1>1, <1>2, <1>3
<1>5. PICK done : done = [indexJob EXCEPT !.st = "succeeded"]
  OBVIOUS
<1>6. done = [st |-> "succeeded", requested |-> indexJob.requested]
  BY <1>3, <1>5 DEF IndexJobRow
<1>7. done \in IndexJobRow /\ done.requested = indexJob.requested /\ done.st = "succeeded"
  BY <1>3, <1>6 DEF IndexJobRow
<1>8. [st |-> "succeeded", requested |-> changes + 2] \in IndexJobRow
  BY <1>3 DEF IndexJobRow
<1>9. indexJob' \in IndexJobRow
  BY <1>1, <1>3, <1>5, <1>7, <1>8
<1>10. wiki => /\ indexJob.st # "none"
               /\ indexJob' = indexJob \/ (Newest(r) /\ indexJob' = done)
  BY <1>1, <1>5 DEF IndexInv, RequestsGrow, StillAsked, Newest
<1>11. wiki => indexJob'.requested = indexJob.requested /\ indexJob'.st # "none"
  BY <1>7, <1>10
<1>12. ASSUME wiki, OneProcess, indexJob'.st = "succeeded"
       PROVE  (~emptied => copies = Current) /\ \A q \in Runner : Writes(q)' => Newest(q)
  <2>1. CASE indexJob' = indexJob
    <3>1. (~emptied => copies = Current) /\ \A q \in Runner : Writes(q) => Newest(q)
      BY <1>12, <2>1 DEF IndexInv, NewestIsThere
    <3> QED  BY <1>4, <3>1 DEF Writes
  <2>2. CASE Newest(r) /\ indexJob' = done
    <3>1. ~emptied => copies = Current
      BY <1>1, <1>12, <2>2 DEF IndexInv, NewestIsThere
    <3>2. ASSUME NEW q \in Runner, Writes(q)' PROVE Newest(q)
      <4>1. q # r /\ Writes(q)
        BY <1>4, <3>2 DEF Writes
      <4>2. Behind(q, r)
        BY <1>1, <4>1 DEF Behind, Writes
      <4>3. runner[r].start <= runner[q].start
        BY <1>12, <4>2 DEF IndexInv, OneAtATime
      <4>4. runner[q].start <= indexJob.requested
        BY <1>12, <4>1 DEF IndexInv, RequestsGrow, Works
      <4> QED  BY <1>3, <2>2, <4>3, <4>4 DEF Newest
    <3> QED  BY <3>1, <3>2
  <2> QED  BY <1>10, <1>12, <2>1, <2>2
<1>13. \A p \in Runner : runner'[p] = runner[p] \/ runner'[p].pc \in {"off", "taken"}
  BY <1>4
<1>14. \A p \in Runner : runner'[p] = runner[p] \/ runner[p].pc # "waits"
  BY <1>1, <1>4
<1> QED  BY <1>1, <1>3, <1>4, <1>9, <1>11, <1>12, <1>13, <1>14, RunsStop

\* A run that fails or ends with its process writes nothing
LEMMA TheRunFails ==
    ASSUME IndexInv, NEW r \in Runner, IndexFails(r) \/ RunnerEnds(r)
    PROVE  IndexInv'
<1>1. Off \in RunnerRow /\ Off.pc = "off"
  BY DEF Off, RunnerRow
<1>2. /\ runner \in [Runner -> RunnerRow] /\ indexJob \in IndexJobRow /\ indexFaults \in 0..MaxIndexFaults
      /\ MaxIndexFaults \in Nat
  BY IndexAssumption DEF IndexInv, IndexTypes, IndexTypeOK
<1>3. UNCHANGED <<talks, wiki, copies, saved, asking, changes, emptied>>
  BY DEF IndexFails, RunnerEnds
<1>4. PICK failed : failed = [indexJob EXCEPT !.st = "failed"]
  OBVIOUS
<1>5. failed = [st |-> "failed", requested |-> indexJob.requested]
  BY <1>2, <1>4 DEF IndexJobRow
<1>6. failed \in IndexJobRow /\ failed.requested = indexJob.requested /\ failed.st = "failed"
  BY <1>2, <1>5 DEF IndexJobRow
<1>7. indexJob' = indexJob \/ indexJob' = failed
  BY <1>4 DEF IndexFails, RunnerEnds
<1>8. indexFaults' \in 0..MaxIndexFaults
  <2>1. indexFaults' = indexFaults \/ (indexFaults < MaxIndexFaults /\ indexFaults' = indexFaults + 1)
    BY DEF IndexFails, RunnerEnds
  <2> QED  BY <1>2, <2>1
<1>9. runner' \in [Runner -> RunnerRow] /\ \A p \in Runner : runner'[p] = runner[p] \/ runner'[p].pc = "off"
  <2>1. CASE IndexFails(r)
    <3>1. runner' = [runner EXCEPT ![r] = Off]
      BY <2>1 DEF IndexFails
    <3> QED  BY <1>1, <1>2, <3>1
  <2>2. CASE RunnerEnds(r)
    <3>1. runner' = [q \in Runner |-> IF q = r \/ OneProcess THEN Off ELSE runner[q]]
      BY <2>2 DEF RunnerEnds
    <3> QED  BY <1>1, <1>2, <3>1
  <2> QED  BY <2>1, <2>2
<1>10. OneProcess /\ wiki => \/ \A p \in Runner : runner'[p] = runner[p] \/ runner[p].pc # "waits"
                             \/ \A p \in Runner : runner'[p].pc \in {"off", "taken"}
  <2>1. CASE IndexFails(r)
    <3>1. runner' = [runner EXCEPT ![r] = Off] /\ runner[r].pc \in {"taken", "embeds"}
      BY <2>1 DEF IndexFails
    <3> QED  BY <1>2, <3>1
  <2>2. CASE RunnerEnds(r)
    <3>1. runner' = [q \in Runner |-> IF q = r \/ OneProcess THEN Off ELSE runner[q]]
      BY <2>2 DEF RunnerEnds
    <3> QED  BY <1>1, <3>1
  <2> QED  BY <2>1, <2>2
<1>11. wiki => indexJob'.requested = indexJob.requested /\ indexJob'.st # "none"
  BY <1>6, <1>7 DEF IndexInv, RequestsGrow
<1>12. ASSUME wiki, OneProcess, indexJob'.st = "succeeded"
       PROVE  (~emptied => copies = Current) /\ \A q \in Runner : Writes(q)' => Newest(q)
  <2>1. indexJob' = indexJob
    BY <1>6, <1>7, <1>12
  <2>2. (~emptied => copies = Current) /\ \A q \in Runner : Writes(q) => Newest(q)
    BY <1>12, <2>1 DEF IndexInv, NewestIsThere
  <2> QED  BY <1>9, <2>2 DEF Writes
<1>13. indexJob' \in IndexJobRow /\ \A p \in Runner : runner'[p] = runner[p] \/ runner'[p].pc \in {"off", "taken"}
  BY <1>2, <1>6, <1>7, <1>9
<1> QED  BY <1>3, <1>8, <1>9, <1>10, <1>11, <1>12, <1>13, RunsStop

\* Every step of a knowledge base keeps its invariant
LEMMA IndexSteps == IndexInv /\ [IndexNext]_indexVars => IndexInv'
<1> SUFFICES ASSUME IndexInv, [IndexNext]_indexVars PROVE IndexInv'
  OBVIOUS
<1>1. CASE UNCHANGED indexVars
  <2>1. UNCHANGED <<talks, wiki, indexJob, copies, runner, saved, asking, emptied, changes, indexFaults>>
    BY <1>1 DEF indexVars
  <2>2. (\A c \in saved' : c \in Conversation) /\ asking' \in [on : BOOLEAN, given : SUBSET Evidence]
    BY <2>1 DEF IndexInv, IndexTypes, IndexTypeOK
  <2>3. AnswersStayTrue'
    BY <2>1 DEF IndexInv, AnswersStayTrue, Current
  <2> QED  BY <2>1, <2>2, <2>3, OnlyAnswersMove
<1>2. CASE IndexNext
  <2>1. ASSUME NEW t \in Talk, ChangeEvidence(t) \/ DeleteMeeting(t) PROVE IndexInv'
    <3>1. TRUE \in BOOLEAN
      OBVIOUS
    <3> QED  BY <2>1, <3>1, AMeetingChanges
  <2>2. ASSUME NEW t \in Talk, NEW on \in BOOLEAN, SetKnowledge(t, on) \/ AssignMeeting(t, on) PROVE IndexInv'
    BY <2>2, AMeetingChanges
  <2>3. CASE DeleteWiki \/ \E reindex \in BOOLEAN : PurgeCopies(reindex)
    BY <2>3, TheBaseMoves
  <2>4. CASE Ask \/ Answer \/ \E old \in SUBSET saved : PurgeChats(old)
    BY <2>4, AnswersMove
  <2>5. ASSUME NEW r \in Runner, Reindex(r) \/ RunnerEnds(r) PROVE IndexInv'
    BY <2>5, ARunBegins, TheLockIsTaken, TheCopiesAreWritten, TheRunIsMarked, TheRunFails DEF Reindex
  <2> QED  BY <1>2, <2>1, <2>2, <2>3, <2>4, <2>5, TheJobIsTaken DEF IndexNext
<1> QED  BY <1>1, <1>2

\* What the index of a base that is served holds
LEMMA ServedIsThere == IndexInv => KnowledgeIsCurrent
<1> SUFFICES ASSUME IndexInv PROVE KnowledgeIsCurrent
  OBVIOUS
<1>1. ServedIsCurrent
  BY DEF IndexInv, NewestIsThere, ServedIsCurrent
<1> QED  BY <1>1 DEF IndexInv, KnowledgeIsCurrent

-----------------------------------------------------------------------------
(***************************************************************************)
(* Induction over data.  A set of numbers that holds 0 and with a number    *)
(* the next one holds them all: what a recursive function computes is       *)
(* shown for the set of the numbers at which it is so.                      *)
(***************************************************************************)
LEMMA NumbersOneByOne ==
  ASSUME NEW P, 0 \in P, \A n \in Nat : n \in P => n + 1 \in P
  PROVE  Nat \subseteq P
<1> DEFINE R == OpToRel(<, Nat)
           T == Nat \ P
<1>1. IsWellFoundedOn(R, Nat)
  BY NatLessThanWellFounded
<1>2. SUFFICES ASSUME T # {} PROVE FALSE
  OBVIOUS
<1>3. PICK n \in T : \A k \in T : ~(<<k, n>> \in R)
  <2> HIDE DEF R
  <2>1. T \subseteq Nat
    OBVIOUS
  <2> HIDE DEF T
  <2> QED  BY <1>1, <1>2, <2>1, WFMin
<1>4. n \in Nat /\ n # 0 /\ n - 1 \in Nat
  OBVIOUS
<1>5. <<n - 1, n>> \in R
  BY <1>4 DEF OpToRel
<1>6. n - 1 \in P
  <2> HIDE DEF R
  <2> QED  BY <1>3, <1>4, <1>5
<1>7. (n - 1) + 1 \in P
  BY <1>4, <1>6
<1> QED  BY <1>4, <1>7

\* In a finite set of numbers as many are below one as below no other
LEMMA NumbersDiffer ==
  ASSUME NEW D, D \subseteq Int, IsFiniteSet(D)
  PROVE  /\ Cardinality(D) \in Nat
         /\ \A x \in D : Cardinality({y \in D : y < x}) \in 0 .. Cardinality(D) - 1
         /\ \A x, z \in D : Cardinality({y \in D : y < x}) = Cardinality({y \in D : y < z}) => x = z
<1> DEFINE below(x) == {y \in D : y < x}
           n == Cardinality(D)
<1>1. n \in Nat
  BY FS_CardinalityType
<1>2. \A x \in D : IsFiniteSet(below(x)) /\ Cardinality(below(x)) \in Nat
  BY FS_Subset, FS_CardinalityType
<1>3. \A x \in D : Cardinality(below(x)) < n
  <2> SUFFICES ASSUME NEW x \in D PROVE Cardinality(below(x)) < n
    OBVIOUS
  <2>1. below(x) \in SUBSET D /\ below(x) # D
    OBVIOUS
  <2> HIDE DEF below
  <2>2. Cardinality(below(x)) <= n /\ (n = Cardinality(below(x)) => D = below(x))
    BY <2>1, FS_Subset
  <2> QED  BY <1>1, <1>2, <2>1, <2>2
<1>4. \A x, z \in D : x < z => Cardinality(below(x)) < Cardinality(below(z))
  <2> SUFFICES ASSUME NEW x \in D, NEW z \in D, x < z PROVE Cardinality(below(x)) < Cardinality(below(z))
    OBVIOUS
  <2>1. below(x) \in SUBSET below(z) /\ x \in below(z) /\ x \notin below(x)
    <3>1. x \in Int /\ z \in Int /\ \A y \in D : y \in Int
      OBVIOUS
    <3>2. ~(x < x) /\ \A y \in D : y < x => y < z
      BY <3>1
    <3> QED  BY <3>2
  <2>2. below(x) # below(z)
    BY <2>1
  <2> HIDE DEF below
  <2>3. Cardinality(below(x)) <= Cardinality(below(z)) /\ (Cardinality(below(z)) = Cardinality(below(x)) => below(z) = below(x))
    BY <1>2, <2>1, FS_Subset
  <2> QED  BY <1>2, <2>2, <2>3
<1>5. \A x \in D : Cardinality(below(x)) \in 0 .. n - 1
  <2> HIDE DEF below, n
  <2> QED  BY <1>1, <1>2, <1>3
<1>6. \A x, z \in D : Cardinality(below(x)) = Cardinality(below(z)) => x = z
  <2> HIDE DEF below
  <2>1. \A x, z \in D : x \in Int /\ z \in Int
    OBVIOUS
  <2> QED  BY <1>2, <1>4, <2>1
<1> QED  BY <1>1, <1>5, <1>6

\* So there is one with just so many below it
LEMMA NumberedInOrder ==
  ASSUME NEW D, D \subseteq Int, IsFiniteSet(D), NEW i \in 1 .. Cardinality(D)
  PROVE  \E x \in D : Cardinality({y \in D : y < x}) = i - 1
<1> DEFINE n == Cardinality(D)
           rank == [x \in D |-> Cardinality({y \in D : y < x})]
           T == 0 .. n - 1
<1>1. n \in Nat
  BY FS_CardinalityType
<1>2. rank \in Injection(D, T)
  <2> DEFINE below(x) == Cardinality({y \in D : y < x})
  <2>1. (\A x \in D : below(x) \in T) /\ \A x, z \in D : below(x) = below(z) => x = z
    BY NumbersDiffer
  <2>2. rank = [x \in D |-> below(x)]
    OBVIOUS
  <2> HIDE DEF below, T, rank
  <2>3. rank \in [D -> T]
    BY <2>1, <2>2
  <2>4. \A x, z \in D : rank[x] = rank[z] => x = z
    BY <2>1, <2>2
  <2> QED  BY <2>3, <2>4 DEF Injection, IsInjective
<1>3. IsFiniteSet(T) /\ Cardinality(T) = n
  <2>1. 0 \in Int /\ n - 1 \in Int /\ (n - 1) - 0 + 1 = n /\ (0 > n - 1 => n = 0)
    BY <1>1
  <2> HIDE DEF n
  <2> QED  BY <2>1, FS_Interval
<1>4. rank \in Surjection(D, T)
  <2> HIDE DEF rank, T
  <2> QED  BY <1>2, <1>3, FS_Injection
<1>5. i - 1 \in T
  BY <1>1
<1>6. PICK x \in D : rank[x] = i - 1
  BY <1>4, <1>5 DEF Surjection
<1> QED  BY <1>6

-----------------------------------------------------------------------------
(***************************************************************************)
(* The parts of a recording (in_person_audio.py)                           *)
(***************************************************************************)
\* Pieces as they are stored, in order
ArePieces(meta) == Len(meta) \in Nat /\ \A i \in 1 .. Len(meta) : meta[i].len \in Nat

\* The length of the pieces from the a-th on
Summing(u, meta, a, b) == u = [i \in (a - 1) .. b |-> IF i < a THEN 0 ELSE u[i - 1] + meta[i].len]

\* The lengths of the pieces up to one can be summed up to the next
LEMMA OneMorePiece ==
  ASSUME NEW meta, NEW a \in Nat, NEW b \in Nat, a - 1 <= b, NEW u, Summing(u, meta, a, b)
  PROVE  \E v : Summing(v, meta, a, b + 1)
<1> DEFINE v == [i \in (a - 1) .. (b + 1) |-> IF i < a THEN 0 ELSE u[i - 1] + meta[i].len]
<1>1. \A i \in (a - 1) .. b : u[i] = IF i < a THEN 0 ELSE u[i - 1] + meta[i].len
  BY DEF Summing
<1>2. \A i \in (a - 1) .. b : v[i] = u[i]
  BY <1>1
<1>3. \A i \in (a - 1) .. (b + 1) : ~(i < a) => i - 1 \in (a - 1) .. b
  OBVIOUS
<1>4. \A i \in (a - 1) .. (b + 1) : (IF i < a THEN 0 ELSE u[i - 1] + meta[i].len)
                                 = (IF i < a THEN 0 ELSE v[i - 1] + meta[i].len)
  BY <1>2, <1>3
<1>5. v = [i \in (a - 1) .. (b + 1) |-> IF i < a THEN 0 ELSE v[i - 1] + meta[i].len]
  BY <1>4
<1> QED  BY <1>5 DEF Summing

\* The length of some pieces is a number
LEMMA LengthIsNat ==
  ASSUME NEW meta, ArePieces(meta), NEW a \in 1 .. Len(meta), NEW b \in a .. Len(meta)
  PROVE  Length(meta, a, b) \in Nat
<1>0. Len(meta) \in Nat /\ a \in Nat \ {0} /\ b \in Nat /\ a <= b /\ b <= Len(meta)
  BY DEF ArePieces
<1> DEFINE P == {n \in Nat : \E u : Summing(u, meta, a, (a - 1) + n)}
<1>1. 0 \in P
  <2> DEFINE u == [i \in (a - 1) .. (a - 1) |-> 0]
  <2>1. u = [i \in (a - 1) .. (a - 1) |-> IF i < a THEN 0 ELSE u[i - 1] + meta[i].len]
    BY <1>0
  <2>2. Summing(u, meta, a, a - 1)
    BY <2>1 DEF Summing
  <2>3. (a - 1) + 0 = a - 1
    BY <1>0
  <2> QED  BY <2>2, <2>3
<1>2. \A n \in Nat : n \in P => n + 1 \in P
  <2> SUFFICES ASSUME NEW n \in Nat, n \in P PROVE n + 1 \in P
    OBVIOUS
  <2>1. PICK u : Summing(u, meta, a, (a - 1) + n)
    OBVIOUS
  <2>2. (a - 1) + n \in Nat /\ a - 1 <= (a - 1) + n /\ ((a - 1) + n) + 1 = (a - 1) + (n + 1)
    BY <1>0
  <2>3. \E v : Summing(v, meta, a, ((a - 1) + n) + 1)
    BY <1>0, <2>1, <2>2, OneMorePiece
  <2> QED  BY <2>2, <2>3
<1>3. Nat \subseteq P
  <2> HIDE DEF P
  <2> QED  BY <1>1, <1>2, NumbersOneByOne
<1>4. b - (a - 1) \in Nat /\ (a - 1) + (b - (a - 1)) = b
  BY <1>0
<1>5. \E u : Summing(u, meta, a, b)
  BY <1>3, <1>4
<1> DEFINE w == CHOOSE u : Summing(u, meta, a, b)
<1>6. Summing(w, meta, a, b)
  BY <1>5
<1>7. Length(meta, a, b) = w[b]
  BY DEF Length, Summing
<1> HIDE DEF w
<1>8. \A i \in (a - 1) .. b : w[i] = IF i < a THEN 0 ELSE w[i - 1] + meta[i].len
  BY <1>6 DEF Summing
<1> DEFINE Q == {n \in Nat : (a - 1) + n <= b => w[(a - 1) + n] \in Nat}
<1>9. 0 \in Q
  <2>1. a - 1 \in (a - 1) .. b /\ a - 1 < a /\ (a - 1) + 0 = a - 1
    BY <1>0
  <2> QED  BY <1>8, <2>1
<1>10. \A n \in Nat : n \in Q => n + 1 \in Q
  <2> SUFFICES ASSUME NEW n \in Nat, n \in Q, (a - 1) + (n + 1) <= b PROVE w[(a - 1) + (n + 1)] \in Nat
    OBVIOUS
  <2> DEFINE i == (a - 1) + (n + 1)
  <2>1. i \in (a - 1) .. b /\ ~(i < a) /\ i - 1 = (a - 1) + n /\ i \in 1 .. Len(meta) /\ (a - 1) + n <= b
    BY <1>0
  <2>2. w[i] = w[i - 1] + meta[i].len
    <3> HIDE DEF i
    <3> QED  BY <1>8, <2>1
  <2>3. w[i - 1] \in Nat
    <3>1. w[(a - 1) + n] \in Nat
      BY <2>1
    <3> HIDE DEF i
    <3> QED  BY <2>1, <3>1
  <2>4. meta[i].len \in Nat
    BY <2>1 DEF ArePieces
  <2> HIDE DEF i
  <2>5. w[i] \in Nat
    BY <2>2, <2>3, <2>4
  <2> QED  BY <2>5 DEF i
<1>11. Nat \subseteq Q
  <2> HIDE DEF Q
  <2> QED  BY <1>9, <1>10, NumbersOneByOne
<1>12. b - (a - 1) \in Q
  BY <1>4, <1>11
<1> QED  BY <1>4, <1>7, <1>12, <1>0

\* Of the numbers from a to b that are good, where a is, one has no good one after it
LEMMA LastGood ==
  ASSUME NEW a \in Nat, NEW b \in Nat, a <= b, NEW G, a \in G
  PROVE  \E e \in a .. b : e \in G /\ (\A j \in a .. e : j \in G) /\ (e = b \/ e + 1 \notin G)
<1> DEFINE P == {n \in Nat : a + n <= b => \A j \in a .. (a + n) : j \in G}
<1>1. 0 \in P
  OBVIOUS
<1>2. CASE Nat \subseteq P
  <2>1. b - a \in Nat /\ a + (b - a) = b /\ b <= b
    OBVIOUS
  <2>2. \A j \in a .. b : j \in G
    <3>1. b - a \in P
      BY <1>2, <2>1
    <3>2. a + (b - a) <= b => \A j \in a .. (a + (b - a)) : j \in G
      BY <3>1
    <3> HIDE DEF P
    <3> QED  BY <2>1, <3>2
  <2>3. b \in a .. b
    OBVIOUS
  <2> HIDE DEF P
  <2> QED  BY <2>2, <2>3
<1>3. CASE ~(Nat \subseteq P)
  <2>1. ~(\A n \in Nat : n \in P => n + 1 \in P)
    <3> HIDE DEF P
    <3> QED  BY <1>1, <1>3, NumbersOneByOne
  <2>2. PICK n \in Nat : n \in P /\ n + 1 \notin P
    BY <2>1
  <2>3. a + (n + 1) <= b /\ \E j \in a .. (a + (n + 1)) : j \notin G
    BY <2>2
  <2>4. \A j \in a .. (a + n) : j \in G
    BY <2>2, <2>3
  <2>5. a + n \in a .. b /\ (a + n) + 1 \notin G /\ a + n \in a .. (a + n)
    BY <2>3, <2>4
  <2> HIDE DEF P
  <2> QED  BY <2>4, <2>5
<1> QED  BY <1>2, <1>3

\* A stream ends, with the recording at the latest
LEMMA StreamsEnd ==
  ASSUME NEW meta, ArePieces(meta), NEW i \in 1 .. Len(meta)
  PROVE  StreamEnd(meta, i) \in i .. Len(meta)
<1>0. Len(meta) \in Nat /\ i \in Nat \ {0} /\ i <= Len(meta)
  BY DEF ArePieces
<1> DEFINE G == {i} \cup {j \in (i + 1) .. Len(meta) : ~meta[j].starts}
<1>1. PICK e \in i .. Len(meta) : (\A j \in i .. e : j \in G) /\ (e = Len(meta) \/ e + 1 \notin G)
  <2> HIDE DEF G
  <2>1. i \in G
    BY DEF G
  <2> QED  BY <1>0, <2>1, LastGood
<1>2. \A j \in (i + 1) .. e : ~meta[j].starts
  <2> SUFFICES ASSUME NEW j \in (i + 1) .. e PROVE ~meta[j].starts
    OBVIOUS
  <2>1. j \in i .. e /\ j # i
    BY <1>0
  <2>2. j \in G
    BY <1>1, <2>1
  <2> QED  BY <2>1, <2>2
<1>3. e = Len(meta) \/ meta[e + 1].starts
  <2> SUFFICES ASSUME e # Len(meta) PROVE meta[e + 1].starts
    OBVIOUS
  <2>1. e + 1 \in (i + 1) .. Len(meta)
    BY <1>0
  <2> QED  BY <1>1, <2>1
<1> HIDE DEF G
<1>4. \E x \in i .. Len(meta) : (x = Len(meta) \/ meta[x + 1].starts) /\ \A j \in (i + 1) .. x : ~meta[j].starts
  BY <1>2, <1>3
<1> QED  BY <1>4, Zenon DEF StreamEnd

\* A part goes on within its stream as long as it fits
LEMMA PartsEnd ==
  ASSUME NEW meta, ArePieces(meta), NEW i \in 1 .. Len(meta)
  PROVE  PartEnd(meta, i) \in i .. StreamEnd(meta, i)
<1> DEFINE s == StreamEnd(meta, i)
           G == {i} \cup {j \in (i + 1) .. s : Length(meta, i, j) <= MaxPart}
<1>0. Len(meta) \in Nat /\ i \in Nat \ {0} /\ s \in Nat /\ i <= s /\ s <= Len(meta)
  BY StreamsEnd DEF ArePieces
<1>1. PICK e \in i .. s : (\A j \in i .. e : j \in G) /\ (e = s \/ e + 1 \notin G)
  <2> HIDE DEF G, s
  <2>1. i \in G
    BY DEF G
  <2> QED  BY <1>0, <2>1, LastGood
<1> HIDE DEF s
<1>2. \A j \in (i + 1) .. e : Length(meta, i, j) <= MaxPart
  <2> SUFFICES ASSUME NEW j \in (i + 1) .. e PROVE Length(meta, i, j) <= MaxPart
    OBVIOUS
  <2>1. j \in i .. e /\ j # i
    BY <1>0
  <2>2. j \in G
    BY <1>1, <2>1
  <2> QED  BY <2>1, <2>2
<1>3. e = s \/ Length(meta, i, e + 1) > MaxPart
  <2> SUFFICES ASSUME e # s PROVE Length(meta, i, e + 1) > MaxPart
    OBVIOUS
  <2>1. e + 1 \in (i + 1) .. s /\ e + 1 \in i .. Len(meta)
    BY <1>0
  <2>2. ~(Length(meta, i, e + 1) <= MaxPart)
    BY <1>1, <2>1
  <2>3. Length(meta, i, e + 1) \in Nat
    BY <2>1, LengthIsNat
  <2> QED  BY <2>2, <2>3, PartAssumption
<1> HIDE DEF G
<1>4. \E x \in i .. s : (\A j \in (i + 1) .. x : Length(meta, i, j) <= MaxPart) /\ (x = s \/ Length(meta, i, x + 1) > MaxPart)
  BY <1>2, <1>3
<1> QED  BY <1>4, Zenon DEF PartEnd, s

\* Where the part after the one from i begins
NextPart(meta, i) ==
    IF PartEnd(meta, i) = StreamEnd(meta, i) THEN PartEnd(meta, i) + 1 ELSE NextStart(i, PartEnd(meta, i))

\* A part holds a piece at least, and the next one starts within it or after it
LEMMA PartsGoOn ==
  ASSUME NEW meta, ArePieces(meta), NEW i \in 1 .. Len(meta)
  PROVE  /\ PartEnd(meta, i) \in i .. Len(meta)
         /\ NextPart(meta, i) \in (i + 1) .. (PartEnd(meta, i) + 1)
<1>1. Len(meta) \in Nat /\ StreamEnd(meta, i) \in i .. Len(meta) /\ PartEnd(meta, i) \in i .. StreamEnd(meta, i)
  BY StreamsEnd, PartsEnd DEF ArePieces
<1> QED  BY <1>1 DEF NextPart, NextStart

\* The parts from the k-th piece on
Planning(u, meta, k) ==
    u = [i \in k .. (Len(meta) + 1) |->
            IF i > Len(meta) THEN << >>
            ELSE <<[first |-> i, last |-> PartEnd(meta, i)]>> \o u[NextPart(meta, i)]]

\* Where the parts from a piece on can be planned, so can those from the piece before
LEMMA OnePartEarlier ==
  ASSUME NEW meta, ArePieces(meta), NEW k \in 1 .. Len(meta), NEW u, Planning(u, meta, k + 1)
  PROVE  \E v : Planning(v, meta, k)
<1> DEFINE n == Len(meta)
           cut(f, i) == IF i > n THEN << >> ELSE <<[first |-> i, last |-> PartEnd(meta, i)]>> \o f[NextPart(meta, i)]
           v == [i \in k .. (n + 1) |-> cut(u, i)]
<1>0. n \in Nat /\ k \in Nat \ {0} /\ k <= n
  BY DEF ArePieces
<1>1. \A i \in (k + 1) .. (n + 1) : u[i] = cut(u, i)
  BY DEF Planning
<1>2. \A i \in (k + 1) .. (n + 1) : i \in k .. (n + 1)
  BY <1>0
<1>3. \A i \in (k + 1) .. (n + 1) : v[i] = u[i]
  <2> HIDE DEF cut
  <2> QED  BY <1>1, <1>2
<1>4. \A i \in k .. (n + 1) : ~(i > n) => NextPart(meta, i) \in (k + 1) .. (n + 1)
  <2> SUFFICES ASSUME NEW i \in k .. (n + 1), ~(i > n) PROVE NextPart(meta, i) \in (k + 1) .. (n + 1)
    OBVIOUS
  <2>1. i \in 1 .. n
    BY <1>0
  <2>2. PartEnd(meta, i) \in i .. n /\ NextPart(meta, i) \in (i + 1) .. (PartEnd(meta, i) + 1)
    BY <2>1, PartsGoOn
  <2> QED  BY <1>0, <2>1, <2>2
<1>5. \A i \in k .. (n + 1) : cut(u, i) = cut(v, i)
  <2> HIDE DEF v
  <2> QED  BY <1>3, <1>4
<1>6. v = [i \in k .. (n + 1) |-> cut(v, i)]
  <2> HIDE DEF cut
  <2> QED  BY <1>5
<1> QED  BY <1>6 DEF Planning

\* A plan is what planning from the end backwards leads to
LEMMA PlanGoesBackwards ==
  ASSUME NEW meta, ArePieces(meta)
  PROVE  \E u : Planning(u, meta, 1) /\ PlanParts(meta) = u[1]
<1> DEFINE n == Len(meta)
           P == {m \in Nat : m <= n => \E u : Planning(u, meta, (n + 1) - m)}
<1>0. n \in Nat
  BY DEF ArePieces
<1>1. 0 \in P
  <2> DEFINE u == [i \in (n + 1) .. (n + 1) |-> << >>]
  <2>1. u = [i \in (n + 1) .. (n + 1) |->
                IF i > n THEN << >> ELSE <<[first |-> i, last |-> PartEnd(meta, i)]>> \o u[NextPart(meta, i)]]
    BY <1>0
  <2>2. Planning(u, meta, n + 1) /\ (n + 1) - 0 = n + 1
    BY <1>0, <2>1 DEF Planning
  <2> HIDE DEF u
  <2> QED  BY <2>2
<1>2. \A m \in Nat : m \in P => m + 1 \in P
  <2> SUFFICES ASSUME NEW m \in Nat, m \in P, m + 1 <= n PROVE \E u : Planning(u, meta, (n + 1) - (m + 1))
    OBVIOUS
  <2>1. PICK u : Planning(u, meta, (n + 1) - m)
    BY <1>0
  <2> DEFINE k == (n + 1) - (m + 1)
  <2>2. k \in 1 .. n /\ k + 1 = (n + 1) - m
    BY <1>0
  <2> HIDE DEF k
  <2>3. \E v : Planning(v, meta, k)
    BY <2>1, <2>2, OnePartEarlier
  <2> QED  BY <2>3 DEF k
<1>3. Nat \subseteq P
  <2> HIDE DEF P
  <2> QED  BY <1>1, <1>2, NumbersOneByOne
<1>4. n \in P /\ (n + 1) - n = 1 /\ n <= n
  BY <1>0, <1>3
<1>5. \E u : Planning(u, meta, 1)
  BY <1>4
<1> DEFINE w == CHOOSE u : Planning(u, meta, 1)
<1>6. Planning(w, meta, 1)
  BY <1>5
<1>7. PlanParts(meta) = w[1]
  BY DEF PlanParts, Planning, NextPart
<1> QED  BY <1>6, <1>7

\* One element before others
LEMMA OneBefore ==
  ASSUME NEW S, NEW x \in S, NEW rest \in Seq(S)
  PROVE  /\ <<x>> \o rest \in Seq(S) /\ Len(<<x>> \o rest) = Len(rest) + 1
         /\ (<<x>> \o rest)[1] = x /\ \A k \in 1 .. Len(rest) : (<<x>> \o rest)[k + 1] = rest[k]
  OBVIOUS

\* The parts of a list hold just the pieces from i to n
Covers(ps, i, n) ==
    /\ ps \in Seq([first : Nat, last : Nat])
    /\ \A k \in 1 .. Len(ps) : ps[k].first .. ps[k].last \subseteq i .. n
    /\ \A x \in i .. n : \E k \in 1 .. Len(ps) : x \in ps[k].first .. ps[k].last

\* A plan leaves no piece out: a part begins with the last piece of the one before
\* it, or with the piece after that
LEMMA PlanHearsEveryPiece ==
  ASSUME NEW meta, ArePieces(meta)
  PROVE  Covers(PlanParts(meta), 1, Len(meta))
<1> DEFINE n == Len(meta)
<1>0. n \in Nat
  BY DEF ArePieces
<1>1. PICK u : Planning(u, meta, 1) /\ PlanParts(meta) = u[1]
  BY PlanGoesBackwards
<1>2. \A i \in 1 .. (n + 1) :
         u[i] = IF i > n THEN << >> ELSE <<[first |-> i, last |-> PartEnd(meta, i)]>> \o u[NextPart(meta, i)]
  BY <1>1 DEF Planning
<1> DEFINE heard(m) == \A i \in ((n + 1) - m) .. (n + 1) : Covers(u[i], i, n)
           P == {m \in Nat : m <= n => heard(m)}
<1>3. 0 \in P
  <2> SUFFICES Covers(u[n + 1], n + 1, n)
    BY <1>0
  <2>1. u[n + 1] = << >>
    <3>1. n + 1 \in 1 .. (n + 1) /\ n + 1 > n
      BY <1>0
    <3> HIDE DEF n
    <3> QED  BY <1>2, <3>1
  <2>2. << >> \in Seq([first : Nat, last : Nat]) /\ Len(<< >>) = 0
    OBVIOUS
  <2> QED  BY <1>0, <2>1, <2>2 DEF Covers
<1>4. \A m \in Nat : m \in P => m + 1 \in P
  <2> SUFFICES ASSUME NEW m \in Nat, m \in P, m + 1 <= n PROVE heard(m + 1)
    <3> HIDE DEF heard
    <3> QED  OBVIOUS
  <2> TAKE i \in ((n + 1) - (m + 1)) .. (n + 1)
  <2>1. \A j \in ((n + 1) - m) .. (n + 1) : Covers(u[j], j, n)
    BY <1>0
  <2> HIDE DEF P
  <2>2. CASE i # (n + 1) - (m + 1)
    <3>1. i \in ((n + 1) - m) .. (n + 1)
      BY <1>0, <2>2
    <3> QED  BY <2>1, <3>1
  <2>3. CASE i = (n + 1) - (m + 1)
    <3> DEFINE e == PartEnd(meta, i)
               next == NextPart(meta, i)
               head == [first |-> i, last |-> e]
               rest == u[next]
    <3>1. i \in 1 .. n /\ i \in Nat /\ ~(i > n) /\ i \in 1 .. (n + 1) /\ (n + 1) - m = i + 1
      BY <1>0, <2>3
    <3>2. e \in i .. n /\ next \in (i + 1) .. (e + 1)
      BY <3>1, PartsGoOn
    <3> HIDE DEF e, next
    <3>3. next \in ((n + 1) - m) .. (n + 1)
      BY <1>0, <3>1, <3>2
    <3>4. Covers(rest, next, n)
      BY <2>1, <3>3
    <3>5. u[i] = <<head>> \o rest
      BY <1>2, <3>1 DEF e, next
    <3> HIDE DEF rest
    <3>6. head \in [first : Nat, last : Nat] /\ rest \in Seq([first : Nat, last : Nat]) /\ Len(rest) \in Nat
      BY <1>0, <3>1, <3>2, <3>4 DEF Covers
    <3>7. /\ u[i] \in Seq([first : Nat, last : Nat]) /\ Len(u[i]) = Len(rest) + 1
          /\ u[i][1] = head /\ \A k \in 1 .. Len(rest) : u[i][k + 1] = rest[k]
      BY <3>5, <3>6, OneBefore
    <3>8. \A k \in 1 .. Len(u[i]) : k = 1 \/ (k - 1 \in 1 .. Len(rest) /\ u[i][k] = rest[k - 1])
      <4> SUFFICES ASSUME NEW k \in 1 .. Len(u[i]), k # 1 PROVE k - 1 \in 1 .. Len(rest) /\ u[i][k] = rest[k - 1]
        OBVIOUS
      <4>1. k - 1 \in 1 .. Len(rest) /\ (k - 1) + 1 = k
        BY <3>6, <3>7
      <4> QED  BY <3>7, <4>1
    <3>9. head.first = i /\ head.last = e
      OBVIOUS
    <3> HIDE DEF head
    <3>10. \A k \in 1 .. Len(u[i]) : u[i][k].first .. u[i][k].last \subseteq i .. n
      <4> SUFFICES ASSUME NEW k \in 1 .. Len(u[i]) PROVE u[i][k].first .. u[i][k].last \subseteq i .. n
        OBVIOUS
      <4>1. CASE k = 1
        BY <1>0, <3>1, <3>2, <3>7, <3>9, <4>1
      <4>2. CASE k # 1
        <5>1. rest[k - 1].first .. rest[k - 1].last \subseteq next .. n
          BY <3>4, <3>8, <4>2 DEF Covers
        <5>2. next .. n \subseteq i .. n
          BY <1>0, <3>1, <3>2
        <5> QED  BY <3>8, <4>2, <5>1, <5>2
      <4> QED  BY <4>1, <4>2
    <3>11. \A x \in i .. n : \E k \in 1 .. Len(u[i]) : x \in u[i][k].first .. u[i][k].last
      <4> SUFFICES ASSUME NEW x \in i .. n PROVE \E k \in 1 .. Len(u[i]) : x \in u[i][k].first .. u[i][k].last
        OBVIOUS
      <4>1. CASE x <= e
        <5>1. 1 \in 1 .. Len(u[i]) /\ x \in i .. e
          BY <3>1, <3>2, <3>6, <3>7, <4>1
        <5> QED  BY <3>7, <3>9, <5>1
      <4>2. CASE ~(x <= e)
        <5>1. x \in next .. n
          BY <1>0, <3>1, <3>2, <4>2
        <5>2. PICK k \in 1 .. Len(rest) : x \in rest[k].first .. rest[k].last
          BY <3>4, <5>1 DEF Covers
        <5>3. k + 1 \in 1 .. Len(u[i])
          BY <3>6, <3>7
        <5> QED  BY <3>7, <5>2, <5>3
      <4> QED  BY <4>1, <4>2
    <3> QED  BY <3>7, <3>10, <3>11 DEF Covers
  <2> QED  BY <2>2, <2>3
<1>5. Nat \subseteq P
  <2> HIDE DEF P
  <2> QED  BY <1>3, <1>4, NumbersOneByOne
<1>6. n \in P /\ n <= n /\ (n + 1) - n = 1
  BY <1>0, <1>5
<1>7. Covers(u[1], 1, n)
  <2>1. \A i \in 1 .. (n + 1) : Covers(u[i], i, n)
    BY <1>6
  <2>2. 1 \in 1 .. (n + 1)
    BY <1>0
  <2> QED  BY <2>1, <2>2
<1> QED  BY <1>1, <1>7

\* What is stored, in order
LEMMA StoredInOrder ==
  ASSUME DOMAIN chunks \subseteq Seqs
  PROVE  ArePieces(Meta) /\ {Meta[i].seq : i \in 1 .. Len(Meta)} = DOMAIN chunks
<1> DEFINE D == DOMAIN chunks
           c == Cardinality(D)
           below(x) == Cardinality({r \in D : r < x})
           nth == [i \in 1 .. c |-> CHOOSE q \in D : below(q) = i - 1]
           M == [i \in 1 .. c |-> [seq |-> nth[i], len |-> 1, starts |-> chunks[nth[i]].starts]]
<1>1. Meta = M
  BY DEF Meta
<1>2. D \subseteq Int /\ IsFiniteSet(D)
  <2>1. 0 \in Int /\ MaxSeq \in Int
    BY RecAssumption
  <2>2. IsFiniteSet(0 .. MaxSeq)
    BY <2>1, FS_Interval
  <2>3. IsFiniteSet(D)
    BY <2>2, FS_Subset DEF Seqs
  <2> QED  BY <2>1, <2>3 DEF Seqs
<1>3. c \in Nat
  BY <1>2, FS_CardinalityType
<1>4. \A i \in 1 .. c : nth[i] \in D /\ below(nth[i]) = i - 1
  <2> HIDE DEF D
  <2>1. \A i \in 1 .. c : \E q \in D : below(q) = i - 1
    BY <1>2, NumberedInOrder
  <2> QED  BY <2>1
<1>8. (\A x \in D : below(x) \in 0 .. c - 1) /\ \A x, z \in D : below(x) = below(z) => x = z
  <2> HIDE DEF D
  <2> QED  BY <1>2, NumbersDiffer
<1>5. \A q \in D : \E i \in 1 .. c : nth[i] = q
  <2> SUFFICES ASSUME NEW q \in D PROVE \E i \in 1 .. c : nth[i] = q
    OBVIOUS
  <2> HIDE DEF D
  <2>1. below(q) \in 0 .. c - 1 /\ \A x \in D : below(x) = below(q) => x = q
    <3> HIDE DEF below, c
    <3> QED  BY <1>8
  <2> DEFINE i == below(q) + 1
  <2>2. i \in 1 .. c /\ i - 1 = below(q)
    BY <1>3, <2>1
  <2> HIDE DEF i, below, nth
  <2> QED  BY <1>4, <2>1, <2>2
<1> HIDE DEF nth, c
<1>6. Len(M) = c /\ \A i \in 1 .. c : M[i].seq = nth[i] /\ M[i].len = 1
  BY <1>3
<1> HIDE DEF M
<1>7. {M[i].seq : i \in 1 .. Len(M)} = D
  <2> HIDE DEF D, below
  <2>1. \A i \in 1 .. c : M[i].seq \in D
    BY <1>4, <1>6
  <2>2. \A q \in D : \E i \in 1 .. c : M[i].seq = q
    BY <1>5, <1>6
  <2> QED  BY <1>6, <2>1, <2>2
<1>9. ArePieces(M)
  BY <1>3, <1>6 DEF ArePieces
<1> QED  BY <1>1, <1>7, <1>9

-----------------------------------------------------------------------------
(***************************************************************************)
(* A recording                                                             *)
(***************************************************************************)
RecTypes ==
    /\ sess \in SessionRow
    /\ chunks \in [DOMAIN chunks -> ChunkRow] /\ DOMAIN chunks \subseteq Seqs
    /\ meet \in {"none", "active", "stopping", "completed", "failed", "deleted"}
    /\ job \in {"none", "queued", "running", "orphan"}
    /\ pass = [at |-> pass.at, seen |-> pass.seen, part |-> pass.part]
    /\ loop = [do |-> loop.do, at |-> loop.at]

\* Nothing has been recorded yet
Unborn == /\ sess = NoSession /\ chunks = << >> /\ text = NoText /\ job = "none" /\ pass = NoPass /\ ~dropping
          /\ loop.do \in {"none", "create"}

\* A session is made once, with its meeting, and goes with it
LivesOnce ==
    /\ meet = "none" => Unborn /\ loop = Free
    /\ loop.do = "create" => Unborn /\ meet = "active"
    /\ Is("gone") => meet = "deleted" \/ Unborn
    /\ meet = "deleted" => Is("gone")

\* A pass begins after the recording was stopped, which is never taken back
PassesAreAfter ==
    /\ pass.at # "none" => sess.st \notin OpenStatuses
    /\ pass.at \in {"assembling", "hearing", "saving"} => sess.st \in {"finalizing", "failed", "gone"}
    /\ loop.do = "complete" => sess.st \in {"done", "gone"}
    /\ loop.do \in {"abandon", "purge"} /\ loop.at # 1 => abandoned

SeenPieces == {pass.seen[i].seq : i \in 1 .. Len(pass.seen)}

\* It sees every piece, and writes what it saw
PassesSeeAll ==
    ~abandoned /\ ~Is("gone") =>
        /\ pass.at \in {"hearing", "saving"} => ArePieces(pass.seen) /\ SeenPieces = 0 .. sess.last
        /\ pass.at = "naming" => text = 0 .. sess.last

RecInv == RecTypes /\ LivesOnce /\ PassesAreAfter /\ PassesSeeAll /\ NothingLost

\* The invariant of a recording holds before it is opened
LEMMA RecBegins == RecInit => RecInv
<1> SUFFICES ASSUME RecInit PROVE RecInv
  OBVIOUS
<1>1. sess \in SessionRow
  BY RecAssumption DEF RecInit, NoSession, SessionRow
<1>2. << >> \in [DOMAIN << >> -> ChunkRow] /\ DOMAIN << >> = {}
  OBVIOUS
<1>3. RecTypes
  BY <1>1, <1>2 DEF RecInit, RecTypes, NoPass, Free
<1>4. LivesOnce /\ PassesAreAfter /\ PassesSeeAll /\ NothingLost
  BY DEF RecInit, LivesOnce, Unborn, PassesAreAfter, PassesSeeAll, NothingLost, Is, NoSession, NoPass, Free
<1> QED  BY <1>3, <1>4 DEF RecInv

Statuses == {"gone", "recording", "paused", "finalizing", "done", "failed"}
Stages   == {"none", "queued", "assembling", "transcribing", "naming", "done", "failed"}
Session(st, last, idle, stage) == [st |-> st, last |-> last, idle |-> idle, stage |-> stage]

\* The fields of a session make a session
LEMMA SessionTyped ==
  ASSUME NEW st \in Statuses, NEW last \in -1 .. MaxSeq, NEW idle \in 0 .. 2, NEW stage \in Stages
  PROVE  /\ Session(st, last, idle, stage) \in SessionRow
         /\ Session(st, last, idle, stage).st = st /\ Session(st, last, idle, stage).last = last
  BY DEF SessionRow, Session, Statuses, Stages

\* The ways a session changes
LEMMA SessionChanges ==
  ASSUME NEW row \in SessionRow, NEW st, NEW last, NEW idle, NEW stage
  PROVE  /\ row.st \in Statuses /\ row.last \in -1 .. MaxSeq /\ row.idle \in 0 .. 2 /\ row.stage \in Stages
         /\ Touched(row) = Session(row.st, row.last, 0, row.stage)
         /\ [Touched(row) EXCEPT !.last = last] = Session(row.st, last, 0, row.stage)
         /\ [Touched(row) EXCEPT !.st = st] = Session(st, row.last, 0, row.stage)
         /\ [Touched(row) EXCEPT !.stage = stage] = Session(row.st, row.last, 0, stage)
         /\ [row EXCEPT !.st = st] = Session(st, row.last, row.idle, row.stage)
         /\ [row EXCEPT !.idle = idle] = Session(row.st, row.last, idle, row.stage)
<1>1. row.st \in Statuses /\ row.last \in -1 .. MaxSeq /\ row.idle \in 0 .. 2 /\ row.stage \in Stages
  BY DEF SessionRow, Statuses, Stages
<1>2. row = [st |-> row.st, last |-> row.last, idle |-> row.idle, stage |-> row.stage]
  BY DEF SessionRow
<1>3. Touched(row) = [st |-> row.st, last |-> row.last, idle |-> 0, stage |-> row.stage]
  BY <1>2 DEF Touched
<1>4. [Touched(row) EXCEPT !.last = last] = Session(row.st, last, 0, row.stage)
  BY <1>3 DEF Session
<1>5. [Touched(row) EXCEPT !.st = st] = Session(st, row.last, 0, row.stage)
  BY <1>3 DEF Session
<1>6. [Touched(row) EXCEPT !.stage = stage] = Session(row.st, row.last, 0, stage)
  BY <1>3 DEF Session
<1>8. [row EXCEPT !.st = st] = Session(st, row.last, row.idle, row.stage)
  BY <1>2 DEF Session
<1>9. [row EXCEPT !.idle = idle] = Session(row.st, row.last, idle, row.stage)
  BY <1>2 DEF Session
<1> QED  BY <1>1, <1>3, <1>4, <1>5, <1>6, <1>8, <1>9 DEF Session

\* A session keeps its pieces and moves on
Moves(st) == sess' \in SessionRow /\ sess'.st = st /\ sess'.last = sess.last

\* Every change of a session leaves it a session with as many pieces
LEMMA SessionMoves ==
  ASSUME sess \in SessionRow
  PROVE  /\ sess' = Touched(sess) => Moves(sess.st)
         /\ \A st \in Statuses : sess' = [Touched(sess) EXCEPT !.st = st] => Moves(st)
         /\ \A st \in Statuses : sess' = [sess EXCEPT !.st = st] => Moves(st)
         /\ \A st \in Statuses, stage \in Stages : sess' = [Touched(sess) EXCEPT !.st = st, !.stage = stage] => Moves(st)
         /\ \A stage \in Stages : sess' = Staged(stage) => Moves(sess.st)
         /\ \A idle \in 0 .. 2 : sess' = [sess EXCEPT !.idle = idle] => Moves(sess.st)
<1>1. sess.st \in Statuses /\ sess.last \in -1 .. MaxSeq /\ sess.idle \in 0 .. 2 /\ sess.stage \in Stages
  BY SessionChanges
<1>2. \A st \in Statuses, idle \in 0 .. 2, stage \in Stages : sess' = Session(st, sess.last, idle, stage) => Moves(st)
  BY <1>1, SessionTyped DEF Moves
<1>3. sess' = Touched(sess) => Moves(sess.st)
  <2>1. Touched(sess) = Session(sess.st, sess.last, 0, sess.stage)
    BY SessionChanges
  <2> QED  BY <1>1, <1>2, <2>1
<1>4. ASSUME NEW st \in Statuses, sess' = [Touched(sess) EXCEPT !.st = st] PROVE Moves(st)
  <2>1. sess' = Session(st, sess.last, 0, sess.stage)
    BY <1>4, SessionChanges
  <2> QED  BY <1>1, <1>2, <2>1
<1>5. ASSUME NEW st \in Statuses, sess' = [sess EXCEPT !.st = st] PROVE Moves(st)
  <2>1. sess' = Session(st, sess.last, sess.idle, sess.stage)
    BY <1>5, SessionChanges
  <2> QED  BY <1>1, <1>2, <2>1
<1>6. ASSUME NEW st \in Statuses, NEW stage \in Stages, sess' = [Touched(sess) EXCEPT !.st = st, !.stage = stage] PROVE Moves(st)
  <2>1. PICK t \in SessionRow : t = Touched(sess) /\ t.last = sess.last
    <3>1. Touched(sess) = Session(sess.st, sess.last, 0, sess.stage)
      BY SessionChanges
    <3>2. /\ Session(sess.st, sess.last, 0, sess.stage) \in SessionRow
          /\ Session(sess.st, sess.last, 0, sess.stage).last = sess.last
      BY <1>1, SessionTyped
    <3> QED  BY <3>1, <3>2
  <2>2. PICK r : r = [t EXCEPT !.st = st, !.stage = stage]
    OBVIOUS
  <2>3. r.st = st /\ r.last = sess.last /\ r \in SessionRow
    BY <2>1, <2>2 DEF SessionRow, Statuses, Stages
  <2> QED  BY <1>6, <2>1, <2>2, <2>3 DEF Moves
<1>7. ASSUME NEW stage \in Stages, sess' = Staged(stage) PROVE Moves(sess.st)
  <2>1. CASE Is("gone")
    BY <1>7, <2>1 DEF Staged, Moves
  <2>2. CASE ~Is("gone")
    <3>1. sess' = [Touched(sess) EXCEPT !.stage = stage]
      BY <1>7, <2>2 DEF Staged
    <3>2. sess' = Session(sess.st, sess.last, 0, stage)
      BY <3>1, SessionChanges
    <3> QED  BY <1>1, <1>2, <3>2
  <2> QED  BY <2>1, <2>2
<1>8. ASSUME NEW idle \in 0 .. 2, sess' = [sess EXCEPT !.idle = idle] PROVE Moves(sess.st)
  <2>1. sess' = Session(sess.st, sess.last, idle, sess.stage)
    BY <1>8, SessionChanges
  <2> QED  BY <1>1, <1>2, <2>1
<1> QED  BY <1>3, <1>4, <1>5, <1>6, <1>7, <1>8

-----------------------------------------------------------------------------
\* A recording that exists
LEMMA Alive ==
  ASSUME RecInv
  PROVE  /\ ~Is("gone") => meet \notin {"none", "deleted"} /\ loop.do # "create"
         /\ Is("gone") => meet = "deleted" \/ Unborn
         /\ sess \in SessionRow /\ chunks \in [DOMAIN chunks -> ChunkRow]
         /\ job \in {"none", "queued", "running", "orphan"}
         /\ meet \in {"none", "active", "stopping", "completed", "failed", "deleted"}
         /\ loop.do = "complete" /\ ~Is("gone") => sess.st = "done"
         /\ loop.do \in {"abandon", "purge"} /\ loop.at # 1 => abandoned
         /\ loop = [do |-> loop.do, at |-> loop.at] /\ pass = [at |-> pass.at, seen |-> pass.seen, part |-> pass.part]
  BY DEF RecInv, RecTypes, LivesOnce, PassesAreAfter, Unborn, Is, NoSession

LoopTyped == loop' = [do |-> loop'.do, at |-> loop'.at]

\* A step that neither ends a recording nor writes a transcript
LEMMA ItGoesOn ==
  ASSUME RecInv, ~Is("gone"), sess' \in SessionRow, sess'.last = sess.last, sess'.st # "gone",
         sess'.st = "done" <=> sess.st = "done", sess'.st \in OpenStatuses => sess.st \in OpenStatuses,
         chunks' \in [DOMAIN chunks -> ChunkRow], UNCHANGED <<text, pass, abandoned>>,
         job' \in {"none", "queued", "running", "orphan"}, meet' \in {"active", "stopping", "completed", "failed"},
         LoopTyped, loop'.do # "create", loop'.do = "complete" => sess.st = "done",
         loop'.do \in {"abandon", "purge"} /\ loop'.at # 1 => abandoned
  PROVE  RecInv'
<1>1. DOMAIN chunks' = DOMAIN chunks
  OBVIOUS
<1>2. RecTypes'
  BY <1>1 DEF RecInv, RecTypes, LoopTyped
<1>3. LivesOnce'
  BY DEF RecInv, LivesOnce, Is
<1>4. PassesAreAfter'
  <2>1. sess'.st \in Statuses /\ sess.st \in Statuses
    BY DEF RecInv, RecTypes, SessionRow, Statuses
  <2> QED  BY <2>1 DEF RecInv, PassesAreAfter, Is, OpenStatuses, Statuses
<1>5. PassesSeeAll'
  BY DEF RecInv, PassesSeeAll, SeenPieces, Is
<1>6. NothingLost'
  BY <1>1 DEF RecInv, NothingLost, Is
<1> QED  BY <1>2, <1>3, <1>4, <1>5, <1>6 DEF RecInv

\* A step after everything was discarded
LEMMA NothingIsLeft ==
  ASSUME RecInv, meet = "deleted", sess' = sess, meet' = meet, RecTypes', loop'.do # "create",
         loop'.do \in {"abandon", "purge"} /\ loop'.at # 1 => abandoned'
  PROVE  RecInv'
<1>1. Is("gone") /\ Is("gone")'
  BY DEF RecInv, LivesOnce, Is
<1>2. LivesOnce' /\ PassesAreAfter' /\ PassesSeeAll' /\ NothingLost'
  BY <1>1 DEF LivesOnce, PassesAreAfter, PassesSeeAll, NothingLost, Is, OpenStatuses
<1> QED  BY <1>2 DEF RecInv

\* Making a recording
LEMMA ARecordingIsMade ==
  ASSUME RecInv, CreateMeeting \/ CreateSession
  PROVE  RecInv'
<1>1. CASE CreateMeeting
  <2>1. /\ loop' = [do |-> "create", at |-> 1] /\ meet' = "active" /\ meet = "none"
        /\ UNCHANGED <<sess, chunks, text, job, pass, dropping, abandoned>>
    BY <1>1 DEF CreateMeeting
  <2>2. RecTypes'
    BY <2>1 DEF RecInv, RecTypes
  <2>3. LivesOnce' /\ PassesAreAfter' /\ PassesSeeAll' /\ NothingLost'
    BY <2>1 DEF RecInv, LivesOnce, Unborn, PassesAreAfter, PassesSeeAll, NothingLost, Is, NoSession, NoPass
  <2> QED  BY <2>2, <2>3 DEF RecInv
<1>2. CASE CreateSession
  <2>1. /\ loop' = Free /\ sess' = [st |-> "recording", last |-> -1, idle |-> 0, stage |-> "none"]
        /\ UNCHANGED <<chunks, meet, text, job, pass, dropping, abandoned>> /\ loop.do = "create"
    BY <1>2 DEF CreateSession, Done
  <2>2. Unborn /\ meet = "active"
    BY <2>1 DEF RecInv, LivesOnce
  <2>3. sess' \in SessionRow
    BY <2>1, RecAssumption DEF SessionRow
  <2>4. RecTypes'
    BY <2>1, <2>3 DEF RecInv, RecTypes, Free
  <2>5. DOMAIN chunks' = 0 .. sess'.last
    BY <2>1, <2>2 DEF Unborn
  <2>6. LivesOnce' /\ PassesAreAfter' /\ PassesSeeAll' /\ NothingLost'
    BY <2>1, <2>2, <2>5 DEF LivesOnce, Unborn, PassesAreAfter, PassesSeeAll, NothingLost, Is, NoPass, Free
  <2> QED  BY <2>4, <2>6 DEF RecInv
<1> QED  BY <1>1, <1>2

\* A piece arrives
LEMMA APieceArrives ==
  ASSUME RecInv, NEW q \in Seqs, NEW starts \in BOOLEAN, AddChunk(q, starts)
  PROVE  RecInv'
<1>1. /\ sess.st \in OpenStatuses /\ q = sess.last + 1
      /\ chunks' = [r \in DOMAIN chunks \cup {q} |-> IF r = q THEN [starts |-> starts \/ q = 0, caption |-> FALSE] ELSE chunks[r]]
      /\ sess' = [Touched(sess) EXCEPT !.last = q]
      /\ UNCHANGED <<meet, text, job, pass, loop, dropping, abandoned>>
  BY DEF AddChunk, TakesPiece
<1>2. sess \in SessionRow /\ sess.last \in -1 .. MaxSeq /\ q \in 0 .. MaxSeq /\ MaxSeq \in Nat
  BY SessionChanges, RecAssumption DEF RecInv, RecTypes, Seqs
<1>3. sess' \in SessionRow /\ sess'.st = sess.st /\ sess'.last = q
  <2>1. sess.st \in Statuses /\ sess.stage \in Stages
    BY <1>2, SessionChanges
  <2>2. sess' = Session(sess.st, q, 0, sess.stage)
    BY <1>1, <1>2, SessionChanges
  <2>3. 0 \in 0 .. 2 /\ q \in -1 .. MaxSeq
    BY <1>2
  <2> QED  BY <2>1, <2>2, <2>3, SessionTyped
<1>4. DOMAIN chunks' = DOMAIN chunks \cup {q} /\ DOMAIN chunks' \subseteq Seqs
  BY <1>1 DEF RecInv, RecTypes
<1>5. chunks' \in [DOMAIN chunks' -> ChunkRow]
  <2>1. [starts |-> starts \/ q = 0, caption |-> FALSE] \in ChunkRow
    <3>1. (starts \/ q = 0) \in BOOLEAN /\ FALSE \in BOOLEAN
      BY Zenon
    <3> QED  BY <3>1, Zenon DEF ChunkRow
  <2>2. \A r \in DOMAIN chunks : chunks[r] \in ChunkRow
    BY DEF RecInv, RecTypes
  <2>3. \A r \in DOMAIN chunks' : chunks'[r] \in ChunkRow
    BY <1>1, <2>1, <2>2, Zenon
  <2>4. chunks' = [r \in DOMAIN chunks' |-> chunks'[r]]
    BY <1>1
  <2> QED  BY <2>3, <2>4
<1>6. RecTypes'
  BY <1>1, <1>3, <1>4, <1>5 DEF RecInv, RecTypes
<1>7. LivesOnce' /\ PassesAreAfter' /\ PassesSeeAll'
  BY <1>1, <1>3 DEF RecInv, LivesOnce, Unborn, NoSession, PassesAreAfter, PassesSeeAll, OpenStatuses, Is
<1>8. NothingLost'
  <2>1. ~abandoned => DOMAIN chunks = 0 .. sess.last
    BY <1>1 DEF RecInv, NothingLost, OpenStatuses, Is
  <2>2. (0 .. sess.last) \cup {q} = 0 .. q
    BY <1>1, <1>2
  <2> QED  BY <1>1, <1>3, <1>4, <2>1, <2>2 DEF NothingLost, OpenStatuses, Is
<1> QED  BY <1>6, <1>7, <1>8 DEF RecInv

\* What the browser of the recorder asks for besides
LEMMA TheBrowserAsks ==
  ASSUME RecInv, Caption \/ DiscardAsk \/ RetryAsk \/ (\E to \in OpenStatuses : Control(to))
                 \/ \E final \in {-1} \cup Seqs : StopAsk(final)
  PROVE  RecInv'
<1>1. CASE Caption
  <2>1. PICK x : chunks' = [chunks EXCEPT ![x].caption = TRUE]
    BY <1>1 DEF Caption
  <2>2. /\ sess.st \in OpenStatuses /\ UNCHANGED <<sess, meet, text, job, pass, loop, dropping, abandoned>>
    BY <1>1 DEF Caption
  <2>3. chunks' \in [DOMAIN chunks -> ChunkRow]
    <3>1. \A row \in ChunkRow : [row EXCEPT !.caption = TRUE] \in ChunkRow
      BY Zenon DEF ChunkRow
    <3> QED  BY <2>1, <3>1, Alive
  <2> QED  BY <2>2, <2>3, Alive, ItGoesOn DEF Is, OpenStatuses, LoopTyped
<1>2. CASE DiscardAsk
  <2>1. sess.st # "gone" /\ UNCHANGED <<sess, chunks, meet, text, job, pass, loop, abandoned>>
    BY <1>2 DEF DiscardAsk, OpenStatuses
  <2> QED  BY <2>1, Alive, ItGoesOn DEF Is, LoopTyped, RecInv, PassesAreAfter
<1>3. CASE RetryAsk
  <2>1. sess.st = "failed" /\ loop' = [do |-> "retry", at |-> 1] /\ UNCHANGED <<sess, chunks, meet, text, job, pass, abandoned>>
    BY <1>3 DEF RetryAsk, Is
  <2> QED  BY <2>1, Alive, ItGoesOn DEF Is, LoopTyped
<1>4. ASSUME NEW to \in OpenStatuses, Control(to) PROVE RecInv'
  <2>1. /\ sess.st \in OpenStatuses /\ sess' = [Touched(sess) EXCEPT !.st = to]
        /\ UNCHANGED <<chunks, meet, text, job, pass, loop, dropping, abandoned>>
    BY <1>4 DEF Control
  <2>2. to \in Statuses
    BY DEF OpenStatuses, Statuses
  <2>3. Moves(to)
    BY <2>1, <2>2, Alive, SessionMoves
  <2> QED  BY <2>1, <2>3, Alive, ItGoesOn DEF Is, LoopTyped, Moves, OpenStatuses, RecInv, PassesAreAfter
<1>5. ASSUME NEW final, StopAsk(final) PROVE RecInv'
  <2>1. /\ sess.st \in OpenStatuses /\ loop' = [do |-> IF sess.last = -1 THEN "stopEmpty" ELSE "stop", at |-> 1]
        /\ UNCHANGED <<sess, chunks, meet, text, job, pass, dropping, abandoned>>
    BY <1>5 DEF StopAsk
  <2>2. LoopTyped /\ loop'.do \in {"stopEmpty", "stop"}
    BY <2>1 DEF LoopTyped
  <2> QED  BY <2>1, <2>2, Alive, ItGoesOn DEF Is, OpenStatuses
<1> QED  BY <1>1, <1>2, <1>3, <1>4, <1>5

\* A status while the recording is stopped or goes into its final pass
LEMMA StoppingGoesOn ==
  ASSUME RecInv, StopEmpty \/ Stop \/ Retry
  PROVE  RecInv'
<1>1. CASE StopEmpty
  <2>1. /\ loop.do = "stopEmpty" /\ UNCHANGED <<chunks, text, job, pass, dropping, abandoned>>
        /\ LoopTyped /\ loop'.do \in {"stopEmpty", "none"}
    BY <1>1, Alive DEF StopEmpty, Then, Done, Free, LoopTyped
  <2>2. CASE Is("gone")
    <3>1. meet = "deleted"
      BY <2>1, <2>2, Alive DEF Unborn
    <3>2. sess' = sess /\ meet' = meet
      BY <1>1, <2>2, <3>1 DEF StopEmpty, SetMeeting, Is, OpenStatuses
    <3>3. RecTypes'
      BY <2>1, <3>2 DEF RecInv, RecTypes, LoopTyped
    <3> QED  BY <2>1, <3>1, <3>2, <3>3, NothingIsLeft
  <2>3. CASE ~Is("gone")
    <3>1. meet' \in {"active", "stopping", "completed", "failed"}
      BY <1>1, <2>3, Alive DEF StopEmpty, SetMeeting
    <3>2. sess' = sess \/ (sess.st \in OpenStatuses /\ Moves("failed"))
      BY <1>1, Alive, SessionMoves DEF StopEmpty, Statuses
    <3>3. /\ sess' \in SessionRow /\ sess'.last = sess.last /\ sess'.st # "gone"
          /\ (sess'.st = "done" <=> sess.st = "done") /\ (sess'.st \in OpenStatuses => sess.st \in OpenStatuses)
      BY <2>3, <3>2, Alive DEF Moves, OpenStatuses, Is
    <3> QED  BY <2>1, <2>3, <3>1, <3>3, Alive, ItGoesOn
  <2> QED  BY <2>2, <2>3
<1>2. ASSUME NEW doing \in {"stop", "retry"}, NEW allowed, allowed \in {OpenStatuses, {"failed"}}, ToFinalize(doing, allowed)
      PROVE  RecInv'
  <2>1. /\ loop.do = doing /\ UNCHANGED <<chunks, text, pass, dropping, abandoned>>
        /\ LoopTyped /\ loop'.do \in {doing, "none"} /\ job' \in {job, "queued"}
    BY <1>2, Alive DEF ToFinalize, Then, Done, Free, LoopTyped
  <2>2. sess' = sess \/ (sess.st \in allowed /\ sess' = Finalizing(sess))
    BY <1>2 DEF ToFinalize
  <2>3. CASE Is("gone")
    <3>1. meet = "deleted"
      BY <2>1, <2>3, Alive DEF Unborn
    <3>2. sess' = sess
      BY <1>2, <2>2, <2>3 DEF Is, OpenStatuses
    <3>3. meet' = meet
      BY <1>2, <3>1 DEF ToFinalize, SetMeeting
    <3>4. RecTypes'
      BY <2>1, <3>2, <3>3 DEF RecInv, RecTypes, LoopTyped
    <3> QED  BY <2>1, <3>1, <3>2, <3>3, <3>4, NothingIsLeft
  <2>4. CASE ~Is("gone")
    <3>1. meet' \in {"active", "stopping", "completed", "failed"}
      BY <1>2, <2>4, Alive DEF ToFinalize, SetMeeting
    <3>2. sess' = sess \/ (sess.st \in allowed /\ Moves("finalizing"))
      <4>1. "finalizing" \in Statuses /\ "queued" \in Stages
        BY DEF Statuses, Stages
      <4>2. sess' = Finalizing(sess) => Moves("finalizing")
        BY <4>1, Alive, SessionMoves DEF Finalizing
      <4> QED  BY <2>2, <4>2
    <3>3. /\ sess' \in SessionRow /\ sess'.last = sess.last /\ sess'.st # "gone"
          /\ (sess'.st = "done" <=> sess.st = "done") /\ (sess'.st \in OpenStatuses => sess.st \in OpenStatuses)
      BY <1>2, <2>4, <3>2, Alive DEF Moves, OpenStatuses, Is
    <3>4. job' \in {"none", "queued", "running", "orphan"}
      BY <2>1, Alive
    <3> QED  BY <2>1, <2>4, <3>1, <3>3, <3>4, Alive, ItGoesOn
  <2> QED  BY <2>3, <2>4
<1> QED  BY <1>1, <1>2 DEF Stop, Retry

\* The session is told how far its pass is
LEMMA StagesMove ==
  ASSUME RecInv, NEW stage \in {"assembling", "transcribing", "naming"}, sess' = Staged(stage)
  PROVE  sess' \in SessionRow /\ sess'.st = sess.st /\ sess'.last = sess.last
<1>1. stage \in Stages
  BY DEF Stages
<1> QED  BY <1>1, Alive, SessionMoves DEF Moves

\* The pass and its session, between two steps of which the session keeps status and pieces
LEMMA ThePassGoesOn ==
  ASSUME RecInv, sess' \in SessionRow, sess'.st = sess.st, sess'.last = sess.last,
         UNCHANGED <<chunks, meet, dropping, abandoned>>, job' \in {"none", "queued", "running", "orphan"}, LoopTyped,
         pass' = [at |-> pass'.at, seen |-> pass'.seen, part |-> pass'.part],
         Is("gone") => meet = "deleted" /\ sess' = sess,
         loop'.do \in {loop.do, "fail"}, loop'.do \in {"abandon", "purge"} => loop'.at = loop.at,
         pass'.at # "none" => sess.st \notin OpenStatuses,
         pass'.at \in {"assembling", "hearing", "saving"} => sess.st \in {"finalizing", "failed", "gone"},
         ~abandoned /\ ~Is("gone") =>
            /\ pass'.at \in {"hearing", "saving"} => ArePieces(pass'.seen) /\ SeenPieces' = 0 .. sess.last
            /\ pass'.at = "naming" => text' = 0 .. sess.last
            /\ Is("done") => text' = 0 .. sess.last
  PROVE  RecInv'
<1>1. RecTypes'
  BY DEF RecInv, RecTypes, LoopTyped
<1>2. CASE Is("gone")
  <2>1. loop'.do # "create"
    BY <1>2, Alive DEF RecInv, LivesOnce
  <2>2. loop'.do \in {"abandon", "purge"} /\ loop'.at # 1 => abandoned'
    BY DEF RecInv, PassesAreAfter
  <2> QED  BY <1>1, <1>2, <2>1, <2>2, NothingIsLeft
<1>3. CASE ~Is("gone")
  <2>1. LivesOnce'
    BY <1>3, Alive DEF RecInv, LivesOnce, Is
  <2>2. PassesAreAfter'
    BY <1>3 DEF RecInv, PassesAreAfter, Is
  <2>3. PassesSeeAll' /\ NothingLost'
    BY <1>3 DEF RecInv, PassesSeeAll, NothingLost, Is
  <2> QED  BY <1>1, <2>1, <2>2, <2>3 DEF RecInv
<1> QED  BY <1>2, <1>3

\* What a step of the pass may rely on
LEMMA PassFacts ==
  ASSUME RecInv
  PROVE  /\ pass.at # "none" => sess.st \notin OpenStatuses
         /\ pass.at # "none" \/ job # "none" => ~Is("gone") \/ meet = "deleted"
         /\ pass.at \in {"assembling", "hearing", "saving"} => sess.st \in {"finalizing", "failed", "gone"}
         /\ ~abandoned /\ ~Is("gone") =>
              /\ pass.at \in {"hearing", "saving"} => ArePieces(pass.seen) /\ SeenPieces = 0 .. sess.last
              /\ pass.at = "naming" => text = 0 .. sess.last
              /\ Is("done") => text = 0 .. sess.last
              /\ ~Is("done") => DOMAIN chunks = 0 .. sess.last
         /\ DOMAIN chunks \subseteq Seqs
<1>1. NoPass.at = "none"
  BY DEF NoPass
<1> QED  BY <1>1 DEF RecInv, RecTypes, LivesOnce, Unborn, PassesAreAfter, PassesSeeAll, NothingLost, Is

\* The pass fails: what it saw does not matter any more
LEMMA ItFails ==
  ASSUME RecInv, Fails, pass.at # "none", UNCHANGED <<sess, chunks, meet, text, job, dropping, abandoned>>
  PROVE  RecInv'
<1>1. /\ pass' = [at |-> pass'.at, seen |-> pass'.seen, part |-> pass'.part] /\ pass'.at = "failing"
      /\ LoopTyped /\ loop'.do = "fail"
  BY Alive DEF Fails, LoopTyped
<1> QED  BY <1>1, Alive, PassFacts, ThePassGoesOn

\* A pass reads the pieces as they are stored
LEMMA APassBegins ==
  ASSUME RecInv, PassBegins
  PROVE  RecInv'
<1>1. UNCHANGED <<chunks, meet, text, loop, dropping, abandoned>> /\ job = "queued"
  BY DEF PassBegins
<1>2. CASE Is("finalizing")
  <2>1. job' = "running" /\ pass' = [NoPass EXCEPT !.at = "assembling"] /\ sess' = Staged("assembling")
    BY <1>2 DEF PassBegins
  <2>2. pass' = [at |-> "assembling", seen |-> {}, part |-> 0]
    BY <2>1 DEF NoPass
  <2>3. sess' \in SessionRow /\ sess'.st = sess.st /\ sess'.last = sess.last
    BY <2>1, StagesMove
  <2>4. LoopTyped
    BY <1>1, Alive DEF LoopTyped
  <2> QED  BY <1>1, <1>2, <2>1, <2>2, <2>3, <2>4, PassFacts, ThePassGoesOn DEF Is, OpenStatuses
<1>3. CASE ~Is("finalizing")
  <2>1. job' = "none" /\ UNCHANGED <<pass, sess>>
    BY <1>3 DEF PassBegins
  <2>2. LoopTyped
    BY <1>1, Alive DEF LoopTyped
  <2>3. SeenPieces' = SeenPieces
    BY <2>1 DEF SeenPieces
  <2> QED  BY <1>1, <2>1, <2>2, <2>3, Alive, PassFacts, ThePassGoesOn
<1> QED  BY <1>2, <1>3

\* It sees what is stored, which is everything
LEMMA APassPlans ==
  ASSUME RecInv, PassPlans
  PROVE  RecInv'
<1>1. UNCHANGED <<chunks, meet, text, job, dropping, abandoned>> /\ pass.at = "assembling"
  BY DEF PassPlans
<1>2. CASE Meta = << >> \/ Is("gone")
  BY <1>1, <1>2, ItFails DEF PassPlans
<1>3. CASE ~(Meta = << >> \/ Is("gone"))
  <2>1. pass' = [at |-> "hearing", seen |-> Meta, part |-> 1] /\ UNCHANGED loop /\ sess' = Staged("transcribing")
    BY <1>3 DEF PassPlans
  <2>2. sess' \in SessionRow /\ sess'.st = sess.st /\ sess'.last = sess.last
    BY <2>1, StagesMove
  <2>3. LoopTyped
    BY <2>1, Alive DEF LoopTyped
  <2>4. sess.st \in {"finalizing", "failed"}
    BY <1>1, <1>3, PassFacts DEF Is
  <2>5. pass'.seen = Meta /\ pass'.at = "hearing" /\ pass' = [at |-> pass'.at, seen |-> pass'.seen, part |-> pass'.part]
    BY <2>1
  <2>6. ArePieces(pass'.seen) /\ SeenPieces' = DOMAIN chunks
    BY <2>5, PassFacts, StoredInOrder DEF SeenPieces
  <2>7. ~abandoned => SeenPieces' = 0 .. sess.last
    BY <1>3, <2>4, <2>6, PassFacts DEF Is
  <2> QED  BY <1>1, <1>3, <2>1, <2>2, <2>3, <2>4, <2>5, <2>6, <2>7, Alive, PassFacts, ThePassGoesOn DEF Is, OpenStatuses
<1> QED  BY <1>2, <1>3

\* A part is transcribed, or it fails
LEMMA APassHears ==
  ASSUME RecInv, PassHears
  PROVE  RecInv'
<1>1. UNCHANGED <<chunks, meet, text, job, dropping, abandoned>> /\ pass.at = "hearing"
  BY DEF PassHears
<1>2. CASE Fails /\ UNCHANGED sess
  BY <1>1, <1>2, ItFails
<1>3. CASE ~(Fails /\ UNCHANGED sess)
  <2>1. /\ sess' = Staged("transcribing") /\ UNCHANGED loop /\ ~Is("gone")
        /\ pass' = [pass EXCEPT !.at = "saving"] \/ pass' = [pass EXCEPT !.part = @ + 1]
    BY <1>3 DEF PassHears
  <2>2. sess' \in SessionRow /\ sess'.st = sess.st /\ sess'.last = sess.last
    BY <2>1, StagesMove
  <2>3. LoopTyped
    BY <2>1, Alive DEF LoopTyped
  <2>4. pass'.at \in {"hearing", "saving"} /\ pass'.seen = pass.seen
        /\ pass' = [at |-> pass'.at, seen |-> pass'.seen, part |-> pass'.part]
    BY <1>1, <2>1, Alive
  <2>5. SeenPieces' = SeenPieces
    BY <2>4 DEF SeenPieces
  <2> QED  BY <1>1, <2>1, <2>2, <2>3, <2>4, <2>5, Alive, PassFacts, ThePassGoesOn
<1> QED  BY <1>2, <1>3

\* What a pass writes is what it saw
LEMMA TextIsWhatWasSeen ==
  ASSUME ArePieces(pass.seen)
  PROVE  {pass.seen[i].seq : i \in UNION {p.first .. p.last : p \in
             {PlanParts(pass.seen)[n] : n \in 1 .. Len(PlanParts(pass.seen))}}} = SeenPieces
<1> DEFINE ps == PlanParts(pass.seen)
           heard == UNION {p.first .. p.last : p \in {ps[n] : n \in 1 .. Len(ps)}}
<1>1. Covers(ps, 1, Len(pass.seen))
  BY PlanHearsEveryPiece
<1>2. \A n \in 1 .. Len(ps) : ps[n].first .. ps[n].last \subseteq 1 .. Len(pass.seen)
  BY <1>1 DEF Covers
<1>3. \A x \in 1 .. Len(pass.seen) : \E n \in 1 .. Len(ps) : x \in ps[n].first .. ps[n].last
  BY <1>1 DEF Covers
<1>4. heard = 1 .. Len(pass.seen)
  <2> HIDE DEF ps
  <2> QED  BY <1>2, <1>3
<1> QED  BY <1>4 DEF SeenPieces

\* The transcript of all parts is saved: it has every piece the pass read
LEMMA APassSaves ==
  ASSUME RecInv, PassSaves
  PROVE  RecInv'
<1>1. UNCHANGED <<chunks, meet, job, dropping, abandoned>> /\ pass.at = "saving"
  BY DEF PassSaves
<1>2. CASE meet = "deleted"
  BY <1>1, <1>2, ItFails DEF PassSaves
<1>3. CASE meet # "deleted"
  <2> DEFINE written == {pass.seen[i].seq : i \in UNION {p.first .. p.last : p \in
                            {PlanParts(pass.seen)[n] : n \in 1 .. Len(PlanParts(pass.seen))}}}
  <2>1. text' = written /\ pass' = [pass EXCEPT !.at = "naming"] /\ sess' = Staged("naming") /\ UNCHANGED loop
    BY <1>3 DEF PassSaves
  <2>2. sess' \in SessionRow /\ sess'.st = sess.st /\ sess'.last = sess.last
    BY <2>1, StagesMove
  <2>3. LoopTyped
    BY <2>1, Alive DEF LoopTyped
  <2>4. ~Is("gone") /\ sess.st \in {"finalizing", "failed"}
    BY <1>1, <1>3, PassFacts DEF Is
  <2>5. pass'.at = "naming" /\ pass' = [at |-> pass'.at, seen |-> pass'.seen, part |-> pass'.part]
    BY <2>1, Alive
  <2>6. ~abandoned => written = 0 .. sess.last
    BY <1>1, <2>4, PassFacts, TextIsWhatWasSeen
  <2> HIDE DEF written
  <2> QED  BY <1>1, <2>1, <2>2, <2>3, <2>4, <2>5, <2>6, Alive, PassFacts, ThePassGoesOn DEF OpenStatuses
<1> QED  BY <1>2, <1>3

\* A pass that fails leaves the pieces for the next one
LEMMA APassEndsInFailure ==
  ASSUME RecInv, PassFailed \/ RecoverJob
  PROVE  RecInv'
<1>1. /\ UNCHANGED <<sess, chunks, meet, text, dropping, abandoned>> /\ job' = "none"
      /\ LoopTyped /\ loop'.do = "fail" /\ (pass.at # "none" \/ job # "none")
  BY DEF PassFailed, RecoverJob, LoopTyped
<1>2. CASE pass' = NoPass
  <2>1. pass'.at = "none" /\ pass' = [at |-> pass'.at, seen |-> pass'.seen, part |-> pass'.part]
    BY <1>2 DEF NoPass
  <2> QED  BY <1>1, <2>1, Alive, PassFacts, ThePassGoesOn
<1>3. CASE pass' = pass
  <2>1. SeenPieces' = SeenPieces
    BY <1>3 DEF SeenPieces
  <2> QED  BY <1>1, <1>3, <2>1, Alive, PassFacts, ThePassGoesOn
<1> QED  BY <1>2, <1>3 DEF PassFailed, RecoverJob

\* The pass is over: the transcript is the recording from now on
LEMMA APassIsNamed ==
  ASSUME RecInv, PassNamed
  PROVE  RecInv'
<1>1. UNCHANGED <<chunks, meet, text, dropping, abandoned>> /\ pass.at = "naming"
  BY DEF PassNamed
<1>2. CASE Is("gone")
  <2>1. job' = "none" /\ pass' = NoPass /\ UNCHANGED <<sess, loop>>
    BY <1>2 DEF PassNamed
  <2>2. pass'.at = "none" /\ pass' = [at |-> pass'.at, seen |-> pass'.seen, part |-> pass'.part]
    BY <2>1 DEF NoPass
  <2>3. LoopTyped
    BY <2>1, Alive DEF LoopTyped
  <2> QED  BY <1>1, <1>2, <2>1, <2>2, <2>3, Alive, PassFacts, ThePassGoesOn
<1>3. CASE ~Is("gone")
  <2>1. /\ sess' = [Touched(sess) EXCEPT !.st = "done", !.stage = "done"]
        /\ loop' = [do |-> "complete", at |-> 1] /\ UNCHANGED <<job, pass>>
    BY <1>3 DEF PassNamed
  <2>2. Moves("done")
    <3>1. "done" \in Statuses /\ "done" \in Stages
      BY DEF Statuses, Stages
    <3> QED  BY <2>1, <3>1, Alive, SessionMoves
  <2>3. sess' \in SessionRow /\ sess'.st = "done" /\ sess'.last = sess.last
    BY <2>2 DEF Moves
  <2>4. RecTypes'
    BY <1>1, <2>1, <2>3 DEF RecInv, RecTypes
  <2>5. LivesOnce'
    BY <1>1, <1>3, <2>1, <2>3, Alive DEF LivesOnce, Is
  <2>6. PassesAreAfter' /\ PassesSeeAll' /\ NothingLost'
    BY <1>1, <1>3, <2>1, <2>3, PassFacts DEF PassesAreAfter, PassesSeeAll, NothingLost, Is, OpenStatuses
  <2> QED  BY <2>4, <2>5, <2>6 DEF RecInv
<1> QED  BY <1>2, <1>3

\* Audio is deleted of a recording that is done
LEMMA AudioGoes ==
  ASSUME RecInv, sess.st = "done", chunks' = << >>, UNCHANGED <<sess, meet, text, abandoned>>,
         job' \in {"none", "queued", "running", "orphan"}, pass' \in {pass, NoPass}, loop' \in {loop, Free}
  PROVE  RecInv'
<1>1. << >> \in [DOMAIN << >> -> ChunkRow] /\ DOMAIN << >> = {}
  OBVIOUS
<1>2. RecTypes'
  BY <1>1 DEF RecInv, RecTypes, NoPass, Free
<1>3. LivesOnce' /\ PassesAreAfter'
  BY Alive DEF RecInv, LivesOnce, PassesAreAfter, NoPass, Free, Is
<1>4. PassesSeeAll'
  BY DEF RecInv, PassesSeeAll, SeenPieces, PassesAreAfter, NoPass, Is
<1>5. NothingLost'
  BY DEF RecInv, NothingLost, Is
<1> QED  BY <1>2, <1>3, <1>4, <1>5 DEF RecInv

\* The meeting is completed, and then the pieces are deleted
LEMMA APassCompletes ==
  ASSUME RecInv, PassCompletes
  PROVE  RecInv'
<1>1. UNCHANGED <<sess, text, dropping, abandoned>> /\ loop.do = "complete"
  BY DEF PassCompletes
<1>2. LoopTyped /\ loop'.do \in {"complete", "none"}
  BY <1>1, Alive DEF PassCompletes, Then, Done, Free, LoopTyped
<1>3. \/ SetMeeting("completed") /\ UNCHANGED <<chunks, job, pass>>
      \/ chunks' = << >> /\ job' = "none" /\ pass' = NoPass /\ loop' = Free /\ UNCHANGED meet
  BY DEF PassCompletes, Done
<1>4. CASE Is("gone")
  <2>1. meet = "deleted" /\ meet' = meet
    BY <1>1, <1>3, <1>4, Alive DEF Unborn, SetMeeting
  <2>2. << >> \in [DOMAIN << >> -> ChunkRow] /\ DOMAIN << >> = {}
    OBVIOUS
  <2>3. RecTypes'
    BY <1>1, <1>2, <1>3, <2>1, <2>2 DEF RecInv, RecTypes, LoopTyped, NoPass
  <2> QED  BY <1>1, <1>2, <2>1, <2>3, NothingIsLeft
<1>5. CASE ~Is("gone")
  <2>1. sess.st = "done"
    BY <1>1, <1>5, Alive
  <2>2. CASE SetMeeting("completed") /\ UNCHANGED <<chunks, job, pass>>
    <3>1. meet' \in {"active", "stopping", "completed", "failed"}
      BY <1>5, <2>2, Alive DEF SetMeeting
    <3> QED  BY <1>1, <1>2, <1>5, <2>1, <2>2, <3>1, Alive, ItGoesOn
  <2>3. CASE chunks' = << >> /\ job' = "none" /\ pass' = NoPass /\ loop' = Free /\ UNCHANGED meet
    BY <1>1, <2>1, <2>3, AudioGoes
  <2> QED  BY <1>3, <2>2, <2>3
<1> QED  BY <1>4, <1>5

\* A failed pass or recording leaves what it has
LEMMA TheLoopFails ==
  ASSUME RecInv, Fail
  PROVE  RecInv'
<1>1. UNCHANGED <<chunks, text, job, dropping, abandoned>> /\ loop.do = "fail"
  BY DEF Fail
<1>2. CASE /\ Is("finalizing") /\ Then(2)
           /\ sess' = [Touched(sess) EXCEPT !.st = "failed", !.stage = "failed"] /\ UNCHANGED <<meet, job, pass>>
  <2>1. "failed" \in Statuses /\ "failed" \in Stages
    BY DEF Statuses, Stages
  <2>2. Moves("failed")
    BY <1>2, <2>1, Alive, SessionMoves
  <2>3. LoopTyped /\ loop'.do = "fail"
    BY <1>1, <1>2, Alive DEF Then, LoopTyped
  <2> QED  BY <1>1, <1>2, <2>2, <2>3, Alive, ItGoesOn DEF Moves, Is, OpenStatuses
<1>3. CASE /\ meet' = meet \/ SetMeeting("failed")
           /\ Done /\ UNCHANGED sess
           /\ pass' = IF pass.at = "failing" THEN [pass EXCEPT !.at = "failed"] ELSE pass
  <2>1. loop' = Free
    BY <1>3 DEF Done
  <2>2. pass' = [at |-> pass'.at, seen |-> pass'.seen, part |-> pass'.part]
    BY <1>3, Alive
  <2>3. pass' = pass \/ (pass'.at = "failed" /\ pass.at = "failing")
    BY <1>3, Alive
  <2>4. meet = "deleted" => meet' = "deleted"
    BY <1>3 DEF SetMeeting
  <2>5. meet # "deleted" => meet' \in {"active", "stopping", "completed", "failed"} \/ meet' = meet
    BY <1>3 DEF SetMeeting
  <2>6. RecTypes'
    BY <1>1, <1>3, <2>1, <2>2, <2>4, <2>5 DEF RecInv, RecTypes, Free
  <2>7. CASE Is("gone")
    <3>1. meet = "deleted"
      BY <1>1, <2>7, Alive DEF Unborn
    <3> QED  BY <1>3, <2>1, <2>4, <2>6, <3>1, NothingIsLeft DEF Free
  <2>8. CASE ~Is("gone")
    <3>1. meet' \notin {"none", "deleted"}
      BY <2>5, <2>8, Alive
    <3>2. LivesOnce'
      BY <1>3, <2>1, <2>8, <3>1 DEF LivesOnce, Free, Is
    <3>3. PassesAreAfter'
      BY <1>1, <1>3, <2>1, <2>3 DEF RecInv, PassesAreAfter, Free
    <3>4. PassesSeeAll'
      BY <1>1, <1>3, <2>3 DEF RecInv, PassesSeeAll, SeenPieces, Is
    <3>5. NothingLost'
      BY <1>1, <1>3 DEF RecInv, NothingLost, Is
    <3> QED  BY <2>6, <3>2, <3>3, <3>4, <3>5 DEF RecInv
  <2> QED  BY <2>7, <2>8
<1> QED  BY <1>2, <1>3 DEF Fail

\* Somebody discards the recording
LEMMA ItIsDiscarded ==
  ASSUME RecInv, Discard
  PROVE  RecInv'
<1>1. /\ sess' = NoSession /\ chunks' = << >> /\ meet' = "deleted" /\ dropping
      /\ UNCHANGED <<job, pass, loop, abandoned>>
  BY DEF Discard
<1>2. << >> \in [DOMAIN << >> -> ChunkRow] /\ DOMAIN << >> = {}
  OBVIOUS
<1>3. sess' \in SessionRow /\ sess'.st = "gone"
  BY <1>1, RecAssumption DEF NoSession, SessionRow
<1>4. RecTypes'
  BY <1>1, <1>2, <1>3 DEF RecInv, RecTypes
<1>5. loop.do # "create"
  BY <1>1 DEF RecInv, LivesOnce, Unborn
<1> QED  BY <1>1, <1>3, <1>4, <1>5 DEF RecInv, LivesOnce, PassesAreAfter, PassesSeeAll, NothingLost, Is, OpenStatuses

\* The cleanup gives up a recording nobody touched for a day
LEMMA ItIsAbandoned ==
  ASSUME RecInv, Abandon
  PROVE  RecInv'
<1>1. UNCHANGED <<text, job, pass, dropping>> /\ loop.do \in {"abandon", "purge"}
  BY DEF Abandon
<1>2. LoopTyped /\ loop'.do \in {loop.do, "none"}
  BY <1>1, Alive DEF Abandon, Then, Done, Free, LoopTyped
<1>3. << >> \in [DOMAIN << >> -> ChunkRow] /\ DOMAIN << >> = {}
  OBVIOUS
<1>4. CASE Is("gone")
  <2>1. meet = "deleted"
    BY <1>1, <1>4, Alive DEF Unborn
  <2>2. sess' = sess /\ meet' = meet /\ chunks' \in {chunks, << >>}
    BY <1>4, <2>1 DEF Abandon, SetMeeting
  <2>3. abandoned' \/ (loop' = Free)
    BY <1>4, Alive DEF Abandon, Done
  <2>4. RecTypes'
    BY <1>1, <1>2, <1>3, <2>2 DEF RecInv, RecTypes, LoopTyped
  <2> QED  BY <1>1, <1>2, <2>1, <2>2, <2>3, <2>4, NothingIsLeft DEF Free
<1>5. CASE ~Is("gone") /\ loop.at = 1
  <2>1. chunks' = << >> /\ abandoned' = TRUE /\ UNCHANGED <<sess, meet>>
    BY <1>5 DEF Abandon
  <2>2. RecTypes'
    BY <1>1, <1>2, <1>3, <2>1 DEF RecInv, RecTypes, LoopTyped
  <2>3. LivesOnce' /\ PassesAreAfter' /\ PassesSeeAll' /\ NothingLost'
    BY <1>1, <1>2, <1>5, <2>1, Alive DEF RecInv, LivesOnce, PassesAreAfter, PassesSeeAll, NothingLost, Is
  <2> QED  BY <2>2, <2>3 DEF RecInv
<1>6. CASE ~Is("gone") /\ loop.at = 2
  <2>1. sess' = [sess EXCEPT !.st = "failed"] /\ UNCHANGED <<chunks, abandoned, meet>> /\ abandoned
    BY <1>1, <1>6, Alive DEF Abandon
  <2>2. Moves("failed")
    BY <2>1, Alive, SessionMoves DEF Statuses
  <2>3. sess' \in SessionRow /\ sess'.st = "failed" /\ sess'.last = sess.last
    BY <2>2 DEF Moves
  <2>4. RecTypes'
    BY <1>1, <1>2, <2>1, <2>3 DEF RecInv, RecTypes, LoopTyped
  <2>5. LivesOnce' /\ PassesAreAfter' /\ PassesSeeAll' /\ NothingLost'
    BY <1>1, <1>2, <1>6, <2>1, <2>3, Alive DEF LivesOnce, PassesAreAfter, PassesSeeAll, NothingLost, Is, OpenStatuses
  <2> QED  BY <2>4, <2>5 DEF RecInv
<1>7. CASE ~Is("gone") /\ loop.at \notin {1, 2}
  <2>1. SetMeeting("failed") /\ loop' = Free /\ UNCHANGED <<sess, chunks, abandoned>>
    BY <1>7 DEF Abandon, Done
  <2>2. meet' \in {"active", "stopping", "completed", "failed"}
    BY <1>7, <2>1, Alive DEF SetMeeting
  <2> QED  BY <1>1, <1>2, <1>7, <2>1, <2>2, Alive, ItGoesOn DEF Free, Is
<1> QED  BY <1>4, <1>5, <1>6, <1>7

\* What the cleanup begins, and time
LEMMA TimePasses ==
  ASSUME RecInv, AbandonAsk \/ Unstick \/ DropOrphans \/ FinishMeeting \/ Quiet
  PROVE  RecInv'
<1>1. CASE AbandonAsk \/ Unstick
  <2>1. /\ sess.st # "gone" /\ UNCHANGED <<sess, chunks, meet, text, job, pass, abandoned>>
        /\ LoopTyped /\ loop'.do \in {"abandon", "purge", "fail"} /\ loop'.at = 1
    BY <1>1 DEF AbandonAsk, Unstick, LoopTyped, OpenStatuses, Is
  <2> QED  BY <2>1, Alive, ItGoesOn DEF Is
<1>2. CASE DropOrphans
  BY <1>2, Alive, AudioGoes DEF DropOrphans, Is
<1>3. CASE FinishMeeting
  <2>1. LoopTyped
    BY <1>3, Alive DEF FinishMeeting, LoopTyped
  <2> QED  BY <1>3, <2>1, Alive, ItGoesOn DEF FinishMeeting, Is
<1>4. CASE Quiet
  <2>1. /\ sess.st # "gone" /\ sess.idle < 2 /\ sess' = [sess EXCEPT !.idle = sess.idle + 1]
        /\ UNCHANGED <<chunks, meet, text, job, pass, loop, abandoned>>
    BY <1>4 DEF Quiet
  <2>2. sess.idle + 1 \in 0 .. 2
    <3>1. sess.idle \in 0 .. 2
      BY Alive, SessionChanges
    <3> QED  BY <2>1, <3>1
  <2>3. Moves(sess.st)
    BY <2>1, <2>2, Alive, SessionMoves
  <2>4. LoopTyped
    BY <2>1, Alive DEF LoopTyped
  <2> QED  BY <2>1, <2>3, <2>4, Alive, ItGoesOn DEF Moves, Is
<1> QED  BY <1>1, <1>2, <1>3, <1>4

\* A process that ends leaves what is stored
LEMMA TheProcessEnds ==
  ASSUME RecInv, EndOfProcess
  PROVE  RecInv'
<1>1. /\ loop' = Free /\ pass' = NoPass /\ dropping' = FALSE /\ job' = IF job = "none" THEN "none" ELSE "orphan"
      /\ UNCHANGED <<sess, chunks, meet, text, abandoned>>
  BY DEF EndOfProcess
<1>2. RecTypes'
  BY <1>1 DEF RecInv, RecTypes, Free, NoPass
<1>3. LivesOnce'
  BY <1>1 DEF RecInv, LivesOnce, Unborn, Free, Is
<1>4. PassesAreAfter' /\ PassesSeeAll' /\ NothingLost'
  BY <1>1 DEF RecInv, PassesAreAfter, PassesSeeAll, NothingLost, Free, NoPass, Is
<1> QED  BY <1>2, <1>3, <1>4 DEF RecInv

\* Every step of a recording keeps its invariant
LEMMA RecSteps ==
  ASSUME RecInv, [RecNext]_recVars
  PROVE  RecInv'
<1>1. CASE UNCHANGED recVars
  BY <1>1 DEF recVars, RecInv, RecTypes, LivesOnce, Unborn, PassesAreAfter, PassesSeeAll, SeenPieces, NothingLost, Is
<1>2. CASE Browser
  BY <1>2, ARecordingIsMade, APieceArrives, TheBrowserAsks DEF Browser
<1>3. CASE LoopGoesOn
  BY <1>3, ARecordingIsMade, StoppingGoesOn, APassCompletes, TheLoopFails, ItIsAbandoned DEF LoopGoesOn
<1>4. CASE PassGoesOn
  BY <1>4, APassBegins, APassPlans, APassHears, APassSaves, APassIsNamed, APassEndsInFailure DEF PassGoesOn
<1>5. CASE CleansUp \/ Quiet
  BY <1>5, TimePasses DEF CleansUp
<1> QED  BY <1>1, <1>2, <1>3, <1>4, <1>5, APassEndsInFailure, ItIsDiscarded, TheProcessEnds DEF RecNext

\* The invariant says what the run checks
LEMMA RecInvSuffices ==
  RecInv => RecTypeOK /\ NothingLost
  BY DEF RecInv, RecTypes, RecTypeOK

-----------------------------------------------------------------------------
(***************************************************************************)
(* The matchings of in_person_reconcile.py                                 *)
(***************************************************************************)
\* A partial function from A to B that takes no value twice
Apart(f, A, B) == /\ f \in [DOMAIN f -> B] /\ DOMAIN f \subseteq A
                  /\ \A x, y \in DOMAIN f : f[x] = f[y] => x = y

\* One pair, and the pairs of a list up to the n-th
Tried(mapping, pair) == IF MayPair(mapping, pair) THEN Pair(mapping, pair) ELSE mapping
Trying(u, n, mapping, pairs) == u = [i \in 0 .. n |-> IF i = 0 THEN mapping ELSE Tried(u[i - 1], pairs[i])]

\* The pairs up to one can be tried up to the next
LEMMA OnePairMore ==
  ASSUME NEW mapping, NEW pairs, NEW n \in Nat, NEW u, Trying(u, n, mapping, pairs)
  PROVE  \E v : Trying(v, n + 1, mapping, pairs)
<1> DEFINE v == [i \in 0 .. (n + 1) |-> IF i = 0 THEN mapping ELSE Tried(u[i - 1], pairs[i])]
<1>1. \A i \in 0 .. n : u[i] = IF i = 0 THEN mapping ELSE Tried(u[i - 1], pairs[i])
  BY DEF Trying
<1>2. \A i \in 0 .. n : v[i] = u[i]
  BY <1>1
<1>3. \A i \in 0 .. (n + 1) : i # 0 => i - 1 \in 0 .. n
  OBVIOUS
<1>4. v = [i \in 0 .. (n + 1) |-> IF i = 0 THEN mapping ELSE Tried(v[i - 1], pairs[i])]
  <2>1. \A i \in 0 .. (n + 1) : (IF i = 0 THEN mapping ELSE Tried(u[i - 1], pairs[i]))
                              = (IF i = 0 THEN mapping ELSE Tried(v[i - 1], pairs[i]))
    BY <1>2, <1>3
  <2> QED  BY <2>1
<1> QED  BY <1>4 DEF Trying

\* A matching is what trying its pairs one by one leads to
LEMMA MatchGoesPairByPair ==
  ASSUME NEW mapping, NEW pairs, Len(pairs) \in Nat
  PROVE  \E u : Trying(u, Len(pairs), mapping, pairs) /\ Match(mapping, pairs) = u[Len(pairs)]
<1> DEFINE P == {n \in Nat : \E u : Trying(u, n, mapping, pairs)}
<1>1. 0 \in P
  <2> DEFINE u == [i \in 0 .. 0 |-> mapping]
  <2>1. u = [i \in 0 .. 0 |-> IF i = 0 THEN mapping ELSE Tried(u[i - 1], pairs[i])]
    OBVIOUS
  <2> QED  BY <2>1 DEF Trying
<1>2. \A n \in Nat : n \in P => n + 1 \in P
  BY OnePairMore
<1>3. Nat \subseteq P
  <2> HIDE DEF P
  <2> QED  BY <1>1, <1>2, NumbersOneByOne
<1> DEFINE w == CHOOSE u : Trying(u, Len(pairs), mapping, pairs)
<1>4. Trying(w, Len(pairs), mapping, pairs)
  BY <1>3
<1>5. Match(mapping, pairs) = w[Len(pairs)]
  BY DEF Match, Trying, Tried
<1> QED  BY <1>4, <1>5

\* A pair is taken only where it keeps the speakers apart
LEMMA TriedStaysApart ==
  ASSUME NEW A, NEW B, NEW mapping, Apart(mapping, A, B), NEW pair, pair[1] \in A, pair[2] \in B
  PROVE  Apart(Tried(mapping, pair), A, B)
<1>1. CASE ~MayPair(mapping, pair)
  BY <1>1 DEF Tried
<1>2. CASE MayPair(mapping, pair)
  <2>1. Tried(mapping, pair) = Pair(mapping, pair)
    BY <1>2 DEF Tried
  <2>2. pair[1] \notin DOMAIN mapping /\ \A x \in DOMAIN mapping : mapping[x] # pair[2]
    BY <1>2 DEF MayPair, Range
  <2> QED  BY <2>1, <2>2 DEF Pair, Apart
<1> QED  BY <1>1, <1>2

\* So does a matching
LEMMA MatchStaysApart ==
  ASSUME NEW A, NEW B, NEW mapping, Apart(mapping, A, B), NEW pairs, Len(pairs) \in Nat,
         \A i \in 1 .. Len(pairs) : pairs[i][1] \in A /\ pairs[i][2] \in B
  PROVE  Apart(Match(mapping, pairs), A, B)
<1>1. PICK u : Trying(u, Len(pairs), mapping, pairs) /\ Match(mapping, pairs) = u[Len(pairs)]
  BY MatchGoesPairByPair
<1>2. \A i \in 0 .. Len(pairs) : u[i] = IF i = 0 THEN mapping ELSE Tried(u[i - 1], pairs[i])
  BY <1>1 DEF Trying
<1> DEFINE P == {n \in Nat : n <= Len(pairs) => Apart(u[n], A, B)}
<1>3. 0 \in P
  BY <1>2
<1>4. \A n \in Nat : n \in P => n + 1 \in P
  <2> SUFFICES ASSUME NEW n \in P, n + 1 <= Len(pairs) PROVE Apart(u[n + 1], A, B)
    OBVIOUS
  <2>1. Apart(u[n], A, B)
    OBVIOUS
  <2>2. n + 1 \in 0 .. Len(pairs) /\ n + 1 \in 1 .. Len(pairs) /\ n + 1 # 0 /\ (n + 1) - 1 = n
    OBVIOUS
  <2>3. u[n + 1] = Tried(u[n], pairs[n + 1])
    BY <1>2, <2>2
  <2> QED  BY <2>1, <2>2, <2>3, TriedStaysApart
<1>5. Nat \subseteq P
  <2> HIDE DEF P
  <2> QED  BY <1>3, <1>4, NumbersOneByOne
<1>6. Len(pairs) \in P
  BY <1>5
<1> QED  BY <1>1, <1>6

\* The list of a partial function on numbers holds its pairs
LEMMA ListedInOrder ==
  ASSUME NEW f, DOMAIN f \subseteq Int, IsFiniteSet(DOMAIN f)
  PROVE  /\ Len(InOrder(f)) \in Nat
         /\ \A i \in 1 .. Len(InOrder(f)) : InOrder(f)[i][1] \in DOMAIN f /\ InOrder(f)[i][2] = f[InOrder(f)[i][1]]
<1> DEFINE D == DOMAIN f
           nth == [i \in 1 .. Cardinality(D) |-> CHOOSE x \in D : Cardinality({y \in D : y < x}) = i - 1]
           list == [i \in 1 .. Cardinality(D) |-> <<nth[i], f[nth[i]]>>]
<1>1. InOrder(f) = list
  BY DEF InOrder
<1>2. Cardinality(D) \in Nat
  BY FS_CardinalityType
<1>3. \A i \in 1 .. Cardinality(D) : nth[i] \in D
  BY NumberedInOrder
<1>4. Len(list) = Cardinality(D)
  <2> HIDE DEF nth, D
  <2> QED  BY <1>2
<1>5. \A i \in 1 .. Cardinality(D) : list[i] = <<nth[i], f[nth[i]]>>
  OBVIOUS
<1> HIDE DEF nth, list
<1>6. \A i \in 1 .. Cardinality(D) : list[i][1] = nth[i] /\ list[i][2] = f[nth[i]]
  BY <1>5
<1> QED  BY <1>1, <1>2, <1>3, <1>4, <1>6

\* Who is numbered after another gets a higher number
LEMMA NewNumbersDiffer ==
  ASSUME NEW D, D \subseteq Int, IsFiniteSet(D)
  PROVE  /\ Cardinality(D) \in Nat
         /\ \A x \in D : Cardinality({y \in D : y <= x}) \in 1 .. Cardinality(D)
         /\ \A x, z \in D : Cardinality({y \in D : y <= x}) = Cardinality({y \in D : y <= z}) => x = z
<1> DEFINE upTo(x) == {y \in D : y <= x}
           n == Cardinality(D)
<1>1. n \in Nat
  BY FS_CardinalityType
<1>2. \A x \in D : IsFiniteSet(upTo(x)) /\ Cardinality(upTo(x)) \in Nat
  BY FS_Subset, FS_CardinalityType
<1>3. \A x \in D : Cardinality(upTo(x)) \in 1 .. n
  <2> SUFFICES ASSUME NEW x \in D PROVE Cardinality(upTo(x)) \in 1 .. n
    OBVIOUS
  <2>1. upTo(x) \in SUBSET D /\ upTo(x) # {}
    OBVIOUS
  <2> HIDE DEF upTo
  <2>2. Cardinality(upTo(x)) <= n /\ Cardinality(upTo(x)) # 0
    BY <1>2, <2>1, FS_Subset, FS_EmptySet
  <2> QED  BY <1>1, <1>2, <2>2
<1>4. \A x, z \in D : x < z => Cardinality(upTo(x)) < Cardinality(upTo(z))
  <2> SUFFICES ASSUME NEW x \in D, NEW z \in D, x < z PROVE Cardinality(upTo(x)) < Cardinality(upTo(z))
    OBVIOUS
  <2>1. upTo(x) \in SUBSET upTo(z) /\ z \in upTo(z) /\ z \notin upTo(x)
    <3>1. x \in Int /\ z \in Int /\ \A y \in D : y \in Int
      OBVIOUS
    <3>2. ~(z <= x) /\ z <= z /\ \A y \in D : y <= x => y <= z
      BY <3>1
    <3> QED  BY <3>2
  <2>2. upTo(x) # upTo(z)
    BY <2>1
  <2> HIDE DEF upTo
  <2>3. Cardinality(upTo(x)) <= Cardinality(upTo(z)) /\ (Cardinality(upTo(z)) = Cardinality(upTo(x)) => upTo(z) = upTo(x))
    BY <1>2, <2>1, FS_Subset
  <2> QED  BY <1>2, <2>2, <2>3
<1>5. \A x, z \in D : Cardinality(upTo(x)) = Cardinality(upTo(z)) => x = z
  <2> HIDE DEF upTo
  <2>1. \A x, z \in D : x \in Int /\ z \in Int
    OBVIOUS
  <2> QED  BY <1>2, <1>4, <2>1
<1> QED  BY <1>1, <1>3, <1>5

\* Letters for who is new: none is taken already, none twice
LEMMA NewLettersStayApart ==
  ASSUME NEW n \in Nat, NEW mapping, Apart(mapping, Local, 1 .. n)
  PROVE  LET new == {l \in Local : l \notin DOMAIN mapping}
         IN  Cardinality(new) \in Nat /\ Apart(WithNew(mapping, Local, n), Local, 1 .. (n + Cardinality(new)))
<1> DEFINE new == {l \in Local : l \notin DOMAIN mapping}
           number(l) == Cardinality({k \in new : k <= l})
           all == [l \in Local |-> IF l \in new THEN n + number(l) ELSE mapping[l]]
<1>1. WithNew(mapping, Local, n) = all
  BY DEF WithNew
<1>2. new \subseteq Int /\ IsFiniteSet(new)
  BY SpeakerAssumption, FS_Subset
<1>3. /\ Cardinality(new) \in Nat
      /\ \A l \in new : number(l) \in 1 .. Cardinality(new)
      /\ \A l, k \in new : number(l) = number(k) => l = k
  <2> HIDE DEF new
  <2> QED  BY <1>2, NewNumbersDiffer
<1>4. \A l \in Local \ new : mapping[l] \in 1 .. n
  BY DEF Apart
<1>5. \A l, k \in Local \ new : mapping[l] = mapping[k] => l = k
  BY DEF Apart
<1> HIDE DEF number
<1>6. \A l \in Local : all[l] \in 1 .. (n + Cardinality(new))
  <2> HIDE DEF new
  <2> QED  BY <1>3, <1>4
<1>7. \A l, k \in Local : all[l] = all[k] => l = k
  <2> HIDE DEF new
  <2> QED  BY <1>3, <1>4, <1>5
<1>8. DOMAIN all = Local /\ all \in [Local -> 1 .. (n + Cardinality(new))]
  <2> HIDE DEF new
  <2>1. all = [l \in Local |-> all[l]]
    OBVIOUS
  <2> HIDE DEF all
  <2> QED  BY <1>6, <2>1
<1> HIDE DEF all
<1> QED  BY <1>1, <1>3, <1>7, <1>8 DEF Apart

-----------------------------------------------------------------------------
(***************************************************************************)
(* Speakers and the names proposed for them                                *)
(***************************************************************************)
Suggestion == [name : Name, conf : Nat, state : {"suggested", "approved", "dismissed"}, voice : BOOLEAN]

\* Proposals for letters there are, no name for two
Proposals(f, n) == f \in [DOMAIN f -> Suggestion] /\ DOMAIN f \subseteq 1 .. n /\ OneNameEach(f)

SpeakerInv ==
    /\ count \in Nat /\ Apart(labels, Local, 1 .. count) /\ placed \in [DOMAIN placed -> 1 .. count]
    /\ Proposals(suggested, count) /\ Proposals(refreshing.suggested, count)
    /\ reviewed \subseteq 1 .. count

\* No two letters meet where none is given
LEMMA NothingMapped ==
  ASSUME NEW A, NEW B
  PROVE  Apart(<< >>, A, B)
  BY DEF Apart

\* Nothing is proposed twice where nothing is proposed
LEMMA NothingProposed ==
  ASSUME NEW n
  PROVE  Proposals(<< >>, n)
  BY DEF Proposals, OneNameEach

\* The invariant of the speakers holds before the first part
LEMMA SpeakersBegin == SpeakerInit => SpeakerInv
<1> SUFFICES ASSUME SpeakerInit PROVE SpeakerInv
  OBVIOUS
<1>1. count = 0 /\ labels = << >> /\ placed = << >> /\ suggested = << >> /\ refreshing.suggested = << >> /\ reviewed = {}
  BY DEF SpeakerInit, NotRefreshing
<1>2. << >> \in [DOMAIN << >> -> 1 .. 0]
  OBVIOUS
<1> QED  BY <1>1, <1>2, NothingMapped, NothingProposed DEF SpeakerInv

\* A part: its voices get letters of their own
LEMMA APartIsReconciled ==
  ASSUME SpeakerInv, NEW known \in Known_, NEW overlap \in Pairs(2), NEW continuity \in Pairs(1),
         ReconcilePart(Local, known, overlap, continuity)
  PROVE  SpeakerInv'
<1> DEFINE there == {l \in DOMAIN known : known[l] \in DOMAIN placed}
           kept == [l \in there |-> placed[known[l]]]
           byKey == KnownMapping(known)
           shared == OverlapMapping(overlap)
           byOverlap == Match(byKey, InOrder(shared))
           byText == Continued(byOverlap, continuity)
           all == WithNew(byText, Local, count)
           new == {l \in Local : l \notin DOMAIN byText}
           Letters == 1 .. count
<1>1. count \in Nat /\ placed \in [DOMAIN placed -> Letters]
  BY DEF SpeakerInv
<1>2. DOMAIN known \subseteq Local /\ known \in [DOMAIN known -> VoiceKey]
  BY DEF Known_, Partial
<1>3. /\ Len(overlap) \in Nat /\ \A i \in 1 .. Len(overlap) : overlap[i][1] \in Local /\ overlap[i][2] \in Letters
      /\ Len(continuity) \in Nat /\ \A i \in 1 .. Len(continuity) : continuity[i][1] \in Local /\ continuity[i][2] \in Letters
  BY <1>1 DEF Pairs
<1>4. Apart(byKey, Local, Letters)
  <2>1. DOMAIN kept \subseteq Int /\ IsFiniteSet(DOMAIN kept) /\ DOMAIN kept \subseteq Local
    BY <1>2, SpeakerAssumption, FS_Subset
  <2>2. \A l \in DOMAIN kept : kept[l] \in Letters
    BY <1>1
  <2>3. byKey = Match(<< >>, InOrder(kept))
    BY DEF KnownMapping
  <2> HIDE DEF kept, byKey, Letters
  <2>4. /\ Len(InOrder(kept)) \in Nat
        /\ \A i \in 1 .. Len(InOrder(kept)) : InOrder(kept)[i][1] \in Local /\ InOrder(kept)[i][2] \in Letters
    BY <2>1, <2>2, ListedInOrder
  <2> QED  BY <2>3, <2>4, NothingMapped, MatchStaysApart
<1>5. Apart(shared, Local, Letters)
  <2> HIDE DEF Letters
  <2> QED  BY <1>3, NothingMapped, MatchStaysApart DEF OverlapMapping
<1>6. Apart(byOverlap, Local, Letters)
  <2>1. DOMAIN shared \subseteq Int /\ IsFiniteSet(DOMAIN shared) /\ DOMAIN shared \subseteq Local
    BY <1>5, SpeakerAssumption, FS_Subset DEF Apart
  <2>2. \A l \in DOMAIN shared : shared[l] \in Letters
    BY <1>5 DEF Apart
  <2> HIDE DEF shared, byKey, Letters
  <2>3. /\ Len(InOrder(shared)) \in Nat
        /\ \A i \in 1 .. Len(InOrder(shared)) : InOrder(shared)[i][1] \in Local /\ InOrder(shared)[i][2] \in Letters
    BY <2>1, <2>2, ListedInOrder
  <2> QED  BY <1>4, <2>3, MatchStaysApart
<1>7. Apart(byText, Local, Letters)
  <2> HIDE DEF byOverlap, Letters
  <2> QED  BY <1>3, <1>6, MatchStaysApart DEF Continued
<1> HIDE DEF byText
<1>8. Cardinality(new) \in Nat /\ Apart(all, Local, 1 .. (count + Cardinality(new)))
  BY <1>1, <1>7, NewLettersStayApart
<1>9. labels' = all /\ placed' = Placed(known, all) /\ count' = IF all = << >> THEN count ELSE count + Cardinality(new)
  BY DEF ReconcilePart, byText
<1>10. count' = count + Cardinality(new)
  <2>1. CASE all = << >>
    <3>1. DOMAIN all = Local
      BY DEF WithNew
    <3>2. Local = {}
      BY <2>1, <3>1
    <3>3. new = {}
      BY <3>2
    <3>4. Cardinality(new) = 0
      BY <3>3, FS_EmptySet
    <3> QED  BY <1>1, <1>9, <2>1, <3>4
  <2> QED  BY <1>9, <2>1
<1>11. count' \in Nat /\ count <= count' /\ Apart(labels', Local, 1 .. count')
  BY <1>1, <1>8, <1>9, <1>10
<1>12. placed' \in [DOMAIN placed' -> 1 .. count']
  <2>1. DOMAIN all = Local /\ \A l \in Local : all[l] \in 1 .. count'
    BY <1>9, <1>11 DEF Apart, WithNew
  <2>2. \A k \in Range(known) : (CHOOSE l \in DOMAIN known : known[l] = k) \in Local
    BY <1>2 DEF Range
  <2>3. \A k \in DOMAIN placed : placed[k] \in 1 .. count'
    BY <1>1, <1>11
  <2> HIDE DEF all
  <2> QED  BY <1>9, <2>1, <2>2, <2>3 DEF Placed
<1>13. UNCHANGED <<suggested, reviewed, refreshing>>
  BY DEF ReconcilePart
<1>14. 1 .. count \subseteq 1 .. count'
  BY <1>1, <1>11
<1>15. Proposals(suggested', count') /\ Proposals(refreshing'.suggested, count') /\ reviewed' \subseteq 1 .. count'
  BY <1>13, <1>14 DEF SpeakerInv, Proposals
<1> QED  BY <1>11, <1>12, <1>15 DEF SpeakerInv

\* What a voice or a text claims is a suggestion
LEMMA ClaimsAreSuggestions ==
  ASSUME NEW c \in Claims
  PROVE  c \in Suggestion /\ c.conf \in Int
<1>1. c = [name |-> c.name, conf |-> c.conf, state |-> c.state, voice |-> c.voice]
  BY DEF Claims
<1>2. c.name \in Name /\ c.conf \in 1 .. 2 /\ c.state \in {"suggested"}
  BY DEF Claims
<1>3. c.voice \in BOOLEAN
  <2>1. c.voice \in {FALSE}
    BY Zenon DEF Claims
  <2>2. {FALSE} \subseteq BOOLEAN
    OBVIOUS
  <2> QED  BY <2>1, <2>2, Zenon
<1>4. c.conf \in Nat /\ c.state \in {"suggested", "approved", "dismissed"}
  BY <1>2
<1>5. c \in Suggestion
  BY <1>1, <1>2, <1>3, <1>4, Zenon DEF Suggestion
<1> QED  BY <1>2, <1>5

\* Claims of which no two go with one name
LEMMA NamesAreUnique ==
  ASSUME NEW found \in Partial(Lettered, Claims), count \in Nat
  PROVE  /\ Proposals(UniqueNames(found), count)
         /\ \A s, t \in DOMAIN UniqueNames(found) : s # t => UniqueNames(found)[s].name # UniqueNames(found)[t].name
<1> DEFINE wins(s) == \A t \in DOMAIN found \ {s} : found[t].name = found[s].name => found[s].conf < found[t].conf
           U == UniqueNames(found)
<1>1. found \in [DOMAIN found -> Claims] /\ DOMAIN found \subseteq 1 .. count
  BY DEF Partial, Lettered
<1>2. /\ DOMAIN U \subseteq DOMAIN found /\ \A s \in DOMAIN U : U[s] = found[s] /\ wins(s)
      /\ U = [s \in DOMAIN U |-> U[s]]
  BY DEF UniqueNames
<1>3. \A s \in DOMAIN found : found[s] \in Suggestion /\ found[s].conf \in Int
  <2>3. \A c \in Claims : c \in Suggestion /\ c.conf \in Int
    BY ClaimsAreSuggestions
  <2> QED  BY <1>1, <2>3
<1>4. \A s, t \in DOMAIN U : s # t => U[s].name # U[t].name
  <2> SUFFICES ASSUME NEW s \in DOMAIN U, NEW t \in DOMAIN U, s # t, U[s].name = U[t].name PROVE FALSE
    OBVIOUS
  <2>1. found[s].conf < found[t].conf /\ found[t].conf < found[s].conf
    BY <1>2
  <2> QED  BY <1>2, <1>3, <2>1
<1>5. U \in [DOMAIN U -> Suggestion] /\ DOMAIN U \subseteq 1 .. count
  <2> HIDE DEF U, wins
  <2> QED  BY <1>1, <1>2, <1>3
<1>6. OneNameEach(U)
  <2> HIDE DEF U
  <2> QED  BY <1>4 DEF OneNameEach
<1> QED  BY <1>4, <1>5, <1>6 DEF Proposals

\* What a voice was recognised for goes before what was said: a name for two
\* only if two voices had it
LEMMA MergedNamesAreUnique ==
  ASSUME NEW spoken, NEW voice, NEW n, Proposals(spoken, n), Proposals(voice, n),
         \A s, t \in DOMAIN spoken : s # t => spoken[s].name # spoken[t].name,
         \A s \in DOMAIN voice : voice[s].voice /\ voice[s].state = "suggested"
  PROVE  Proposals(Merge(spoken, voice), n)
<1> DEFINE names == {voice[s].name : s \in DOMAIN voice}
           kept == {s \in DOMAIN spoken \ DOMAIN voice : spoken[s].name \notin names}
           M == Merge(spoken, voice)
<1>1. /\ DOMAIN M = kept \cup DOMAIN voice /\ M = [s \in DOMAIN M |-> M[s]]
      /\ \A s \in DOMAIN voice : \/ M[s] = voice[s] \/ M[s] = [voice[s] EXCEPT !.conf = 1]
      /\ \A s \in kept : M[s] = spoken[s]
  BY DEF Merge
<1>2. \A s \in DOMAIN voice : voice[s] \in Suggestion
  BY DEF Proposals
<1>3. \A s \in DOMAIN voice : /\ M[s] \in Suggestion /\ M[s].name = voice[s].name
                              /\ M[s].voice = voice[s].voice /\ M[s].state = voice[s].state
  <2> SUFFICES ASSUME NEW s \in DOMAIN voice
               PROVE  /\ M[s] \in Suggestion /\ M[s].name = voice[s].name
                      /\ M[s].voice = voice[s].voice /\ M[s].state = voice[s].state
    OBVIOUS
  <2> HIDE DEF M
  <2>1. CASE M[s] = voice[s]
    BY <1>2, <2>1
  <2>2. CASE M[s] = [voice[s] EXCEPT !.conf = 1]
    BY <1>2, <2>2 DEF Suggestion
  <2> QED  BY <1>1, <2>1, <2>2
<1>4. \A s \in kept : M[s] \in Suggestion /\ M[s] = spoken[s]
  BY <1>1 DEF Proposals
<1>5. M \in [DOMAIN M -> Suggestion] /\ DOMAIN M \subseteq 1 .. n
  <2>1. DOMAIN M \subseteq 1 .. n
    BY <1>1 DEF Proposals
  <2> HIDE DEF M, kept
  <2> QED  BY <1>1, <1>3, <1>4, <2>1
<1>6. OneNameEach(M)
  <2> SUFFICES ASSUME NEW s \in DOMAIN M, NEW t \in DOMAIN M, s # t, M[s].name = M[t].name
               PROVE  M[s].voice /\ M[t].voice /\ Namesakes(M[s].name)
    BY DEF OneNameEach
  <2>1. \A x \in kept, y \in DOMAIN voice : spoken[x].name # voice[y].name
    OBVIOUS
  <2> HIDE DEF M
  <2>2. CASE s \in kept /\ t \in kept
    BY <1>4, <2>2
  <2>3. CASE s \in DOMAIN voice /\ t \in DOMAIN voice
    <3>1. {voice[s].state, voice[t].state} = {"suggested"} /\ voice[s].name = voice[t].name
      BY <1>3, <2>3
    <3>2. voice[s].voice /\ voice[t].voice /\ Namesakes(voice[s].name)
      BY <2>3, <3>1 DEF Proposals, OneNameEach
    <3> QED  BY <1>3, <2>3, <3>2
  <2>4. CASE (s \in kept /\ t \in DOMAIN voice) \/ (t \in kept /\ s \in DOMAIN voice)
    BY <1>3, <1>4, <2>1, <2>4
  <2> QED  BY <1>1, <2>2, <2>3, <2>4
<1> QED  BY <1>5, <1>6 DEF Proposals

\* A sample is matched to one letter: two with one name are of namesakes
LEMMA VoicesAreUnique ==
  ASSUME count \in Nat, NEW matches \in Partial(Lettered, VoiceKey),
         \A s, t \in DOMAIN matches : matches[s] = matches[t] => s = t
  PROVE  /\ Proposals(VoiceSuggestions(matches), count)
         /\ \A s \in DOMAIN VoiceSuggestions(matches) :
                VoiceSuggestions(matches)[s].voice /\ VoiceSuggestions(matches)[s].state = "suggested"
<1> DEFINE V == VoiceSuggestions(matches)
           told(s) == [name |-> PersonOf[matches[s]], conf |-> 2, state |-> "suggested", voice |-> TRUE]
<1>1. matches \in [DOMAIN matches -> VoiceKey] /\ DOMAIN matches \subseteq 1 .. count
  BY DEF Partial, Lettered
<1>2. V = [s \in DOMAIN matches |-> told(s)]
  BY DEF VoiceSuggestions
<1>3. \A s \in DOMAIN matches : told(s) \in Suggestion
  BY <1>1, SpeakerAssumption DEF Suggestion
<1>4. \A s, t \in DOMAIN matches : s # t /\ PersonOf[matches[s]] = PersonOf[matches[t]] => Namesakes(PersonOf[matches[s]])
  BY <1>1 DEF Namesakes
<1>5. \A s \in DOMAIN matches : told(s).voice /\ told(s).state = "suggested" /\ told(s).name = PersonOf[matches[s]]
  OBVIOUS
<1> HIDE DEF told
<1>6. DOMAIN V = DOMAIN matches /\ V \in [DOMAIN V -> Suggestion] /\ \A s \in DOMAIN V : V[s] = told(s)
  BY <1>2, <1>3
<1> HIDE DEF V
<1>7. OneNameEach(V)
  BY <1>4, <1>5, <1>6 DEF OneNameEach
<1>8. Proposals(V, count)
  BY <1>1, <1>6, <1>7 DEF Proposals
<1>9. \A s \in DOMAIN V : V[s].voice /\ V[s].state = "suggested"
  BY <1>5, <1>6
<1> QED  BY <1>8, <1>9 DEF V

\* The names of the first pass
LEMMA NamesAreSuggested ==
  ASSUME SpeakerInv, NEW found \in Partial(Lettered, Claims), NEW matches \in Partial(Lettered, VoiceKey),
         SuggestNames(found, matches)
  PROVE  SpeakerInv'
<1>1. /\ \A s, t \in DOMAIN matches : matches[s] = matches[t] => s = t
      /\ suggested' = Merge(UniqueNames(found), VoiceSuggestions(matches))
      /\ labels' = << >> /\ placed' = << >> /\ UNCHANGED <<count, reviewed, refreshing>>
  BY DEF SuggestNames
<1>2. count \in Nat
  BY DEF SpeakerInv
<1>3. Proposals(suggested', count)
  BY <1>1, <1>2, NamesAreUnique, VoicesAreUnique, MergedNamesAreUnique
<1>4. << >> \in [DOMAIN << >> -> 1 .. count]
  OBVIOUS
<1>5. Apart(labels', Local, 1 .. count') /\ placed' \in [DOMAIN placed' -> 1 .. count']
  BY <1>1, <1>4, NothingMapped
<1>6. count' \in Nat /\ Proposals(suggested', count') /\ Proposals(refreshing'.suggested, count') /\ reviewed' \subseteq 1 .. count'
  BY <1>1, <1>2, <1>3 DEF SpeakerInv
<1> QED  BY <1>5, <1>6 DEF SpeakerInv

\* A person says what becomes of one proposal
LEMMA OneIsSettled ==
  ASSUME NEW n, NEW f, Proposals(f, n), NEW g, DOMAIN g = DOMAIN f, NEW s, NEW state \in {"approved", "dismissed"},
         g = [t \in DOMAIN f |-> IF t = s THEN [f[t] EXCEPT !.state = state] ELSE f[t]]
  PROVE  Proposals(g, n)
<1>1. \A t \in DOMAIN f : f[t] \in Suggestion
  BY DEF Proposals
<1>2. \A t \in DOMAIN f : [f[t] EXCEPT !.state = state] \in Suggestion /\ [f[t] EXCEPT !.state = state].state = state
  BY <1>1 DEF Suggestion
<1>3. g \in [DOMAIN g -> Suggestion]
  BY <1>1, <1>2
<1>4. \A t \in DOMAIN g : g[t].state = "suggested" => g[t] = f[t]
  BY <1>2
<1>5. OneNameEach(g)
  <2> SUFFICES ASSUME NEW t \in DOMAIN g, NEW r \in DOMAIN g, t # r, {g[t].state, g[r].state} = {"suggested"}
               PROVE  \/ g[t].name # g[r].name
                      \/ g[t].voice /\ g[r].voice /\ Namesakes(g[t].name)
    BY DEF OneNameEach
  <2>1. g[t] = f[t] /\ g[r] = f[r]
    BY <1>4
  <2> QED  BY <2>1 DEF Proposals, OneNameEach
<1> QED  BY <1>3, <1>5 DEF Proposals

\* A review leaves what is proposed apart
LEMMA APersonReviews ==
  ASSUME SpeakerInv, NEW s \in Lettered, Approve(s) \/ Dismiss(s)
  PROVE  SpeakerInv'
<1>1. /\ UNCHANGED <<labels, count, placed, refreshing>>
      /\ reviewed' = reviewed \/ reviewed' = reviewed \cup {s}
  BY DEF Approve, Dismiss
<1>2. s \in 1 .. count
  BY DEF Lettered
<1>3. Proposals(suggested, count)
  BY DEF SpeakerInv
<1>4. Proposals(suggested', count)
  <2>1. CASE Approve(s)
    <3>1. suggested' = [t \in DOMAIN suggested |->
                            IF t = s THEN [suggested[t] EXCEPT !.state = "approved"] ELSE suggested[t]]
      BY <2>1 DEF Approve
    <3> QED  BY <1>3, <3>1, OneIsSettled
  <2>2. CASE Dismiss(s)
    <3>1. suggested' = [suggested EXCEPT ![s].state = "dismissed"] /\ s \in DOMAIN suggested
      BY <2>2 DEF Dismiss
    <3>2. suggested' = [t \in DOMAIN suggested |->
                            IF t = s THEN [suggested[t] EXCEPT !.state = "dismissed"] ELSE suggested[t]]
      BY <3>1
    <3> QED  BY <1>3, <3>2, OneIsSettled
  <2> QED  BY <2>1, <2>2
<1> QED  BY <1>1, <1>2, <1>4 DEF SpeakerInv

\* A refresh goes on from its snapshot
LEMMA ARefreshEnds ==
  ASSUME SpeakerInv, NEW found \in Partial(Lettered, Claims), RefreshEnds(found)
  PROVE  SpeakerInv'
<1> DEFINE old == refreshing.suggested
           kept == {s \in DOMAIN old : old[s].state = "approved"}
           voice == [s \in {t \in DOMAIN old : old[t].state = "suggested" /\ old[t].voice} |-> old[s]]
           fresh == Merge(UniqueNames(found), voice)
           open == {s \in DOMAIN fresh : s \notin kept /\ s \notin refreshing.reviewed}
           names == [s \in kept \cup open |-> IF s \in kept THEN old[s] ELSE fresh[s]]
<1>1. /\ suggested' = names /\ refreshing' = NotRefreshing
      /\ UNCHANGED <<labels, count, placed, reviewed>>
  BY DEF RefreshEnds
<1>2. count \in Nat /\ Proposals(old, count)
  BY DEF SpeakerInv
<1>3. Proposals(voice, count) /\ \A s \in DOMAIN voice : voice[s].voice /\ voice[s].state = "suggested"
  <2> HIDE DEF old
  <2> QED  BY <1>2 DEF Proposals, OneNameEach
<1>4. Proposals(fresh, count)
  <2> HIDE DEF voice
  <2> QED  BY <1>2, <1>3, NamesAreUnique, MergedNamesAreUnique
<1>5. Proposals(names, count)
  <2> HIDE DEF old, fresh
  <2>1. \A s \in DOMAIN names : names[s] \in Suggestion
    BY <1>2, <1>4 DEF Proposals
  <2>2. DOMAIN names \subseteq 1 .. count /\ names \in [DOMAIN names -> Suggestion]
    BY <1>2, <1>4, <2>1 DEF Proposals
  <2>3. \A s \in DOMAIN names : names[s].state = "suggested" => s \in DOMAIN fresh /\ names[s] = fresh[s]
    OBVIOUS
  <2> HIDE DEF names
  <2>4. OneNameEach(names)
    <3> SUFFICES ASSUME NEW t \in DOMAIN names, NEW r \in DOMAIN names, t # r, {names[t].state, names[r].state} = {"suggested"}
                 PROVE  \/ names[t].name # names[r].name
                        \/ names[t].voice /\ names[r].voice /\ Namesakes(names[t].name)
      BY DEF OneNameEach
    <3>1. names[t] = fresh[t] /\ names[r] = fresh[r] /\ t \in DOMAIN fresh /\ r \in DOMAIN fresh
      BY <2>3
    <3> QED  BY <1>4, <3>1 DEF Proposals, OneNameEach
  <2> QED  BY <2>2, <2>4 DEF Proposals
<1>6. refreshing'.suggested = << >>
  BY <1>1 DEF NotRefreshing
<1>7. Proposals(refreshing'.suggested, count)
  BY <1>6, NothingProposed
<1> QED  BY <1>1, <1>5, <1>7 DEF SpeakerInv

\* Every step of the speakers keeps their invariant
LEMMA SpeakerSteps == SpeakerInv /\ [SpeakerNext]_speakerVars => SpeakerInv'
<1> SUFFICES ASSUME SpeakerInv, [SpeakerNext]_speakerVars PROVE SpeakerInv'
  OBVIOUS
<1>1. CASE UNCHANGED speakerVars
  <2>1. UNCHANGED <<labels, count, placed, suggested, reviewed, refreshing>>
    BY <1>1 DEF speakerVars
  <2> QED  BY <2>1 DEF SpeakerInv
<1>2. CASE SpeakerNext
  <2>1. CASE RefreshNames
    <3>1. refreshing'.suggested = suggested /\ UNCHANGED <<labels, count, placed, suggested, reviewed>>
      BY <2>1 DEF RefreshNames
    <3> QED  BY <3>1 DEF SpeakerInv
  <2> QED  BY <1>2, <2>1, APartIsReconciled, NamesAreSuggested, APersonReviews, ARefreshEnds DEF SpeakerNext
<1> QED  BY <1>1, <1>2

\* The invariant says what the run checks
LEMMA SpeakerInvSuffices == SpeakerInv => SpeakerTypeOK /\ SpeakersApart
<1> SUFFICES ASSUME SpeakerInv PROVE SpeakerTypeOK /\ SpeakersApart
  OBVIOUS
<1>1. IsInjective(labels) /\ Range(labels) \subseteq 1 .. count /\ DOMAIN labels \subseteq Local
  BY DEF SpeakerInv, Apart, IsInjective, Range
<1>2. DOMAIN suggested \subseteq 1 .. count /\ OneNameEach(suggested) /\ reviewed \subseteq 1 .. count
  BY DEF SpeakerInv, Proposals
<1> QED  BY <1>1, <1>2 DEF SpeakerTypeOK, SpeakersApart, ShownState

-----------------------------------------------------------------------------
(***************************************************************************)
(* Sequences, and what is folded over them.  Every fold of Passages.tla     *)
(* gets a lemma: over no element it is its base, over one element more its  *)
(* step.  FoldLeft recurs over sets of positions, the last one first: the   *)
(* recursive function exists for the positions 1 .. n by induction on n,    *)
(* and what it is over a sequence and over a longer one is the same at      *)
(* every position they share.  An operator cannot be passed to a lemma, so  *)
(* each fold has a proof of its own, one like the other.                   *)
(***************************************************************************)
\* The last element of the elements up to a number
LEMMA LastNumber ==
  ASSUME NEW n \in Nat
  PROVE  /\ \A s \in SUBSET (1 .. n + 1) : s # {} => Max(s) \in s /\ Max(s) \in 1 .. n + 1 /\ s \ {Max(s)} \in SUBSET (1 .. n)
         /\ Max(1 .. n + 1) = n + 1 /\ (1 .. n + 1) \ {n + 1} = 1 .. n
<1> DEFINE Tops == {k \in Nat : \A s \in SUBSET (1 .. k) : s # {} => \E x \in s : \A y \in s : x >= y}
<1>1. 0 \in Tops
  <2>1. \A s \in SUBSET (1 .. 0) : s = {}
    OBVIOUS
  <2> QED  BY <2>1
<1>2. ASSUME NEW k \in Nat, k \in Tops PROVE k + 1 \in Tops
  <2> SUFFICES ASSUME NEW s \in SUBSET (1 .. k + 1), s # {} PROVE \E x \in s : \A y \in s : x >= y
    OBVIOUS
  <2>1. CASE k + 1 \in s
    BY <2>1
  <2>2. CASE k + 1 \notin s
    <3>1. s \in SUBSET (1 .. k)
      BY <2>2
    <3> QED  BY <1>2, <3>1
  <2> QED  BY <2>1, <2>2
<1>3. Nat \subseteq Tops
  <2> HIDE DEF Tops
  <2> QED  BY <1>1, <1>2, NumbersOneByOne
<1>4. ASSUME NEW s \in SUBSET (1 .. n + 1), s # {} PROVE Max(s) \in s /\ \A y \in s : Max(s) >= y
  <2>1. n + 1 \in Tops
    <3>1. n + 1 \in Nat
      OBVIOUS
    <3> HIDE DEF Tops
    <3> QED  BY <1>3, <3>1
  <2>2. \E x \in s : \A y \in s : x >= y
    BY <1>4, <2>1
  <2> QED  BY <2>2 DEF Max
<1>5. ASSUME NEW s \in SUBSET (1 .. n + 1), s # {} PROVE s \ {Max(s)} \in SUBSET (1 .. n)
  <2>1. PICK m : m = Max(s)
    OBVIOUS
  <2>2. m \in s /\ \A y \in s : m >= y
    BY <1>4, <1>5, <2>1
  <2>3. s \ {m} \in SUBSET (1 .. n)
    BY <2>2
  <2> QED  BY <2>1, <2>3
<1>6. Max(1 .. n + 1) = n + 1
  <2>1. 1 .. n + 1 \in SUBSET (1 .. n + 1) /\ 1 .. n + 1 # {} /\ n + 1 \in 1 .. n + 1
    OBVIOUS
  <2>2. PICK m : m = Max(1 .. n + 1)
    OBVIOUS
  <2>3. m \in 1 .. n + 1 /\ m >= n + 1
    BY <1>4, <2>1, <2>2
  <2> QED  BY <2>2, <2>3
<1>7. (1 .. n + 1) \ {n + 1} = 1 .. n
  OBVIOUS
<1> QED  BY <1>4, <1>5, <1>6, <1>7

\* A set of sequences that holds the empty one and with a sequence the longer ones holds them all
LEMMA ElementByElement ==
  ASSUME NEW S, NEW P, << >> \in P, \A s \in Seq(S), e \in S : s \in P => Append(s, e) \in P
  PROVE  Seq(S) \subseteq P
<1> DEFINE Ns == {n \in Nat : \A s \in Seq(S) : Len(s) = n => s \in P}
<1>1. 0 \in Ns
  OBVIOUS
<1>2. ASSUME NEW n \in Nat, n \in Ns PROVE n + 1 \in Ns
  <2> SUFFICES ASSUME NEW s \in Seq(S), Len(s) = n + 1 PROVE s \in P
    OBVIOUS
  <2>1. SubSeq(s, 1, n) \in Seq(S) /\ Len(SubSeq(s, 1, n)) = n /\ s[n + 1] \in S
    OBVIOUS
  <2>2. SubSeq(s, 1, n) \in P
    BY <1>2, <2>1
  <2>3. s = Append(SubSeq(s, 1, n), s[n + 1])
    OBVIOUS
  <2>4. Append(SubSeq(s, 1, n), s[n + 1]) \in P
    BY <2>1, <2>2
  <2> QED  BY <2>3, <2>4
<1>3. Nat \subseteq Ns
  <2> HIDE DEF Ns
  <2> QED  BY <1>1, <1>2, NumbersOneByOne
<1> QED  BY <1>3

\* The last element of a sequence is replaced
LEMMA LastReplaced ==
  ASSUME NEW S, NEW s \in Seq(S), s # << >>, NEW x
  PROVE  /\ s = Append(SubSeq(s, 1, Len(s) - 1), s[Len(s)]) /\ SubSeq(s, 1, Len(s) - 1) \in Seq(S) /\ s[Len(s)] \in S
         /\ [s EXCEPT ![Len(s)] = x] = Append(SubSeq(s, 1, Len(s) - 1), x)
<1> DEFINE front == SubSeq(s, 1, Len(s) - 1)
<1>1. Len(s) \in Nat \ {0} /\ s[Len(s)] \in S
  OBVIOUS
<1>2. front \in Seq(S) /\ Len(front) = Len(s) - 1 /\ \A i \in 1 .. Len(s) - 1 : front[i] = s[i]
  <2>1. PICK m \in Nat : m = Len(s) - 1 /\ m <= Len(s)
    <3>1. PICK n \in Nat : n = Len(s) /\ n # 0
      BY <1>1
    <3>2. n - 1 \in Nat /\ n - 1 <= n
      BY <3>1
    <3> QED  BY <3>1, <3>2
  <2>2. SubSeq(s, 1, m) \in Seq(S) /\ Len(SubSeq(s, 1, m)) = m
    BY <2>1
  <2>3. \A i \in 1 .. m : SubSeq(s, 1, m)[i] = s[i]
    BY <2>1
  <2> QED  BY <2>1, <2>2, <2>3
<1>3. s = Append(front, s[Len(s)])
  BY <1>1, <1>2
<1>4. [s EXCEPT ![Len(s)] = x] = Append(front, x)
  <2>1. DOMAIN [s EXCEPT ![Len(s)] = x] = 1 .. Len(s) /\ DOMAIN Append(front, x) = 1 .. Len(s)
    BY <1>1, <1>2
  <2>2. \A i \in 1 .. Len(s) : [s EXCEPT ![Len(s)] = x][i] = Append(front, x)[i]
    BY <1>1, <1>2
  <2>3. [s EXCEPT ![Len(s)] = x] = [i \in 1 .. Len(s) |-> [s EXCEPT ![Len(s)] = x][i]]
    BY <1>1
  <2>4. Append(front, x) = [i \in 1 .. Len(s) |-> Append(front, x)[i]]
    BY <1>1, <1>2
  <2> QED  BY <2>2, <2>3, <2>4
<1> QED  BY <1>2, <1>3, <1>4, <1>1

ReadTo(lines) == FoldLeft(ReadLine, NothingRead, lines)
WordsPut(limit, start, ws) == FoldLeft(LAMBDA q, w : AddWord(limit, q, w), start, ws)
NothingPut == [pieces |-> << >>, current |-> << >>]
SentencesPut(limit, ss) == FoldLeft(LAMBDA p, s : AddSentence(limit, p, s), NothingPut, ss)
Packed(bs) == FoldLeft(AddBlock, Empty, bs)

\* The definitions of Passages.tla, by the folds they are made of
LEMMA WhatIsFolded ==
  /\ \A lines : Blocks(lines) = Flushed(ReadTo(lines)).blocks
  /\ \A limit, ws : SplitLong(limit, ws) = PutAway(SentencesPut(limit, Sentences(ws)))
  /\ \A limit, p, s : AddSentence(limit, p, s) =
       CASE Tokens(p.current \o s) <= limit -> [p EXCEPT !.current = @ \o s]
         [] Tokens(p.current \o s) > limit /\ Tokens(s) <= limit -> [pieces |-> PutAway(p), current |-> s]
         [] OTHER -> WordsPut(limit, [pieces |-> PutAway(p), current |-> << >>], s)
<1>1. \A lines : Blocks(lines) = Flushed(ReadTo(lines)).blocks
  BY DEF Blocks, ReadTo, FoldLeft, MapThenFoldSet
<1>2. \A limit, ws : SplitLong(limit, ws) = PutAway(SentencesPut(limit, Sentences(ws)))
  BY DEF SplitLong, SentencesPut, NothingPut, FoldLeft, MapThenFoldSet
<1>3. ASSUME NEW limit, NEW p, NEW s
      PROVE  AddSentence(limit, p, s) =
               CASE Tokens(p.current \o s) <= limit -> [p EXCEPT !.current = @ \o s]
                 [] Tokens(p.current \o s) > limit /\ Tokens(s) <= limit -> [pieces |-> PutAway(p), current |-> s]
                 [] OTHER -> WordsPut(limit, [pieces |-> PutAway(p), current |-> << >>], s)
  BY DEF AddSentence, WordsPut, FoldLeft, MapThenFoldSet
<1> QED  BY <1>1, <1>2, <1>3

\* A sum
LEMMA SumGrows ==
  ASSUME NEW S, NEW seq \in Seq(S), NEW e \in S
  PROVE  Sum(<< >>) = 0 /\ Sum(Append(seq, e)) = Sum(seq) + e
<1> DEFINE Add(q, a, k) == a + q[k]
           Rec(it, q, D) == it = [s \in SUBSET D |-> IF s = {} THEN 0 ELSE Add(q, it[s \ {Max(s)}], Max(s))]
<1>1. ASSUME NEW q PROVE Sum(q) = (CHOOSE it : Rec(it, q, DOMAIN q))[DOMAIN q]
  BY <1>1 DEF Sum, FoldLeft, MapThenFoldSet
<1> HIDE DEF Add
<1>2. ASSUME NEW q PROVE \A n \in Nat : \E it : Rec(it, q, 1 .. n)
  <2> DEFINE Ns == {n \in Nat : \E it : Rec(it, q, 1 .. n)}
  <2>1. 0 \in Ns
    <3> DEFINE it == [s \in SUBSET (1 .. 0) |-> 0]
    <3>1. \A s \in SUBSET (1 .. 0) : s = {}
      OBVIOUS
    <3>2. Rec(it, q, 1 .. 0)
      BY <3>1
    <3> QED  BY <3>2
  <2>2. ASSUME NEW n \in Nat, n \in Ns PROVE n + 1 \in Ns
    <3>1. PICK u : Rec(u, q, 1 .. n)
      BY <2>2
    <3> DEFINE v == [s \in SUBSET (1 .. n + 1) |-> IF s = {} THEN 0 ELSE Add(q, u[s \ {Max(s)}], Max(s))]
    <3>2. \A s \in SUBSET (1 .. n) : v[s] = u[s]
      <4>1. \A s \in SUBSET (1 .. n) : s \in SUBSET (1 .. n + 1)
        OBVIOUS
      <4> QED  BY <3>1, <4>1
    <3>3. \A s \in SUBSET (1 .. n + 1) : s # {} => v[s \ {Max(s)}] = u[s \ {Max(s)}]
      BY <3>2, LastNumber
    <3>4. Rec(v, q, 1 .. n + 1)
      <4> HIDE DEF Rec
      <4>1. \A s \in SUBSET (1 .. n + 1) : (IF s = {} THEN 0 ELSE Add(q, u[s \ {Max(s)}], Max(s)))
                                         = (IF s = {} THEN 0 ELSE Add(q, v[s \ {Max(s)}], Max(s)))
        BY <3>3
      <4>2. v = [s \in SUBSET (1 .. n + 1) |-> IF s = {} THEN 0 ELSE Add(q, v[s \ {Max(s)}], Max(s))]
        BY <4>1
      <4> HIDE DEF v
      <4> QED  BY <4>2 DEF Rec
    <3>5. n + 1 \in Nat
      OBVIOUS
    <3> HIDE DEF Rec, v
    <3> QED  BY <3>4, <3>5
  <2> HIDE DEF Ns
  <2>3. Nat \subseteq Ns
    BY <2>1, <2>2, NumbersOneByOne
  <2> QED  BY <2>3 DEF Ns
<1>3. ASSUME NEW q, NEW n \in Nat, NEW it, Rec(it, q, 1 .. n)
      PROVE  it[{}] = 0 /\ \A k \in Nat : k + 1 <= n => it[1 .. k + 1] = Add(q, it[1 .. k], k + 1)
  <2>1. it[{}] = 0
    BY <1>3
  <2>2. ASSUME NEW k \in Nat, k + 1 <= n PROVE it[1 .. k + 1] = Add(q, it[1 .. k], k + 1)
    <3>1. Max(1 .. k + 1) = k + 1 /\ (1 .. k + 1) \ {k + 1} = 1 .. k
      BY LastNumber
    <3>2. 1 .. k + 1 \in SUBSET (1 .. n) /\ 1 .. k + 1 # {}
      <4>1. k + 1 \in 1 .. k + 1 /\ \A i \in 1 .. k + 1 : i \in 1 .. n
        BY <2>2
      <4> QED  BY <4>1
    <3> QED  BY <1>3, <3>1, <3>2
  <2> QED  BY <2>1, <2>2
<1> HIDE DEF Rec
<1>4. ASSUME NEW q, NEW n \in Nat, DOMAIN q = 1 .. n PROVE \E it : Rec(it, q, 1 .. n) /\ Sum(q) = it[1 .. n]
  <2>1. Rec(CHOOSE it : Rec(it, q, DOMAIN q), q, DOMAIN q)
    BY <1>2, <1>4
  <2> QED  BY <1>1, <1>4, <2>1
<1>5. Sum(<< >>) = 0
  <2>1. PICK it : Rec(it, << >>, 1 .. 0) /\ Sum(<< >>) = it[1 .. 0]
    <3>1. 0 \in Nat /\ DOMAIN << >> = 1 .. 0 /\ Len(<< >>) = 0
      OBVIOUS
    <3> QED  BY <1>4, <3>1
  <2>2. 1 .. 0 = {}
    OBVIOUS
  <2>3. it[{}] = 0
    <3>1. 0 \in Nat
      OBVIOUS
    <3> QED  BY <1>3, <2>1, <3>1
  <2> QED  BY <2>1, <2>2, <2>3
<1>6. Sum(Append(seq, e)) = Sum(seq) + e
  <2> DEFINE n == Len(seq)
             longer == Append(seq, e)
  <2>1. n \in Nat /\ DOMAIN seq = 1 .. n /\ n + 1 \in Nat /\ DOMAIN longer = 1 .. n + 1 /\ Len(longer) = n + 1
    OBVIOUS
  <2>2. longer[n + 1] = e /\ \A k \in 1 .. n : longer[k] = seq[k]
    OBVIOUS
  <2>3. PICK u : Rec(u, seq, 1 .. n) /\ Sum(seq) = u[1 .. n]
    BY <1>4, <2>1
  <2>4. PICK v : Rec(v, longer, 1 .. n + 1) /\ Sum(longer) = v[1 .. n + 1]
    <3> HIDE DEF longer
    <3> QED  BY <1>4, <2>1
  <2> HIDE DEF n, longer
  <2>5. \A a : \A k \in Nat : k + 1 <= n => Add(longer, a, k + 1) = Add(seq, a, k + 1)
    BY <2>1, <2>2 DEF Add
  <2>6. Add(longer, u[1 .. n], n + 1) = Sum(seq) + e
    BY <2>1, <2>2, <2>3 DEF Add, n
  <2> DEFINE Ns == {k \in Nat : k <= n => v[1 .. k] = u[1 .. k]}
  <2>7. 0 \in Ns
    <3>1. 1 .. 0 = {}
      OBVIOUS
    <3> QED  BY <1>3, <2>1, <2>3, <2>4, <3>1
  <2>8. ASSUME NEW k \in Nat, k \in Ns PROVE k + 1 \in Ns
    <3> SUFFICES ASSUME k + 1 <= n PROVE v[1 .. k + 1] = u[1 .. k + 1]
      BY <2>1
    <3>1. k <= n /\ k + 1 <= n + 1
      BY <2>1
    <3>2. v[1 .. k] = u[1 .. k]
      BY <2>8, <3>1
    <3>3. v[1 .. k + 1] = Add(longer, v[1 .. k], k + 1)
      BY <1>3, <2>1, <2>4, <3>1
    <3>4. u[1 .. k + 1] = Add(seq, u[1 .. k], k + 1)
      <4>1. k + 1 <= n /\ Rec(u, seq, 1 .. n) /\ n \in Nat
        BY <2>1, <2>3
      <4> QED  BY <1>3, <4>1
    <3> QED  BY <2>5, <3>2, <3>3, <3>4
  <2>9. v[1 .. n] = u[1 .. n]
    <3>1. Nat \subseteq Ns
      <4> HIDE DEF Ns
      <4> QED  BY <2>7, <2>8, NumbersOneByOne
    <3> QED  BY <2>1, <3>1
  <2>10. v[1 .. n + 1] = Add(longer, v[1 .. n], n + 1)
    <3>1. n + 1 <= n + 1
      BY <2>1
    <3> QED  BY <1>3, <2>1, <2>4, <3>1
  <2> QED  BY <2>4, <2>6, <2>9, <2>10 DEF longer
<1> QED  BY <1>5, <1>6

\* The lengths of words
LEMMA LenSumGrows ==
  ASSUME NEW S, NEW seq \in Seq(S), NEW e \in S
  PROVE  LenSum(<< >>) = 0 /\ LenSum(Append(seq, e)) = LenSum(seq) + e.len
<1> DEFINE Add(q, a, k) == a + q[k].len
           Rec(it, q, D) == it = [s \in SUBSET D |-> IF s = {} THEN 0 ELSE Add(q, it[s \ {Max(s)}], Max(s))]
<1>1. ASSUME NEW q PROVE LenSum(q) = (CHOOSE it : Rec(it, q, DOMAIN q))[DOMAIN q]
  BY <1>1 DEF LenSum, FoldLeft, MapThenFoldSet
<1> HIDE DEF Add
<1>2. ASSUME NEW q PROVE \A n \in Nat : \E it : Rec(it, q, 1 .. n)
  <2> DEFINE Ns == {n \in Nat : \E it : Rec(it, q, 1 .. n)}
  <2>1. 0 \in Ns
    <3> DEFINE it == [s \in SUBSET (1 .. 0) |-> 0]
    <3>1. \A s \in SUBSET (1 .. 0) : s = {}
      OBVIOUS
    <3>2. Rec(it, q, 1 .. 0)
      BY <3>1
    <3> QED  BY <3>2
  <2>2. ASSUME NEW n \in Nat, n \in Ns PROVE n + 1 \in Ns
    <3>1. PICK u : Rec(u, q, 1 .. n)
      BY <2>2
    <3> DEFINE v == [s \in SUBSET (1 .. n + 1) |-> IF s = {} THEN 0 ELSE Add(q, u[s \ {Max(s)}], Max(s))]
    <3>2. \A s \in SUBSET (1 .. n) : v[s] = u[s]
      <4>1. \A s \in SUBSET (1 .. n) : s \in SUBSET (1 .. n + 1)
        OBVIOUS
      <4> QED  BY <3>1, <4>1
    <3>3. \A s \in SUBSET (1 .. n + 1) : s # {} => v[s \ {Max(s)}] = u[s \ {Max(s)}]
      BY <3>2, LastNumber
    <3>4. Rec(v, q, 1 .. n + 1)
      <4> HIDE DEF Rec
      <4>1. \A s \in SUBSET (1 .. n + 1) : (IF s = {} THEN 0 ELSE Add(q, u[s \ {Max(s)}], Max(s)))
                                         = (IF s = {} THEN 0 ELSE Add(q, v[s \ {Max(s)}], Max(s)))
        BY <3>3
      <4>2. v = [s \in SUBSET (1 .. n + 1) |-> IF s = {} THEN 0 ELSE Add(q, v[s \ {Max(s)}], Max(s))]
        BY <4>1
      <4> HIDE DEF v
      <4> QED  BY <4>2 DEF Rec
    <3>5. n + 1 \in Nat
      OBVIOUS
    <3> HIDE DEF Rec, v
    <3> QED  BY <3>4, <3>5
  <2> HIDE DEF Ns
  <2>3. Nat \subseteq Ns
    BY <2>1, <2>2, NumbersOneByOne
  <2> QED  BY <2>3 DEF Ns
<1>3. ASSUME NEW q, NEW n \in Nat, NEW it, Rec(it, q, 1 .. n)
      PROVE  it[{}] = 0 /\ \A k \in Nat : k + 1 <= n => it[1 .. k + 1] = Add(q, it[1 .. k], k + 1)
  <2>1. it[{}] = 0
    BY <1>3
  <2>2. ASSUME NEW k \in Nat, k + 1 <= n PROVE it[1 .. k + 1] = Add(q, it[1 .. k], k + 1)
    <3>1. Max(1 .. k + 1) = k + 1 /\ (1 .. k + 1) \ {k + 1} = 1 .. k
      BY LastNumber
    <3>2. 1 .. k + 1 \in SUBSET (1 .. n) /\ 1 .. k + 1 # {}
      <4>1. k + 1 \in 1 .. k + 1 /\ \A i \in 1 .. k + 1 : i \in 1 .. n
        BY <2>2
      <4> QED  BY <4>1
    <3> QED  BY <1>3, <3>1, <3>2
  <2> QED  BY <2>1, <2>2
<1> HIDE DEF Rec
<1>4. ASSUME NEW q, NEW n \in Nat, DOMAIN q = 1 .. n PROVE \E it : Rec(it, q, 1 .. n) /\ LenSum(q) = it[1 .. n]
  <2>1. Rec(CHOOSE it : Rec(it, q, DOMAIN q), q, DOMAIN q)
    BY <1>2, <1>4
  <2> QED  BY <1>1, <1>4, <2>1
<1>5. LenSum(<< >>) = 0
  <2>1. PICK it : Rec(it, << >>, 1 .. 0) /\ LenSum(<< >>) = it[1 .. 0]
    <3>1. 0 \in Nat /\ DOMAIN << >> = 1 .. 0 /\ Len(<< >>) = 0
      OBVIOUS
    <3> QED  BY <1>4, <3>1
  <2>2. 1 .. 0 = {}
    OBVIOUS
  <2>3. it[{}] = 0
    <3>1. 0 \in Nat
      OBVIOUS
    <3> QED  BY <1>3, <2>1, <3>1
  <2> QED  BY <2>1, <2>2, <2>3
<1>6. LenSum(Append(seq, e)) = LenSum(seq) + e.len
  <2> DEFINE n == Len(seq)
             longer == Append(seq, e)
  <2>1. n \in Nat /\ DOMAIN seq = 1 .. n /\ n + 1 \in Nat /\ DOMAIN longer = 1 .. n + 1 /\ Len(longer) = n + 1
    OBVIOUS
  <2>2. longer[n + 1] = e /\ \A k \in 1 .. n : longer[k] = seq[k]
    OBVIOUS
  <2>3. PICK u : Rec(u, seq, 1 .. n) /\ LenSum(seq) = u[1 .. n]
    BY <1>4, <2>1
  <2>4. PICK v : Rec(v, longer, 1 .. n + 1) /\ LenSum(longer) = v[1 .. n + 1]
    <3> HIDE DEF longer
    <3> QED  BY <1>4, <2>1
  <2> HIDE DEF n, longer
  <2>5. \A a : \A k \in Nat : k + 1 <= n => Add(longer, a, k + 1) = Add(seq, a, k + 1)
    BY <2>1, <2>2 DEF Add
  <2>6. Add(longer, u[1 .. n], n + 1) = LenSum(seq) + e.len
    BY <2>1, <2>2, <2>3 DEF Add, n
  <2> DEFINE Ns == {k \in Nat : k <= n => v[1 .. k] = u[1 .. k]}
  <2>7. 0 \in Ns
    <3>1. 1 .. 0 = {}
      OBVIOUS
    <3> QED  BY <1>3, <2>1, <2>3, <2>4, <3>1
  <2>8. ASSUME NEW k \in Nat, k \in Ns PROVE k + 1 \in Ns
    <3> SUFFICES ASSUME k + 1 <= n PROVE v[1 .. k + 1] = u[1 .. k + 1]
      BY <2>1
    <3>1. k <= n /\ k + 1 <= n + 1
      BY <2>1
    <3>2. v[1 .. k] = u[1 .. k]
      BY <2>8, <3>1
    <3>3. v[1 .. k + 1] = Add(longer, v[1 .. k], k + 1)
      BY <1>3, <2>1, <2>4, <3>1
    <3>4. u[1 .. k + 1] = Add(seq, u[1 .. k], k + 1)
      <4>1. k + 1 <= n /\ Rec(u, seq, 1 .. n) /\ n \in Nat
        BY <2>1, <2>3
      <4> QED  BY <1>3, <4>1
    <3> QED  BY <2>5, <3>2, <3>3, <3>4
  <2>9. v[1 .. n] = u[1 .. n]
    <3>1. Nat \subseteq Ns
      <4> HIDE DEF Ns
      <4> QED  BY <2>7, <2>8, NumbersOneByOne
    <3> QED  BY <2>1, <3>1
  <2>10. v[1 .. n + 1] = Add(longer, v[1 .. n], n + 1)
    <3>1. n + 1 <= n + 1
      BY <2>1
    <3> QED  BY <1>3, <2>1, <2>4, <3>1
  <2> QED  BY <2>4, <2>6, <2>9, <2>10 DEF longer
<1> QED  BY <1>5, <1>6

\* Sequences one after the other
LEMMA JoinedGrows ==
  ASSUME NEW S, NEW seq \in Seq(S), NEW e \in S
  PROVE  Joined(<< >>) = << >> /\ Joined(Append(seq, e)) = Joined(seq) \o e
<1> DEFINE Add(q, a, k) == a \o q[k]
           Rec(it, q, D) == it = [s \in SUBSET D |-> IF s = {} THEN << >> ELSE Add(q, it[s \ {Max(s)}], Max(s))]
<1>1. ASSUME NEW q PROVE Joined(q) = (CHOOSE it : Rec(it, q, DOMAIN q))[DOMAIN q]
  BY <1>1 DEF Joined, FoldLeft, MapThenFoldSet
<1> HIDE DEF Add
<1>2. ASSUME NEW q PROVE \A n \in Nat : \E it : Rec(it, q, 1 .. n)
  <2> DEFINE Ns == {n \in Nat : \E it : Rec(it, q, 1 .. n)}
  <2>1. 0 \in Ns
    <3> DEFINE it == [s \in SUBSET (1 .. 0) |-> << >>]
    <3>1. \A s \in SUBSET (1 .. 0) : s = {}
      OBVIOUS
    <3>2. Rec(it, q, 1 .. 0)
      BY <3>1
    <3> QED  BY <3>2
  <2>2. ASSUME NEW n \in Nat, n \in Ns PROVE n + 1 \in Ns
    <3>1. PICK u : Rec(u, q, 1 .. n)
      BY <2>2
    <3> DEFINE v == [s \in SUBSET (1 .. n + 1) |-> IF s = {} THEN << >> ELSE Add(q, u[s \ {Max(s)}], Max(s))]
    <3>2. \A s \in SUBSET (1 .. n) : v[s] = u[s]
      <4>1. \A s \in SUBSET (1 .. n) : s \in SUBSET (1 .. n + 1)
        OBVIOUS
      <4> QED  BY <3>1, <4>1
    <3>3. \A s \in SUBSET (1 .. n + 1) : s # {} => v[s \ {Max(s)}] = u[s \ {Max(s)}]
      BY <3>2, LastNumber
    <3>4. Rec(v, q, 1 .. n + 1)
      <4> HIDE DEF Rec
      <4>1. \A s \in SUBSET (1 .. n + 1) : (IF s = {} THEN << >> ELSE Add(q, u[s \ {Max(s)}], Max(s)))
                                         = (IF s = {} THEN << >> ELSE Add(q, v[s \ {Max(s)}], Max(s)))
        BY <3>3
      <4>2. v = [s \in SUBSET (1 .. n + 1) |-> IF s = {} THEN << >> ELSE Add(q, v[s \ {Max(s)}], Max(s))]
        BY <4>1
      <4> HIDE DEF v
      <4> QED  BY <4>2 DEF Rec
    <3>5. n + 1 \in Nat
      OBVIOUS
    <3> HIDE DEF Rec, v
    <3> QED  BY <3>4, <3>5
  <2> HIDE DEF Ns
  <2>3. Nat \subseteq Ns
    BY <2>1, <2>2, NumbersOneByOne
  <2> QED  BY <2>3 DEF Ns
<1>3. ASSUME NEW q, NEW n \in Nat, NEW it, Rec(it, q, 1 .. n)
      PROVE  it[{}] = << >> /\ \A k \in Nat : k + 1 <= n => it[1 .. k + 1] = Add(q, it[1 .. k], k + 1)
  <2>1. it[{}] = << >>
    BY <1>3
  <2>2. ASSUME NEW k \in Nat, k + 1 <= n PROVE it[1 .. k + 1] = Add(q, it[1 .. k], k + 1)
    <3>1. Max(1 .. k + 1) = k + 1 /\ (1 .. k + 1) \ {k + 1} = 1 .. k
      BY LastNumber
    <3>2. 1 .. k + 1 \in SUBSET (1 .. n) /\ 1 .. k + 1 # {}
      <4>1. k + 1 \in 1 .. k + 1 /\ \A i \in 1 .. k + 1 : i \in 1 .. n
        BY <2>2
      <4> QED  BY <4>1
    <3> QED  BY <1>3, <3>1, <3>2
  <2> QED  BY <2>1, <2>2
<1> HIDE DEF Rec
<1>4. ASSUME NEW q, NEW n \in Nat, DOMAIN q = 1 .. n PROVE \E it : Rec(it, q, 1 .. n) /\ Joined(q) = it[1 .. n]
  <2>1. Rec(CHOOSE it : Rec(it, q, DOMAIN q), q, DOMAIN q)
    BY <1>2, <1>4
  <2> QED  BY <1>1, <1>4, <2>1
<1>5. Joined(<< >>) = << >>
  <2>1. PICK it : Rec(it, << >>, 1 .. 0) /\ Joined(<< >>) = it[1 .. 0]
    <3>1. 0 \in Nat /\ DOMAIN << >> = 1 .. 0 /\ Len(<< >>) = 0
      OBVIOUS
    <3> QED  BY <1>4, <3>1
  <2>2. 1 .. 0 = {}
    OBVIOUS
  <2>3. it[{}] = << >>
    <3>1. 0 \in Nat
      OBVIOUS
    <3> QED  BY <1>3, <2>1, <3>1
  <2> QED  BY <2>1, <2>2, <2>3
<1>6. Joined(Append(seq, e)) = Joined(seq) \o e
  <2> DEFINE n == Len(seq)
             longer == Append(seq, e)
  <2>1. n \in Nat /\ DOMAIN seq = 1 .. n /\ n + 1 \in Nat /\ DOMAIN longer = 1 .. n + 1 /\ Len(longer) = n + 1
    OBVIOUS
  <2>2. longer[n + 1] = e /\ \A k \in 1 .. n : longer[k] = seq[k]
    OBVIOUS
  <2>3. PICK u : Rec(u, seq, 1 .. n) /\ Joined(seq) = u[1 .. n]
    BY <1>4, <2>1
  <2>4. PICK v : Rec(v, longer, 1 .. n + 1) /\ Joined(longer) = v[1 .. n + 1]
    <3> HIDE DEF longer
    <3> QED  BY <1>4, <2>1
  <2> HIDE DEF n, longer
  <2>5. \A a : \A k \in Nat : k + 1 <= n => Add(longer, a, k + 1) = Add(seq, a, k + 1)
    BY <2>1, <2>2 DEF Add
  <2>6. Add(longer, u[1 .. n], n + 1) = Joined(seq) \o e
    BY <2>1, <2>2, <2>3 DEF Add, n
  <2> DEFINE Ns == {k \in Nat : k <= n => v[1 .. k] = u[1 .. k]}
  <2>7. 0 \in Ns
    <3>1. 1 .. 0 = {}
      OBVIOUS
    <3> QED  BY <1>3, <2>1, <2>3, <2>4, <3>1
  <2>8. ASSUME NEW k \in Nat, k \in Ns PROVE k + 1 \in Ns
    <3> SUFFICES ASSUME k + 1 <= n PROVE v[1 .. k + 1] = u[1 .. k + 1]
      BY <2>1
    <3>1. k <= n /\ k + 1 <= n + 1
      BY <2>1
    <3>2. v[1 .. k] = u[1 .. k]
      BY <2>8, <3>1
    <3>3. v[1 .. k + 1] = Add(longer, v[1 .. k], k + 1)
      BY <1>3, <2>1, <2>4, <3>1
    <3>4. u[1 .. k + 1] = Add(seq, u[1 .. k], k + 1)
      <4>1. k + 1 <= n /\ Rec(u, seq, 1 .. n) /\ n \in Nat
        BY <2>1, <2>3
      <4> QED  BY <1>3, <4>1
    <3> QED  BY <2>5, <3>2, <3>3, <3>4
  <2>9. v[1 .. n] = u[1 .. n]
    <3>1. Nat \subseteq Ns
      <4> HIDE DEF Ns
      <4> QED  BY <2>7, <2>8, NumbersOneByOne
    <3> QED  BY <2>1, <3>1
  <2>10. v[1 .. n + 1] = Add(longer, v[1 .. n], n + 1)
    <3>1. n + 1 <= n + 1
      BY <2>1
    <3> QED  BY <1>3, <2>1, <2>4, <3>1
  <2> QED  BY <2>4, <2>6, <2>9, <2>10 DEF longer
<1> QED  BY <1>5, <1>6

\* The sentences of a text, word by word
LEMMA SentencesGrows ==
  ASSUME NEW S, NEW seq \in Seq(S), NEW e \in S
  PROVE  Sentences(<< >>) = << >> /\ Sentences(Append(seq, e)) = AddToSentences(Sentences(seq), e)
<1> DEFINE Add(q, a, k) == AddToSentences(a, q[k])
           Rec(it, q, D) == it = [s \in SUBSET D |-> IF s = {} THEN << >> ELSE Add(q, it[s \ {Max(s)}], Max(s))]
<1>1. ASSUME NEW q PROVE Sentences(q) = (CHOOSE it : Rec(it, q, DOMAIN q))[DOMAIN q]
  BY <1>1 DEF Sentences, FoldLeft, MapThenFoldSet
<1> HIDE DEF Add
<1>2. ASSUME NEW q PROVE \A n \in Nat : \E it : Rec(it, q, 1 .. n)
  <2> DEFINE Ns == {n \in Nat : \E it : Rec(it, q, 1 .. n)}
  <2>1. 0 \in Ns
    <3> DEFINE it == [s \in SUBSET (1 .. 0) |-> << >>]
    <3>1. \A s \in SUBSET (1 .. 0) : s = {}
      OBVIOUS
    <3>2. Rec(it, q, 1 .. 0)
      BY <3>1
    <3> QED  BY <3>2
  <2>2. ASSUME NEW n \in Nat, n \in Ns PROVE n + 1 \in Ns
    <3>1. PICK u : Rec(u, q, 1 .. n)
      BY <2>2
    <3> DEFINE v == [s \in SUBSET (1 .. n + 1) |-> IF s = {} THEN << >> ELSE Add(q, u[s \ {Max(s)}], Max(s))]
    <3>2. \A s \in SUBSET (1 .. n) : v[s] = u[s]
      <4>1. \A s \in SUBSET (1 .. n) : s \in SUBSET (1 .. n + 1)
        OBVIOUS
      <4> QED  BY <3>1, <4>1
    <3>3. \A s \in SUBSET (1 .. n + 1) : s # {} => v[s \ {Max(s)}] = u[s \ {Max(s)}]
      BY <3>2, LastNumber
    <3>4. Rec(v, q, 1 .. n + 1)
      <4> HIDE DEF Rec
      <4>1. \A s \in SUBSET (1 .. n + 1) : (IF s = {} THEN << >> ELSE Add(q, u[s \ {Max(s)}], Max(s)))
                                         = (IF s = {} THEN << >> ELSE Add(q, v[s \ {Max(s)}], Max(s)))
        BY <3>3
      <4>2. v = [s \in SUBSET (1 .. n + 1) |-> IF s = {} THEN << >> ELSE Add(q, v[s \ {Max(s)}], Max(s))]
        BY <4>1
      <4> HIDE DEF v
      <4> QED  BY <4>2 DEF Rec
    <3>5. n + 1 \in Nat
      OBVIOUS
    <3> HIDE DEF Rec, v
    <3> QED  BY <3>4, <3>5
  <2> HIDE DEF Ns
  <2>3. Nat \subseteq Ns
    BY <2>1, <2>2, NumbersOneByOne
  <2> QED  BY <2>3 DEF Ns
<1>3. ASSUME NEW q, NEW n \in Nat, NEW it, Rec(it, q, 1 .. n)
      PROVE  it[{}] = << >> /\ \A k \in Nat : k + 1 <= n => it[1 .. k + 1] = Add(q, it[1 .. k], k + 1)
  <2>1. it[{}] = << >>
    BY <1>3
  <2>2. ASSUME NEW k \in Nat, k + 1 <= n PROVE it[1 .. k + 1] = Add(q, it[1 .. k], k + 1)
    <3>1. Max(1 .. k + 1) = k + 1 /\ (1 .. k + 1) \ {k + 1} = 1 .. k
      BY LastNumber
    <3>2. 1 .. k + 1 \in SUBSET (1 .. n) /\ 1 .. k + 1 # {}
      <4>1. k + 1 \in 1 .. k + 1 /\ \A i \in 1 .. k + 1 : i \in 1 .. n
        BY <2>2
      <4> QED  BY <4>1
    <3> QED  BY <1>3, <3>1, <3>2
  <2> QED  BY <2>1, <2>2
<1> HIDE DEF Rec
<1>4. ASSUME NEW q, NEW n \in Nat, DOMAIN q = 1 .. n PROVE \E it : Rec(it, q, 1 .. n) /\ Sentences(q) = it[1 .. n]
  <2>1. Rec(CHOOSE it : Rec(it, q, DOMAIN q), q, DOMAIN q)
    BY <1>2, <1>4
  <2> QED  BY <1>1, <1>4, <2>1
<1>5. Sentences(<< >>) = << >>
  <2>1. PICK it : Rec(it, << >>, 1 .. 0) /\ Sentences(<< >>) = it[1 .. 0]
    <3>1. 0 \in Nat /\ DOMAIN << >> = 1 .. 0 /\ Len(<< >>) = 0
      OBVIOUS
    <3> QED  BY <1>4, <3>1
  <2>2. 1 .. 0 = {}
    OBVIOUS
  <2>3. it[{}] = << >>
    <3>1. 0 \in Nat
      OBVIOUS
    <3> QED  BY <1>3, <2>1, <3>1
  <2> QED  BY <2>1, <2>2, <2>3
<1>6. Sentences(Append(seq, e)) = AddToSentences(Sentences(seq), e)
  <2> DEFINE n == Len(seq)
             longer == Append(seq, e)
  <2>1. n \in Nat /\ DOMAIN seq = 1 .. n /\ n + 1 \in Nat /\ DOMAIN longer = 1 .. n + 1 /\ Len(longer) = n + 1
    OBVIOUS
  <2>2. longer[n + 1] = e /\ \A k \in 1 .. n : longer[k] = seq[k]
    OBVIOUS
  <2>3. PICK u : Rec(u, seq, 1 .. n) /\ Sentences(seq) = u[1 .. n]
    BY <1>4, <2>1
  <2>4. PICK v : Rec(v, longer, 1 .. n + 1) /\ Sentences(longer) = v[1 .. n + 1]
    <3> HIDE DEF longer
    <3> QED  BY <1>4, <2>1
  <2> HIDE DEF n, longer
  <2>5. \A a : \A k \in Nat : k + 1 <= n => Add(longer, a, k + 1) = Add(seq, a, k + 1)
    BY <2>1, <2>2 DEF Add
  <2>6. Add(longer, u[1 .. n], n + 1) = AddToSentences(Sentences(seq), e)
    BY <2>1, <2>2, <2>3 DEF Add, n
  <2> DEFINE Ns == {k \in Nat : k <= n => v[1 .. k] = u[1 .. k]}
  <2>7. 0 \in Ns
    <3>1. 1 .. 0 = {}
      OBVIOUS
    <3> QED  BY <1>3, <2>1, <2>3, <2>4, <3>1
  <2>8. ASSUME NEW k \in Nat, k \in Ns PROVE k + 1 \in Ns
    <3> SUFFICES ASSUME k + 1 <= n PROVE v[1 .. k + 1] = u[1 .. k + 1]
      BY <2>1
    <3>1. k <= n /\ k + 1 <= n + 1
      BY <2>1
    <3>2. v[1 .. k] = u[1 .. k]
      BY <2>8, <3>1
    <3>3. v[1 .. k + 1] = Add(longer, v[1 .. k], k + 1)
      BY <1>3, <2>1, <2>4, <3>1
    <3>4. u[1 .. k + 1] = Add(seq, u[1 .. k], k + 1)
      <4>1. k + 1 <= n /\ Rec(u, seq, 1 .. n) /\ n \in Nat
        BY <2>1, <2>3
      <4> QED  BY <1>3, <4>1
    <3> QED  BY <2>5, <3>2, <3>3, <3>4
  <2>9. v[1 .. n] = u[1 .. n]
    <3>1. Nat \subseteq Ns
      <4> HIDE DEF Ns
      <4> QED  BY <2>7, <2>8, NumbersOneByOne
    <3> QED  BY <2>1, <3>1
  <2>10. v[1 .. n + 1] = Add(longer, v[1 .. n], n + 1)
    <3>1. n + 1 <= n + 1
      BY <2>1
    <3> QED  BY <1>3, <2>1, <2>4, <3>1
  <2> QED  BY <2>4, <2>6, <2>9, <2>10 DEF longer
<1> QED  BY <1>5, <1>6

\* The turns of a talk, segment by segment
LEMMA TurnsGrows ==
  ASSUME NEW S, NEW seq \in Seq(S), NEW e \in S
  PROVE  GroupTurns(<< >>) = << >> /\ GroupTurns(Append(seq, e)) = AddSegment(GroupTurns(seq), e)
<1> DEFINE Add(q, a, k) == AddSegment(a, q[k])
           Rec(it, q, D) == it = [s \in SUBSET D |-> IF s = {} THEN << >> ELSE Add(q, it[s \ {Max(s)}], Max(s))]
<1>1. ASSUME NEW q PROVE GroupTurns(q) = (CHOOSE it : Rec(it, q, DOMAIN q))[DOMAIN q]
  BY <1>1 DEF GroupTurns, FoldLeft, MapThenFoldSet
<1> HIDE DEF Add
<1>2. ASSUME NEW q PROVE \A n \in Nat : \E it : Rec(it, q, 1 .. n)
  <2> DEFINE Ns == {n \in Nat : \E it : Rec(it, q, 1 .. n)}
  <2>1. 0 \in Ns
    <3> DEFINE it == [s \in SUBSET (1 .. 0) |-> << >>]
    <3>1. \A s \in SUBSET (1 .. 0) : s = {}
      OBVIOUS
    <3>2. Rec(it, q, 1 .. 0)
      BY <3>1
    <3> QED  BY <3>2
  <2>2. ASSUME NEW n \in Nat, n \in Ns PROVE n + 1 \in Ns
    <3>1. PICK u : Rec(u, q, 1 .. n)
      BY <2>2
    <3> DEFINE v == [s \in SUBSET (1 .. n + 1) |-> IF s = {} THEN << >> ELSE Add(q, u[s \ {Max(s)}], Max(s))]
    <3>2. \A s \in SUBSET (1 .. n) : v[s] = u[s]
      <4>1. \A s \in SUBSET (1 .. n) : s \in SUBSET (1 .. n + 1)
        OBVIOUS
      <4> QED  BY <3>1, <4>1
    <3>3. \A s \in SUBSET (1 .. n + 1) : s # {} => v[s \ {Max(s)}] = u[s \ {Max(s)}]
      BY <3>2, LastNumber
    <3>4. Rec(v, q, 1 .. n + 1)
      <4> HIDE DEF Rec
      <4>1. \A s \in SUBSET (1 .. n + 1) : (IF s = {} THEN << >> ELSE Add(q, u[s \ {Max(s)}], Max(s)))
                                         = (IF s = {} THEN << >> ELSE Add(q, v[s \ {Max(s)}], Max(s)))
        BY <3>3
      <4>2. v = [s \in SUBSET (1 .. n + 1) |-> IF s = {} THEN << >> ELSE Add(q, v[s \ {Max(s)}], Max(s))]
        BY <4>1
      <4> HIDE DEF v
      <4> QED  BY <4>2 DEF Rec
    <3>5. n + 1 \in Nat
      OBVIOUS
    <3> HIDE DEF Rec, v
    <3> QED  BY <3>4, <3>5
  <2> HIDE DEF Ns
  <2>3. Nat \subseteq Ns
    BY <2>1, <2>2, NumbersOneByOne
  <2> QED  BY <2>3 DEF Ns
<1>3. ASSUME NEW q, NEW n \in Nat, NEW it, Rec(it, q, 1 .. n)
      PROVE  it[{}] = << >> /\ \A k \in Nat : k + 1 <= n => it[1 .. k + 1] = Add(q, it[1 .. k], k + 1)
  <2>1. it[{}] = << >>
    BY <1>3
  <2>2. ASSUME NEW k \in Nat, k + 1 <= n PROVE it[1 .. k + 1] = Add(q, it[1 .. k], k + 1)
    <3>1. Max(1 .. k + 1) = k + 1 /\ (1 .. k + 1) \ {k + 1} = 1 .. k
      BY LastNumber
    <3>2. 1 .. k + 1 \in SUBSET (1 .. n) /\ 1 .. k + 1 # {}
      <4>1. k + 1 \in 1 .. k + 1 /\ \A i \in 1 .. k + 1 : i \in 1 .. n
        BY <2>2
      <4> QED  BY <4>1
    <3> QED  BY <1>3, <3>1, <3>2
  <2> QED  BY <2>1, <2>2
<1> HIDE DEF Rec
<1>4. ASSUME NEW q, NEW n \in Nat, DOMAIN q = 1 .. n PROVE \E it : Rec(it, q, 1 .. n) /\ GroupTurns(q) = it[1 .. n]
  <2>1. Rec(CHOOSE it : Rec(it, q, DOMAIN q), q, DOMAIN q)
    BY <1>2, <1>4
  <2> QED  BY <1>1, <1>4, <2>1
<1>5. GroupTurns(<< >>) = << >>
  <2>1. PICK it : Rec(it, << >>, 1 .. 0) /\ GroupTurns(<< >>) = it[1 .. 0]
    <3>1. 0 \in Nat /\ DOMAIN << >> = 1 .. 0 /\ Len(<< >>) = 0
      OBVIOUS
    <3> QED  BY <1>4, <3>1
  <2>2. 1 .. 0 = {}
    OBVIOUS
  <2>3. it[{}] = << >>
    <3>1. 0 \in Nat
      OBVIOUS
    <3> QED  BY <1>3, <2>1, <3>1
  <2> QED  BY <2>1, <2>2, <2>3
<1>6. GroupTurns(Append(seq, e)) = AddSegment(GroupTurns(seq), e)
  <2> DEFINE n == Len(seq)
             longer == Append(seq, e)
  <2>1. n \in Nat /\ DOMAIN seq = 1 .. n /\ n + 1 \in Nat /\ DOMAIN longer = 1 .. n + 1 /\ Len(longer) = n + 1
    OBVIOUS
  <2>2. longer[n + 1] = e /\ \A k \in 1 .. n : longer[k] = seq[k]
    OBVIOUS
  <2>3. PICK u : Rec(u, seq, 1 .. n) /\ GroupTurns(seq) = u[1 .. n]
    BY <1>4, <2>1
  <2>4. PICK v : Rec(v, longer, 1 .. n + 1) /\ GroupTurns(longer) = v[1 .. n + 1]
    <3> HIDE DEF longer
    <3> QED  BY <1>4, <2>1
  <2> HIDE DEF n, longer
  <2>5. \A a : \A k \in Nat : k + 1 <= n => Add(longer, a, k + 1) = Add(seq, a, k + 1)
    BY <2>1, <2>2 DEF Add
  <2>6. Add(longer, u[1 .. n], n + 1) = AddSegment(GroupTurns(seq), e)
    BY <2>1, <2>2, <2>3 DEF Add, n
  <2> DEFINE Ns == {k \in Nat : k <= n => v[1 .. k] = u[1 .. k]}
  <2>7. 0 \in Ns
    <3>1. 1 .. 0 = {}
      OBVIOUS
    <3> QED  BY <1>3, <2>1, <2>3, <2>4, <3>1
  <2>8. ASSUME NEW k \in Nat, k \in Ns PROVE k + 1 \in Ns
    <3> SUFFICES ASSUME k + 1 <= n PROVE v[1 .. k + 1] = u[1 .. k + 1]
      BY <2>1
    <3>1. k <= n /\ k + 1 <= n + 1
      BY <2>1
    <3>2. v[1 .. k] = u[1 .. k]
      BY <2>8, <3>1
    <3>3. v[1 .. k + 1] = Add(longer, v[1 .. k], k + 1)
      BY <1>3, <2>1, <2>4, <3>1
    <3>4. u[1 .. k + 1] = Add(seq, u[1 .. k], k + 1)
      <4>1. k + 1 <= n /\ Rec(u, seq, 1 .. n) /\ n \in Nat
        BY <2>1, <2>3
      <4> QED  BY <1>3, <4>1
    <3> QED  BY <2>5, <3>2, <3>3, <3>4
  <2>9. v[1 .. n] = u[1 .. n]
    <3>1. Nat \subseteq Ns
      <4> HIDE DEF Ns
      <4> QED  BY <2>7, <2>8, NumbersOneByOne
    <3> QED  BY <2>1, <3>1
  <2>10. v[1 .. n + 1] = Add(longer, v[1 .. n], n + 1)
    <3>1. n + 1 <= n + 1
      BY <2>1
    <3> QED  BY <1>3, <2>1, <2>4, <3>1
  <2> QED  BY <2>4, <2>6, <2>9, <2>10 DEF longer
<1> QED  BY <1>5, <1>6

\* A document, line by line
LEMMA ReadToGrows ==
  ASSUME NEW S, NEW seq \in Seq(S), NEW e \in S
  PROVE  ReadTo(<< >>) = NothingRead /\ ReadTo(Append(seq, e)) = ReadLine(ReadTo(seq), e)
<1> DEFINE Add(q, a, k) == ReadLine(a, q[k])
           Rec(it, q, D) == it = [s \in SUBSET D |-> IF s = {} THEN NothingRead ELSE Add(q, it[s \ {Max(s)}], Max(s))]
<1>1. ASSUME NEW q PROVE ReadTo(q) = (CHOOSE it : Rec(it, q, DOMAIN q))[DOMAIN q]
  BY <1>1 DEF ReadTo, FoldLeft, MapThenFoldSet
<1> HIDE DEF Add
<1>2. ASSUME NEW q PROVE \A n \in Nat : \E it : Rec(it, q, 1 .. n)
  <2> DEFINE Ns == {n \in Nat : \E it : Rec(it, q, 1 .. n)}
  <2>1. 0 \in Ns
    <3> DEFINE it == [s \in SUBSET (1 .. 0) |-> NothingRead]
    <3>1. \A s \in SUBSET (1 .. 0) : s = {}
      OBVIOUS
    <3>2. Rec(it, q, 1 .. 0)
      BY <3>1
    <3> QED  BY <3>2
  <2>2. ASSUME NEW n \in Nat, n \in Ns PROVE n + 1 \in Ns
    <3>1. PICK u : Rec(u, q, 1 .. n)
      BY <2>2
    <3> DEFINE v == [s \in SUBSET (1 .. n + 1) |-> IF s = {} THEN NothingRead ELSE Add(q, u[s \ {Max(s)}], Max(s))]
    <3>2. \A s \in SUBSET (1 .. n) : v[s] = u[s]
      <4>1. \A s \in SUBSET (1 .. n) : s \in SUBSET (1 .. n + 1)
        OBVIOUS
      <4> QED  BY <3>1, <4>1
    <3>3. \A s \in SUBSET (1 .. n + 1) : s # {} => v[s \ {Max(s)}] = u[s \ {Max(s)}]
      BY <3>2, LastNumber
    <3>4. Rec(v, q, 1 .. n + 1)
      <4> HIDE DEF Rec
      <4>1. \A s \in SUBSET (1 .. n + 1) : (IF s = {} THEN NothingRead ELSE Add(q, u[s \ {Max(s)}], Max(s)))
                                         = (IF s = {} THEN NothingRead ELSE Add(q, v[s \ {Max(s)}], Max(s)))
        BY <3>3
      <4>2. v = [s \in SUBSET (1 .. n + 1) |-> IF s = {} THEN NothingRead ELSE Add(q, v[s \ {Max(s)}], Max(s))]
        BY <4>1
      <4> HIDE DEF v
      <4> QED  BY <4>2 DEF Rec
    <3>5. n + 1 \in Nat
      OBVIOUS
    <3> HIDE DEF Rec, v
    <3> QED  BY <3>4, <3>5
  <2> HIDE DEF Ns
  <2>3. Nat \subseteq Ns
    BY <2>1, <2>2, NumbersOneByOne
  <2> QED  BY <2>3 DEF Ns
<1>3. ASSUME NEW q, NEW n \in Nat, NEW it, Rec(it, q, 1 .. n)
      PROVE  it[{}] = NothingRead /\ \A k \in Nat : k + 1 <= n => it[1 .. k + 1] = Add(q, it[1 .. k], k + 1)
  <2>1. it[{}] = NothingRead
    BY <1>3
  <2>2. ASSUME NEW k \in Nat, k + 1 <= n PROVE it[1 .. k + 1] = Add(q, it[1 .. k], k + 1)
    <3>1. Max(1 .. k + 1) = k + 1 /\ (1 .. k + 1) \ {k + 1} = 1 .. k
      BY LastNumber
    <3>2. 1 .. k + 1 \in SUBSET (1 .. n) /\ 1 .. k + 1 # {}
      <4>1. k + 1 \in 1 .. k + 1 /\ \A i \in 1 .. k + 1 : i \in 1 .. n
        BY <2>2
      <4> QED  BY <4>1
    <3> QED  BY <1>3, <3>1, <3>2
  <2> QED  BY <2>1, <2>2
<1> HIDE DEF Rec
<1>4. ASSUME NEW q, NEW n \in Nat, DOMAIN q = 1 .. n PROVE \E it : Rec(it, q, 1 .. n) /\ ReadTo(q) = it[1 .. n]
  <2>1. Rec(CHOOSE it : Rec(it, q, DOMAIN q), q, DOMAIN q)
    BY <1>2, <1>4
  <2> QED  BY <1>1, <1>4, <2>1
<1>5. ReadTo(<< >>) = NothingRead
  <2>1. PICK it : Rec(it, << >>, 1 .. 0) /\ ReadTo(<< >>) = it[1 .. 0]
    <3>1. 0 \in Nat /\ DOMAIN << >> = 1 .. 0 /\ Len(<< >>) = 0
      OBVIOUS
    <3> QED  BY <1>4, <3>1
  <2>2. 1 .. 0 = {}
    OBVIOUS
  <2>3. it[{}] = NothingRead
    <3>1. 0 \in Nat
      OBVIOUS
    <3> QED  BY <1>3, <2>1, <3>1
  <2> QED  BY <2>1, <2>2, <2>3
<1>6. ReadTo(Append(seq, e)) = ReadLine(ReadTo(seq), e)
  <2> DEFINE n == Len(seq)
             longer == Append(seq, e)
  <2>1. n \in Nat /\ DOMAIN seq = 1 .. n /\ n + 1 \in Nat /\ DOMAIN longer = 1 .. n + 1 /\ Len(longer) = n + 1
    OBVIOUS
  <2>2. longer[n + 1] = e /\ \A k \in 1 .. n : longer[k] = seq[k]
    OBVIOUS
  <2>3. PICK u : Rec(u, seq, 1 .. n) /\ ReadTo(seq) = u[1 .. n]
    BY <1>4, <2>1
  <2>4. PICK v : Rec(v, longer, 1 .. n + 1) /\ ReadTo(longer) = v[1 .. n + 1]
    <3> HIDE DEF longer
    <3> QED  BY <1>4, <2>1
  <2> HIDE DEF n, longer
  <2>5. \A a : \A k \in Nat : k + 1 <= n => Add(longer, a, k + 1) = Add(seq, a, k + 1)
    BY <2>1, <2>2 DEF Add
  <2>6. Add(longer, u[1 .. n], n + 1) = ReadLine(ReadTo(seq), e)
    BY <2>1, <2>2, <2>3 DEF Add, n
  <2> DEFINE Ns == {k \in Nat : k <= n => v[1 .. k] = u[1 .. k]}
  <2>7. 0 \in Ns
    <3>1. 1 .. 0 = {}
      OBVIOUS
    <3> QED  BY <1>3, <2>1, <2>3, <2>4, <3>1
  <2>8. ASSUME NEW k \in Nat, k \in Ns PROVE k + 1 \in Ns
    <3> SUFFICES ASSUME k + 1 <= n PROVE v[1 .. k + 1] = u[1 .. k + 1]
      BY <2>1
    <3>1. k <= n /\ k + 1 <= n + 1
      BY <2>1
    <3>2. v[1 .. k] = u[1 .. k]
      BY <2>8, <3>1
    <3>3. v[1 .. k + 1] = Add(longer, v[1 .. k], k + 1)
      BY <1>3, <2>1, <2>4, <3>1
    <3>4. u[1 .. k + 1] = Add(seq, u[1 .. k], k + 1)
      <4>1. k + 1 <= n /\ Rec(u, seq, 1 .. n) /\ n \in Nat
        BY <2>1, <2>3
      <4> QED  BY <1>3, <4>1
    <3> QED  BY <2>5, <3>2, <3>3, <3>4
  <2>9. v[1 .. n] = u[1 .. n]
    <3>1. Nat \subseteq Ns
      <4> HIDE DEF Ns
      <4> QED  BY <2>7, <2>8, NumbersOneByOne
    <3> QED  BY <2>1, <3>1
  <2>10. v[1 .. n + 1] = Add(longer, v[1 .. n], n + 1)
    <3>1. n + 1 <= n + 1
      BY <2>1
    <3> QED  BY <1>3, <2>1, <2>4, <3>1
  <2> QED  BY <2>4, <2>6, <2>9, <2>10 DEF longer
<1> QED  BY <1>5, <1>6

\* A sentence that is too long, word by word
LEMMA WordsPutGrows ==
  ASSUME NEW S, NEW seq \in Seq(S), NEW e \in S, NEW limit, NEW start
  PROVE  WordsPut(limit, start, << >>) = start /\ WordsPut(limit, start, Append(seq, e)) = AddWord(limit, WordsPut(limit, start, seq), e)
<1> DEFINE Add(q, a, k) == AddWord(limit, a, q[k])
           Rec(it, q, D) == it = [s \in SUBSET D |-> IF s = {} THEN start ELSE Add(q, it[s \ {Max(s)}], Max(s))]
<1>1. ASSUME NEW q PROVE WordsPut(limit, start, q) = (CHOOSE it : Rec(it, q, DOMAIN q))[DOMAIN q]
  BY <1>1 DEF WordsPut, FoldLeft, MapThenFoldSet
<1> HIDE DEF Add
<1>2. ASSUME NEW q PROVE \A n \in Nat : \E it : Rec(it, q, 1 .. n)
  <2> DEFINE Ns == {n \in Nat : \E it : Rec(it, q, 1 .. n)}
  <2>1. 0 \in Ns
    <3> DEFINE it == [s \in SUBSET (1 .. 0) |-> start]
    <3>1. \A s \in SUBSET (1 .. 0) : s = {}
      OBVIOUS
    <3>2. Rec(it, q, 1 .. 0)
      BY <3>1
    <3> QED  BY <3>2
  <2>2. ASSUME NEW n \in Nat, n \in Ns PROVE n + 1 \in Ns
    <3>1. PICK u : Rec(u, q, 1 .. n)
      BY <2>2
    <3> DEFINE v == [s \in SUBSET (1 .. n + 1) |-> IF s = {} THEN start ELSE Add(q, u[s \ {Max(s)}], Max(s))]
    <3>2. \A s \in SUBSET (1 .. n) : v[s] = u[s]
      <4>1. \A s \in SUBSET (1 .. n) : s \in SUBSET (1 .. n + 1)
        OBVIOUS
      <4> QED  BY <3>1, <4>1
    <3>3. \A s \in SUBSET (1 .. n + 1) : s # {} => v[s \ {Max(s)}] = u[s \ {Max(s)}]
      BY <3>2, LastNumber
    <3>4. Rec(v, q, 1 .. n + 1)
      <4> HIDE DEF Rec
      <4>1. \A s \in SUBSET (1 .. n + 1) : (IF s = {} THEN start ELSE Add(q, u[s \ {Max(s)}], Max(s)))
                                         = (IF s = {} THEN start ELSE Add(q, v[s \ {Max(s)}], Max(s)))
        BY <3>3
      <4>2. v = [s \in SUBSET (1 .. n + 1) |-> IF s = {} THEN start ELSE Add(q, v[s \ {Max(s)}], Max(s))]
        BY <4>1
      <4> HIDE DEF v
      <4> QED  BY <4>2 DEF Rec
    <3>5. n + 1 \in Nat
      OBVIOUS
    <3> HIDE DEF Rec, v
    <3> QED  BY <3>4, <3>5
  <2> HIDE DEF Ns
  <2>3. Nat \subseteq Ns
    BY <2>1, <2>2, NumbersOneByOne
  <2> QED  BY <2>3 DEF Ns
<1>3. ASSUME NEW q, NEW n \in Nat, NEW it, Rec(it, q, 1 .. n)
      PROVE  it[{}] = start /\ \A k \in Nat : k + 1 <= n => it[1 .. k + 1] = Add(q, it[1 .. k], k + 1)
  <2>1. it[{}] = start
    BY <1>3
  <2>2. ASSUME NEW k \in Nat, k + 1 <= n PROVE it[1 .. k + 1] = Add(q, it[1 .. k], k + 1)
    <3>1. Max(1 .. k + 1) = k + 1 /\ (1 .. k + 1) \ {k + 1} = 1 .. k
      BY LastNumber
    <3>2. 1 .. k + 1 \in SUBSET (1 .. n) /\ 1 .. k + 1 # {}
      <4>1. k + 1 \in 1 .. k + 1 /\ \A i \in 1 .. k + 1 : i \in 1 .. n
        BY <2>2
      <4> QED  BY <4>1
    <3> QED  BY <1>3, <3>1, <3>2
  <2> QED  BY <2>1, <2>2
<1> HIDE DEF Rec
<1>4. ASSUME NEW q, NEW n \in Nat, DOMAIN q = 1 .. n PROVE \E it : Rec(it, q, 1 .. n) /\ WordsPut(limit, start, q) = it[1 .. n]
  <2>1. Rec(CHOOSE it : Rec(it, q, DOMAIN q), q, DOMAIN q)
    BY <1>2, <1>4
  <2> QED  BY <1>1, <1>4, <2>1
<1>5. WordsPut(limit, start, << >>) = start
  <2>1. PICK it : Rec(it, << >>, 1 .. 0) /\ WordsPut(limit, start, << >>) = it[1 .. 0]
    <3>1. 0 \in Nat /\ DOMAIN << >> = 1 .. 0 /\ Len(<< >>) = 0
      OBVIOUS
    <3> QED  BY <1>4, <3>1
  <2>2. 1 .. 0 = {}
    OBVIOUS
  <2>3. it[{}] = start
    <3>1. 0 \in Nat
      OBVIOUS
    <3> QED  BY <1>3, <2>1, <3>1
  <2> QED  BY <2>1, <2>2, <2>3
<1>6. WordsPut(limit, start, Append(seq, e)) = AddWord(limit, WordsPut(limit, start, seq), e)
  <2> DEFINE n == Len(seq)
             longer == Append(seq, e)
  <2>1. n \in Nat /\ DOMAIN seq = 1 .. n /\ n + 1 \in Nat /\ DOMAIN longer = 1 .. n + 1 /\ Len(longer) = n + 1
    OBVIOUS
  <2>2. longer[n + 1] = e /\ \A k \in 1 .. n : longer[k] = seq[k]
    OBVIOUS
  <2>3. PICK u : Rec(u, seq, 1 .. n) /\ WordsPut(limit, start, seq) = u[1 .. n]
    BY <1>4, <2>1
  <2>4. PICK v : Rec(v, longer, 1 .. n + 1) /\ WordsPut(limit, start, longer) = v[1 .. n + 1]
    <3> HIDE DEF longer
    <3> QED  BY <1>4, <2>1
  <2> HIDE DEF n, longer
  <2>5. \A a : \A k \in Nat : k + 1 <= n => Add(longer, a, k + 1) = Add(seq, a, k + 1)
    BY <2>1, <2>2 DEF Add
  <2>6. Add(longer, u[1 .. n], n + 1) = AddWord(limit, WordsPut(limit, start, seq), e)
    BY <2>1, <2>2, <2>3 DEF Add, n
  <2> DEFINE Ns == {k \in Nat : k <= n => v[1 .. k] = u[1 .. k]}
  <2>7. 0 \in Ns
    <3>1. 1 .. 0 = {}
      OBVIOUS
    <3> QED  BY <1>3, <2>1, <2>3, <2>4, <3>1
  <2>8. ASSUME NEW k \in Nat, k \in Ns PROVE k + 1 \in Ns
    <3> SUFFICES ASSUME k + 1 <= n PROVE v[1 .. k + 1] = u[1 .. k + 1]
      BY <2>1
    <3>1. k <= n /\ k + 1 <= n + 1
      BY <2>1
    <3>2. v[1 .. k] = u[1 .. k]
      BY <2>8, <3>1
    <3>3. v[1 .. k + 1] = Add(longer, v[1 .. k], k + 1)
      BY <1>3, <2>1, <2>4, <3>1
    <3>4. u[1 .. k + 1] = Add(seq, u[1 .. k], k + 1)
      <4>1. k + 1 <= n /\ Rec(u, seq, 1 .. n) /\ n \in Nat
        BY <2>1, <2>3
      <4> QED  BY <1>3, <4>1
    <3> QED  BY <2>5, <3>2, <3>3, <3>4
  <2>9. v[1 .. n] = u[1 .. n]
    <3>1. Nat \subseteq Ns
      <4> HIDE DEF Ns
      <4> QED  BY <2>7, <2>8, NumbersOneByOne
    <3> QED  BY <2>1, <3>1
  <2>10. v[1 .. n + 1] = Add(longer, v[1 .. n], n + 1)
    <3>1. n + 1 <= n + 1
      BY <2>1
    <3> QED  BY <1>3, <2>1, <2>4, <3>1
  <2> QED  BY <2>4, <2>6, <2>9, <2>10 DEF longer
<1> QED  BY <1>5, <1>6

\* A paragraph that is too long, sentence by sentence
LEMMA SentencesPutGrows ==
  ASSUME NEW S, NEW seq \in Seq(S), NEW e \in S, NEW limit
  PROVE  SentencesPut(limit, << >>) = NothingPut /\ SentencesPut(limit, Append(seq, e)) = AddSentence(limit, SentencesPut(limit, seq), e)
<1> DEFINE Add(q, a, k) == AddSentence(limit, a, q[k])
           Rec(it, q, D) == it = [s \in SUBSET D |-> IF s = {} THEN NothingPut ELSE Add(q, it[s \ {Max(s)}], Max(s))]
<1>1. ASSUME NEW q PROVE SentencesPut(limit, q) = (CHOOSE it : Rec(it, q, DOMAIN q))[DOMAIN q]
  BY <1>1 DEF SentencesPut, FoldLeft, MapThenFoldSet
<1> HIDE DEF Add
<1>2. ASSUME NEW q PROVE \A n \in Nat : \E it : Rec(it, q, 1 .. n)
  <2> DEFINE Ns == {n \in Nat : \E it : Rec(it, q, 1 .. n)}
  <2>1. 0 \in Ns
    <3> DEFINE it == [s \in SUBSET (1 .. 0) |-> NothingPut]
    <3>1. \A s \in SUBSET (1 .. 0) : s = {}
      OBVIOUS
    <3>2. Rec(it, q, 1 .. 0)
      BY <3>1
    <3> QED  BY <3>2
  <2>2. ASSUME NEW n \in Nat, n \in Ns PROVE n + 1 \in Ns
    <3>1. PICK u : Rec(u, q, 1 .. n)
      BY <2>2
    <3> DEFINE v == [s \in SUBSET (1 .. n + 1) |-> IF s = {} THEN NothingPut ELSE Add(q, u[s \ {Max(s)}], Max(s))]
    <3>2. \A s \in SUBSET (1 .. n) : v[s] = u[s]
      <4>1. \A s \in SUBSET (1 .. n) : s \in SUBSET (1 .. n + 1)
        OBVIOUS
      <4> QED  BY <3>1, <4>1
    <3>3. \A s \in SUBSET (1 .. n + 1) : s # {} => v[s \ {Max(s)}] = u[s \ {Max(s)}]
      BY <3>2, LastNumber
    <3>4. Rec(v, q, 1 .. n + 1)
      <4> HIDE DEF Rec
      <4>1. \A s \in SUBSET (1 .. n + 1) : (IF s = {} THEN NothingPut ELSE Add(q, u[s \ {Max(s)}], Max(s)))
                                         = (IF s = {} THEN NothingPut ELSE Add(q, v[s \ {Max(s)}], Max(s)))
        BY <3>3
      <4>2. v = [s \in SUBSET (1 .. n + 1) |-> IF s = {} THEN NothingPut ELSE Add(q, v[s \ {Max(s)}], Max(s))]
        BY <4>1
      <4> HIDE DEF v
      <4> QED  BY <4>2 DEF Rec
    <3>5. n + 1 \in Nat
      OBVIOUS
    <3> HIDE DEF Rec, v
    <3> QED  BY <3>4, <3>5
  <2> HIDE DEF Ns
  <2>3. Nat \subseteq Ns
    BY <2>1, <2>2, NumbersOneByOne
  <2> QED  BY <2>3 DEF Ns
<1>3. ASSUME NEW q, NEW n \in Nat, NEW it, Rec(it, q, 1 .. n)
      PROVE  it[{}] = NothingPut /\ \A k \in Nat : k + 1 <= n => it[1 .. k + 1] = Add(q, it[1 .. k], k + 1)
  <2>1. it[{}] = NothingPut
    BY <1>3
  <2>2. ASSUME NEW k \in Nat, k + 1 <= n PROVE it[1 .. k + 1] = Add(q, it[1 .. k], k + 1)
    <3>1. Max(1 .. k + 1) = k + 1 /\ (1 .. k + 1) \ {k + 1} = 1 .. k
      BY LastNumber
    <3>2. 1 .. k + 1 \in SUBSET (1 .. n) /\ 1 .. k + 1 # {}
      <4>1. k + 1 \in 1 .. k + 1 /\ \A i \in 1 .. k + 1 : i \in 1 .. n
        BY <2>2
      <4> QED  BY <4>1
    <3> QED  BY <1>3, <3>1, <3>2
  <2> QED  BY <2>1, <2>2
<1> HIDE DEF Rec
<1>4. ASSUME NEW q, NEW n \in Nat, DOMAIN q = 1 .. n PROVE \E it : Rec(it, q, 1 .. n) /\ SentencesPut(limit, q) = it[1 .. n]
  <2>1. Rec(CHOOSE it : Rec(it, q, DOMAIN q), q, DOMAIN q)
    BY <1>2, <1>4
  <2> QED  BY <1>1, <1>4, <2>1
<1>5. SentencesPut(limit, << >>) = NothingPut
  <2>1. PICK it : Rec(it, << >>, 1 .. 0) /\ SentencesPut(limit, << >>) = it[1 .. 0]
    <3>1. 0 \in Nat /\ DOMAIN << >> = 1 .. 0 /\ Len(<< >>) = 0
      OBVIOUS
    <3> QED  BY <1>4, <3>1
  <2>2. 1 .. 0 = {}
    OBVIOUS
  <2>3. it[{}] = NothingPut
    <3>1. 0 \in Nat
      OBVIOUS
    <3> QED  BY <1>3, <2>1, <3>1
  <2> QED  BY <2>1, <2>2, <2>3
<1>6. SentencesPut(limit, Append(seq, e)) = AddSentence(limit, SentencesPut(limit, seq), e)
  <2> DEFINE n == Len(seq)
             longer == Append(seq, e)
  <2>1. n \in Nat /\ DOMAIN seq = 1 .. n /\ n + 1 \in Nat /\ DOMAIN longer = 1 .. n + 1 /\ Len(longer) = n + 1
    OBVIOUS
  <2>2. longer[n + 1] = e /\ \A k \in 1 .. n : longer[k] = seq[k]
    OBVIOUS
  <2>3. PICK u : Rec(u, seq, 1 .. n) /\ SentencesPut(limit, seq) = u[1 .. n]
    BY <1>4, <2>1
  <2>4. PICK v : Rec(v, longer, 1 .. n + 1) /\ SentencesPut(limit, longer) = v[1 .. n + 1]
    <3> HIDE DEF longer
    <3> QED  BY <1>4, <2>1
  <2> HIDE DEF n, longer
  <2>5. \A a : \A k \in Nat : k + 1 <= n => Add(longer, a, k + 1) = Add(seq, a, k + 1)
    BY <2>1, <2>2 DEF Add
  <2>6. Add(longer, u[1 .. n], n + 1) = AddSentence(limit, SentencesPut(limit, seq), e)
    BY <2>1, <2>2, <2>3 DEF Add, n
  <2> DEFINE Ns == {k \in Nat : k <= n => v[1 .. k] = u[1 .. k]}
  <2>7. 0 \in Ns
    <3>1. 1 .. 0 = {}
      OBVIOUS
    <3> QED  BY <1>3, <2>1, <2>3, <2>4, <3>1
  <2>8. ASSUME NEW k \in Nat, k \in Ns PROVE k + 1 \in Ns
    <3> SUFFICES ASSUME k + 1 <= n PROVE v[1 .. k + 1] = u[1 .. k + 1]
      BY <2>1
    <3>1. k <= n /\ k + 1 <= n + 1
      BY <2>1
    <3>2. v[1 .. k] = u[1 .. k]
      BY <2>8, <3>1
    <3>3. v[1 .. k + 1] = Add(longer, v[1 .. k], k + 1)
      BY <1>3, <2>1, <2>4, <3>1
    <3>4. u[1 .. k + 1] = Add(seq, u[1 .. k], k + 1)
      <4>1. k + 1 <= n /\ Rec(u, seq, 1 .. n) /\ n \in Nat
        BY <2>1, <2>3
      <4> QED  BY <1>3, <4>1
    <3> QED  BY <2>5, <3>2, <3>3, <3>4
  <2>9. v[1 .. n] = u[1 .. n]
    <3>1. Nat \subseteq Ns
      <4> HIDE DEF Ns
      <4> QED  BY <2>7, <2>8, NumbersOneByOne
    <3> QED  BY <2>1, <3>1
  <2>10. v[1 .. n + 1] = Add(longer, v[1 .. n], n + 1)
    <3>1. n + 1 <= n + 1
      BY <2>1
    <3> QED  BY <1>3, <2>1, <2>4, <3>1
  <2> QED  BY <2>4, <2>6, <2>9, <2>10 DEF longer
<1> QED  BY <1>5, <1>6

\* The passages of a document, block by block
LEMMA PackedGrows ==
  ASSUME NEW S, NEW seq \in Seq(S), NEW e \in S
  PROVE  Packed(<< >>) = Empty /\ Packed(Append(seq, e)) = AddBlock(Packed(seq), e)
<1> DEFINE Add(q, a, k) == AddBlock(a, q[k])
           Rec(it, q, D) == it = [s \in SUBSET D |-> IF s = {} THEN Empty ELSE Add(q, it[s \ {Max(s)}], Max(s))]
<1>1. ASSUME NEW q PROVE Packed(q) = (CHOOSE it : Rec(it, q, DOMAIN q))[DOMAIN q]
  BY <1>1 DEF Packed, FoldLeft, MapThenFoldSet
<1> HIDE DEF Add
<1>2. ASSUME NEW q PROVE \A n \in Nat : \E it : Rec(it, q, 1 .. n)
  <2> DEFINE Ns == {n \in Nat : \E it : Rec(it, q, 1 .. n)}
  <2>1. 0 \in Ns
    <3> DEFINE it == [s \in SUBSET (1 .. 0) |-> Empty]
    <3>1. \A s \in SUBSET (1 .. 0) : s = {}
      OBVIOUS
    <3>2. Rec(it, q, 1 .. 0)
      BY <3>1
    <3> QED  BY <3>2
  <2>2. ASSUME NEW n \in Nat, n \in Ns PROVE n + 1 \in Ns
    <3>1. PICK u : Rec(u, q, 1 .. n)
      BY <2>2
    <3> DEFINE v == [s \in SUBSET (1 .. n + 1) |-> IF s = {} THEN Empty ELSE Add(q, u[s \ {Max(s)}], Max(s))]
    <3>2. \A s \in SUBSET (1 .. n) : v[s] = u[s]
      <4>1. \A s \in SUBSET (1 .. n) : s \in SUBSET (1 .. n + 1)
        OBVIOUS
      <4> QED  BY <3>1, <4>1
    <3>3. \A s \in SUBSET (1 .. n + 1) : s # {} => v[s \ {Max(s)}] = u[s \ {Max(s)}]
      BY <3>2, LastNumber
    <3>4. Rec(v, q, 1 .. n + 1)
      <4> HIDE DEF Rec
      <4>1. \A s \in SUBSET (1 .. n + 1) : (IF s = {} THEN Empty ELSE Add(q, u[s \ {Max(s)}], Max(s)))
                                         = (IF s = {} THEN Empty ELSE Add(q, v[s \ {Max(s)}], Max(s)))
        BY <3>3
      <4>2. v = [s \in SUBSET (1 .. n + 1) |-> IF s = {} THEN Empty ELSE Add(q, v[s \ {Max(s)}], Max(s))]
        BY <4>1
      <4> HIDE DEF v
      <4> QED  BY <4>2 DEF Rec
    <3>5. n + 1 \in Nat
      OBVIOUS
    <3> HIDE DEF Rec, v
    <3> QED  BY <3>4, <3>5
  <2> HIDE DEF Ns
  <2>3. Nat \subseteq Ns
    BY <2>1, <2>2, NumbersOneByOne
  <2> QED  BY <2>3 DEF Ns
<1>3. ASSUME NEW q, NEW n \in Nat, NEW it, Rec(it, q, 1 .. n)
      PROVE  it[{}] = Empty /\ \A k \in Nat : k + 1 <= n => it[1 .. k + 1] = Add(q, it[1 .. k], k + 1)
  <2>1. it[{}] = Empty
    BY <1>3
  <2>2. ASSUME NEW k \in Nat, k + 1 <= n PROVE it[1 .. k + 1] = Add(q, it[1 .. k], k + 1)
    <3>1. Max(1 .. k + 1) = k + 1 /\ (1 .. k + 1) \ {k + 1} = 1 .. k
      BY LastNumber
    <3>2. 1 .. k + 1 \in SUBSET (1 .. n) /\ 1 .. k + 1 # {}
      <4>1. k + 1 \in 1 .. k + 1 /\ \A i \in 1 .. k + 1 : i \in 1 .. n
        BY <2>2
      <4> QED  BY <4>1
    <3> QED  BY <1>3, <3>1, <3>2
  <2> QED  BY <2>1, <2>2
<1> HIDE DEF Rec
<1>4. ASSUME NEW q, NEW n \in Nat, DOMAIN q = 1 .. n PROVE \E it : Rec(it, q, 1 .. n) /\ Packed(q) = it[1 .. n]
  <2>1. Rec(CHOOSE it : Rec(it, q, DOMAIN q), q, DOMAIN q)
    BY <1>2, <1>4
  <2> QED  BY <1>1, <1>4, <2>1
<1>5. Packed(<< >>) = Empty
  <2>1. PICK it : Rec(it, << >>, 1 .. 0) /\ Packed(<< >>) = it[1 .. 0]
    <3>1. 0 \in Nat /\ DOMAIN << >> = 1 .. 0 /\ Len(<< >>) = 0
      OBVIOUS
    <3> QED  BY <1>4, <3>1
  <2>2. 1 .. 0 = {}
    OBVIOUS
  <2>3. it[{}] = Empty
    <3>1. 0 \in Nat
      OBVIOUS
    <3> QED  BY <1>3, <2>1, <3>1
  <2> QED  BY <2>1, <2>2, <2>3
<1>6. Packed(Append(seq, e)) = AddBlock(Packed(seq), e)
  <2> DEFINE n == Len(seq)
             longer == Append(seq, e)
  <2>1. n \in Nat /\ DOMAIN seq = 1 .. n /\ n + 1 \in Nat /\ DOMAIN longer = 1 .. n + 1 /\ Len(longer) = n + 1
    OBVIOUS
  <2>2. longer[n + 1] = e /\ \A k \in 1 .. n : longer[k] = seq[k]
    OBVIOUS
  <2>3. PICK u : Rec(u, seq, 1 .. n) /\ Packed(seq) = u[1 .. n]
    BY <1>4, <2>1
  <2>4. PICK v : Rec(v, longer, 1 .. n + 1) /\ Packed(longer) = v[1 .. n + 1]
    <3> HIDE DEF longer
    <3> QED  BY <1>4, <2>1
  <2> HIDE DEF n, longer
  <2>5. \A a : \A k \in Nat : k + 1 <= n => Add(longer, a, k + 1) = Add(seq, a, k + 1)
    BY <2>1, <2>2 DEF Add
  <2>6. Add(longer, u[1 .. n], n + 1) = AddBlock(Packed(seq), e)
    BY <2>1, <2>2, <2>3 DEF Add, n
  <2> DEFINE Ns == {k \in Nat : k <= n => v[1 .. k] = u[1 .. k]}
  <2>7. 0 \in Ns
    <3>1. 1 .. 0 = {}
      OBVIOUS
    <3> QED  BY <1>3, <2>1, <2>3, <2>4, <3>1
  <2>8. ASSUME NEW k \in Nat, k \in Ns PROVE k + 1 \in Ns
    <3> SUFFICES ASSUME k + 1 <= n PROVE v[1 .. k + 1] = u[1 .. k + 1]
      BY <2>1
    <3>1. k <= n /\ k + 1 <= n + 1
      BY <2>1
    <3>2. v[1 .. k] = u[1 .. k]
      BY <2>8, <3>1
    <3>3. v[1 .. k + 1] = Add(longer, v[1 .. k], k + 1)
      BY <1>3, <2>1, <2>4, <3>1
    <3>4. u[1 .. k + 1] = Add(seq, u[1 .. k], k + 1)
      <4>1. k + 1 <= n /\ Rec(u, seq, 1 .. n) /\ n \in Nat
        BY <2>1, <2>3
      <4> QED  BY <1>3, <4>1
    <3> QED  BY <2>5, <3>2, <3>3, <3>4
  <2>9. v[1 .. n] = u[1 .. n]
    <3>1. Nat \subseteq Ns
      <4> HIDE DEF Ns
      <4> QED  BY <2>7, <2>8, NumbersOneByOne
    <3> QED  BY <2>1, <3>1
  <2>10. v[1 .. n + 1] = Add(longer, v[1 .. n], n + 1)
    <3>1. n + 1 <= n + 1
      BY <2>1
    <3> QED  BY <1>3, <2>1, <2>4, <3>1
  <2> QED  BY <2>4, <2>6, <2>9, <2>10 DEF longer
<1> QED  BY <1>5, <1>6

-----------------------------------------------------------------------------
(***************************************************************************)
(* Words and their sizes                                                   *)
(***************************************************************************)
Words == Seq(Word)

\* Sequences one after the other are a sequence
LEMMA JoinedIsASequence ==
  ASSUME NEW S, NEW ss \in Seq(Seq(S))
  PROVE  Joined(ss) \in Seq(S)
<1> DEFINE P == {q \in Seq(Seq(S)) : Joined(q) \in Seq(S)}
<1>1. << >> \in P
  <2>1. << >> \in Seq(Seq(S)) /\ << >> \in Seq(S)
    OBVIOUS
  <2>2. Joined(<< >>) = << >>
    BY <2>1, JoinedGrows
  <2> QED  BY <2>1, <2>2
<1>2. ASSUME NEW q \in Seq(Seq(S)), NEW e \in Seq(S), q \in P PROVE Append(q, e) \in P
  <2>1. Joined(Append(q, e)) = Joined(q) \o e
    BY JoinedGrows
  <2>2. Joined(q) \o e \in Seq(S) /\ Append(q, e) \in Seq(Seq(S))
    BY <1>2
  <2> QED  BY <2>1, <2>2
<1> HIDE DEF P
<1>3. Seq(Seq(S)) \subseteq P
  BY <1>1, <1>2, ElementByElement
<1> QED  BY <1>3 DEF P

\* Sequences can be joined in two parts
LEMMA JoinedInTwo ==
  ASSUME NEW S, NEW ss \in Seq(Seq(S)), NEW tt \in Seq(Seq(S))
  PROVE  Joined(ss \o tt) = Joined(ss) \o Joined(tt)
<1> DEFINE P == {q \in Seq(Seq(S)) : Joined(ss \o q) = Joined(ss) \o Joined(q)}
<1>1. << >> \in P
  <2>1. << >> \in Seq(Seq(S)) /\ << >> \in Seq(S) /\ ss \o << >> = ss
    OBVIOUS
  <2>2. Joined(<< >>) = << >>
    BY <2>1, JoinedGrows
  <2>3. Joined(ss) \o << >> = Joined(ss)
    BY JoinedIsASequence, ConcatEmptySeq
  <2> QED  BY <2>1, <2>2, <2>3
<1>2. ASSUME NEW q \in Seq(Seq(S)), NEW e \in Seq(S), q \in P PROVE Append(q, e) \in P
  <2>1. Joined(Append(q, e)) = Joined(q) \o e
    BY JoinedGrows
  <2>2. ss \o Append(q, e) = Append(ss \o q, e) /\ ss \o q \in Seq(Seq(S))
    OBVIOUS
  <2>3. Joined(Append(ss \o q, e)) = Joined(ss \o q) \o e
    BY <2>2, JoinedGrows
  <2>4. (Joined(ss) \o Joined(q)) \o e = Joined(ss) \o (Joined(q) \o e)
    BY JoinedIsASequence, ConcatAssociative
  <2>5. Append(q, e) \in Seq(Seq(S))
    OBVIOUS
  <2> QED  BY <1>2, <2>1, <2>2, <2>3, <2>4, <2>5
<1> HIDE DEF P
<1>3. Seq(Seq(S)) \subseteq P
  BY <1>1, <1>2, ElementByElement
<1> QED  BY <1>3 DEF P

\* One sequence alone is what it was
LEMMA JoinedOne ==
  ASSUME NEW S, NEW s \in Seq(S)
  PROVE  Joined(<<s>>) = s
<1>1. << >> \in Seq(Seq(S)) /\ <<s>> = Append(<< >>, s) /\ << >> \o s = s
  OBVIOUS
<1>2. Joined(Append(<< >>, s)) = Joined(<< >>) \o s /\ Joined(<< >>) = << >>
  BY <1>1, JoinedGrows
<1> QED  BY <1>1, <1>2

\* Something joined to something is something
LEMMA JoinedIsThere ==
  ASSUME NEW S, NEW ss \in Seq(Seq(S)), NEW i \in 1 .. Len(ss), ss[i] # << >>
  PROVE  Joined(ss) # << >>
<1> DEFINE P == {q \in Seq(Seq(S)) : (\E k \in 1 .. Len(q) : q[k] # << >>) => Joined(q) # << >>}
<1>1. << >> \in P
  OBVIOUS
<1>2. ASSUME NEW q \in Seq(Seq(S)), NEW e \in Seq(S), q \in P PROVE Append(q, e) \in P
  <2>1. Joined(Append(q, e)) = Joined(q) \o e /\ Joined(q) \in Seq(S)
    BY JoinedGrows, JoinedIsASequence
  <2>2. Joined(q) \o e = << >> <=> Joined(q) = << >> /\ e = << >>
    BY <2>1, ConcatEqualIffEmpty
  <2>3. Append(q, e) \in Seq(Seq(S)) /\ Len(Append(q, e)) = Len(q) + 1
        /\ \A k \in 1 .. Len(q) + 1 : Append(q, e)[k] = IF k = Len(q) + 1 THEN e ELSE q[k]
    OBVIOUS
  <2>4. SUFFICES ASSUME NEW k \in 1 .. Len(q) + 1, Append(q, e)[k] # << >> PROVE Joined(Append(q, e)) # << >>
    BY <2>3
  <2>5. CASE k = Len(q) + 1
    BY <2>1, <2>2, <2>3, <2>4, <2>5
  <2>6. CASE k # Len(q) + 1
    <3>1. k \in 1 .. Len(q) /\ q[k] # << >>
      BY <2>3, <2>4, <2>6
    <3> QED  BY <1>2, <2>1, <2>2, <3>1
  <2> QED  BY <2>5, <2>6
<1> HIDE DEF P
<1>3. Seq(Seq(S)) \subseteq P
  BY <1>1, <1>2, ElementByElement
<1> QED  BY <1>3 DEF P

\* A sum of numbers is a number
LEMMA SumIsNat ==
  ASSUME NEW ns \in Seq(Nat)
  PROVE  Sum(ns) \in Nat
<1> DEFINE P == {q \in Seq(Nat) : Sum(q) \in Nat}
<1>1. << >> \in P
  <2>1. << >> \in Seq(Nat) /\ 0 \in Nat
    OBVIOUS
  <2> QED  BY <2>1, SumGrows
<1>2. ASSUME NEW q \in Seq(Nat), NEW e \in Nat, q \in P PROVE Append(q, e) \in P
  <2>1. Sum(Append(q, e)) = Sum(q) + e
    BY SumGrows
  <2> QED  BY <1>2, <2>1
<1> HIDE DEF P
<1>3. Seq(Nat) \subseteq P
  BY <1>1, <1>2, ElementByElement
<1> QED  BY <1>3 DEF P

\* The lengths of words sum up to a number
LEMMA LenSumIsNat ==
  ASSUME NEW ws \in Words
  PROVE  LenSum(ws) \in Nat
<1> DEFINE P == {q \in Seq(Word) : LenSum(q) \in Nat}
<1>1. << >> \in P
  <2>1. << >> \in Seq(Word) /\ 0 \in Nat /\ [len |-> 0, stop |-> TRUE] \in Word
    BY DEF Word
  <2> QED  BY <2>1, LenSumGrows
<1>2. ASSUME NEW q \in Seq(Word), NEW e \in Word, q \in P PROVE Append(q, e) \in P
  <2>1. LenSum(Append(q, e)) = LenSum(q) + e.len
    BY LenSumGrows
  <2>2. e.len \in Nat
    BY DEF Word
  <2> QED  BY <1>2, <2>1, <2>2
<1> HIDE DEF P
<1>3. Seq(Word) \subseteq P
  BY <1>1, <1>2, ElementByElement
<1> QED  BY <1>3 DEF P, Words

\* A quotient rounded up is a number
LEMMA RoundedUp == \A n \in Nat, d \in Nat \ {0} : Up(n, d) \in Nat
<1> SUFFICES ASSUME NEW n \in Nat, NEW d \in Nat \ {0} PROVE Up(n, d) \in Nat
  OBVIOUS
<1>1. n + d - 1 \in Nat
  OBVIOUS
<1>2. \A m \in Nat : m \div d \in Nat
  OBVIOUS
<1> QED  BY <1>1, <1>2 DEF Up

\* A text has a number of tokens, and nothing has none
LEMMA TokensAreNat ==
  ASSUME NEW ws \in Words
  PROVE  Tokens(ws) \in Nat /\ (ws = << >> => Tokens(ws) = 0)
<1>1. CASE ws = << >>
  BY <1>1 DEF Tokens
<1>2. CASE ws # << >>
  <2>1. LenSum(ws) \in Nat /\ Len(ws) \in Nat \ {0} /\ TokenChars \in Nat \ {0}
    BY <1>2, LenSumIsNat, TextAssumption DEF Words
  <2>2. LenSum(ws) + Len(ws) - 1 \in Nat
    <3>1. PICK l, n \in Nat : l = LenSum(ws) /\ n = Len(ws) /\ n # 0
      BY <2>1
    <3>2. l \in Nat /\ l + n - 1 \in Nat
      BY <2>1, <3>1
    <3> QED  BY <3>1, <3>2
  <2>3. Up(LenSum(ws) + Len(ws) - 1, TokenChars) \in Nat
    BY <2>1, <2>2, RoundedUp
  <2> QED  BY <1>2, <2>3 DEF Tokens
<1> QED  BY <1>1, <1>2

\* A map over a sequence that grows
LEMMA WordsOfOne ==
  ASSUME NEW U, NEW bs \in Seq(U), NEW b \in U, \A u \in U : u.words \in Words
  PROVE  /\ WordsOf(Append(bs, b)) = WordsOf(bs) \o b.words /\ WordsOf(bs) \in Words
         /\ WordsOf(<< >>) = << >> /\ WordsOf(<<b>>) = b.words
         /\ SizeOf(Append(bs, b)) = SizeOf(bs) + Tokens(b.words) /\ SizeOf(bs) \in Nat
<1> DEFINE ws(q) == [i \in DOMAIN q |-> q[i].words]
           ts(q) == [i \in DOMAIN q |-> Tokens(q[i].words)]
<1>1. ASSUME NEW q \in Seq(U)
      PROVE  /\ ws(q) \in Seq(Words) /\ ws(Append(q, b)) = Append(ws(q), b.words)
             /\ ts(q) \in Seq(Nat) /\ ts(Append(q, b)) = Append(ts(q), Tokens(b.words))
  <2>1. Len(q) \in Nat /\ DOMAIN q = 1 .. Len(q) /\ DOMAIN Append(q, b) = 1 .. Len(q) + 1
        /\ \A i \in 1 .. Len(q) + 1 : Append(q, b)[i] = IF i = Len(q) + 1 THEN b ELSE q[i]
    OBVIOUS
  <2>2. \A u \in U : Tokens(u.words) \in Nat
    BY TokensAreNat
  <2>3. \A i \in 1 .. Len(q) : q[i].words \in Words /\ Tokens(q[i].words) \in Nat
    BY <2>2
  <2>4. ws(q) \in Seq(Words) /\ Len(ws(q)) = Len(q)
    BY <2>1, <2>3
  <2>5. ts(q) \in Seq(Nat) /\ Len(ts(q)) = Len(q)
    BY <2>1, <2>3
  <2>6. ws(Append(q, b)) = Append(ws(q), b.words)
    BY <2>1, <2>4
  <2>7. ts(Append(q, b)) = Append(ts(q), Tokens(b.words))
    BY <2>1, <2>5
  <2> QED  BY <2>4, <2>5, <2>6, <2>7
<1>2. << >> \in Seq(U) /\ <<b>> = Append(<< >>, b) /\ ws(<< >>) = << >>
  OBVIOUS
<1>3. b.words \in Words /\ Tokens(b.words) \in Nat
  BY TokensAreNat
<1>4. \A q : WordsOf(q) = Joined(ws(q)) /\ SizeOf(q) = Sum(ts(q))
  BY DEF WordsOf, SizeOf
<1> HIDE DEF ws, ts
<1>5. \A q \in Seq(U) : WordsOf(Append(q, b)) = WordsOf(q) \o b.words /\ WordsOf(q) \in Words
  BY <1>1, <1>3, <1>4, JoinedGrows, JoinedIsASequence DEF Words
<1>6. SizeOf(Append(bs, b)) = SizeOf(bs) + Tokens(b.words) /\ SizeOf(bs) \in Nat
  BY <1>1, <1>3, <1>4, SumGrows, SumIsNat
<1>7. WordsOf(<< >>) = << >>
  BY <1>2, <1>3, <1>4, JoinedGrows DEF Words
<1>8. WordsOf(<<b>>) = b.words
  <2>1. << >> \o b.words = b.words
    BY <1>3 DEF Words
  <2> QED  BY <1>2, <1>5, <1>7, <2>1
<1> QED  BY <1>5, <1>6, <1>7, <1>8

-----------------------------------------------------------------------------
(***************************************************************************)
(* The turns of a talk                                                     *)
(***************************************************************************)
Turn == Seq(Segment) \ {<< >>}

\* What TalkIsKept says of the turns made of a talk
TurnIsWhole(t) == \A k \in DOMAIN t : t[k].speaker = t[1].speaker
TurnIsShort(t) == Len(t) = 1 \/ Tokens(SpeechOf(t)) <= TurnMaxTokens
TurnsApart(t, u) == t[1].speaker = u[1].speaker => Tokens(SpeechOf(Append(t, u[1]))) > TurnMaxTokens
TurnsKept(ts, said) ==
    /\ ts \in Seq(Turn) /\ Joined(ts) = said
    /\ \A i \in 1 .. Len(ts) : TurnIsWhole(ts[i]) /\ TurnIsShort(ts[i])
    /\ \A i \in 1 .. Len(ts) : i > 1 => TurnsApart(ts[i - 1], ts[i])

\* What is said in a turn is a text
LEMMA SpeechIsText ==
  ASSUME NEW t \in Seq(Segment)
  PROVE  SpeechOf(t) \in Words /\ Tokens(SpeechOf(t)) \in Nat
<1>1. \A i \in DOMAIN t : t[i] \in Segment
  OBVIOUS
<1>2. \A i \in DOMAIN t : t[i].words \in Words
  BY <1>1, TextAssumption DEF Words
<1>3. [i \in DOMAIN t |-> t[i].words] \in Seq(Words)
  <2>1. Len(t) \in Nat /\ DOMAIN t = 1 .. Len(t)
    OBVIOUS
  <2> QED  BY <1>2, <2>1
<1>4. SpeechOf(t) \in Words
  BY <1>3, JoinedIsASequence DEF SpeechOf, Words
<1> QED  BY <1>4, TokensAreNat

\* A turn of its own
LEMMA ATurnBegins ==
  ASSUME NEW said \in Seq(Segment), NEW e \in Segment, NEW ts, TurnsKept(ts, said), ~SameTurn(ts, e)
  PROVE  TurnsKept(AddSegment(ts, e), Append(said, e))
<1> DEFINE longer == Append(ts, <<e>>)
<1>1. AddSegment(ts, e) = longer
  BY DEF AddSegment
<1>2. ts \in Seq(Turn) /\ <<e>> \in Turn /\ <<e>> \in Seq(Segment) /\ ts \in Seq(Seq(Segment)) /\ Joined(ts) = said
  BY DEF TurnsKept, Turn
<1>3. /\ longer \in Seq(Turn) /\ Len(longer) = Len(ts) + 1 /\ Len(ts) \in Nat
      /\ \A i \in 1 .. Len(ts) : longer[i] = ts[i]
      /\ longer[Len(ts) + 1] = <<e>>
  BY <1>2
<1>4. Joined(longer) = Append(said, e)
  <2>1. Joined(longer) = said \o <<e>>
    BY <1>2, JoinedGrows
  <2> QED  BY <2>1
<1>5. TurnIsWhole(<<e>>) /\ TurnIsShort(<<e>>)
  BY DEF TurnIsWhole, TurnIsShort
<1>6. ASSUME Len(ts) + 1 > 1 PROVE TurnsApart(ts[Len(ts)], <<e>>)
  <2> DEFINE t == ts[Len(ts)]
  <2>1. t \in Turn /\ ts # << >> /\ TurnIsWhole(t)
    BY <1>2, <1>3, <1>6 DEF TurnsKept
  <2>2. Len(t) \in Nat \ {0} /\ t \in Seq(Segment) /\ DOMAIN t = 1 .. Len(t)
    BY <2>1 DEF Turn
  <2>3. t[Len(t)].speaker = t[1].speaker
    BY <2>1, <2>2 DEF TurnIsWhole
  <2>4. t[Len(t)].speaker # e.speaker \/ ~(Tokens(SpeechOf(Append(t, e))) <= TurnMaxTokens)
    BY <2>1 DEF SameTurn, Last
  <2>5. Tokens(SpeechOf(Append(t, e))) \in Nat /\ TurnMaxTokens \in Nat
    <3>1. Append(t, e) \in Seq(Segment)
      BY <2>2
    <3> QED  BY <3>1, SpeechIsText, TextAssumption
  <2>6. <<e>>[1] = e
    OBVIOUS
  <2> QED  BY <2>3, <2>4, <2>5, <2>6 DEF TurnsApart
<1> HIDE DEF longer
<1>7. ASSUME NEW i \in 1 .. Len(longer) PROVE TurnIsWhole(longer[i]) /\ TurnIsShort(longer[i])
  <2>1. CASE i = Len(ts) + 1
    BY <1>3, <1>5, <2>1
  <2>2. CASE i # Len(ts) + 1
    <3>1. i \in 1 .. Len(ts)
      BY <1>3, <2>2
    <3>2. TurnIsWhole(ts[i]) /\ TurnIsShort(ts[i])
      BY <3>1 DEF TurnsKept
    <3> QED  BY <1>3, <3>1, <3>2
  <2> QED  BY <2>1, <2>2
<1>8. ASSUME NEW i \in 1 .. Len(longer), i > 1 PROVE TurnsApart(longer[i - 1], longer[i])
  <2>1. CASE i = Len(ts) + 1
    <3>1. i - 1 \in 1 .. Len(ts) /\ i - 1 = Len(ts)
      BY <1>3, <1>8, <2>1
    <3> QED  BY <1>3, <1>6, <1>8, <2>1, <3>1
  <2>2. CASE i # Len(ts) + 1
    <3>1. i \in 1 .. Len(ts) /\ i - 1 \in 1 .. Len(ts)
      BY <1>3, <1>8, <2>2
    <3> QED  BY <1>3, <1>8, <3>1 DEF TurnsKept
  <2> QED  BY <2>1, <2>2
<1> QED  BY <1>1, <1>3, <1>4, <1>7, <1>8 DEF TurnsKept

\* A turn that goes on
LEMMA ATurnGoesOn ==
  ASSUME NEW said \in Seq(Segment), NEW e \in Segment, NEW ts, TurnsKept(ts, said), SameTurn(ts, e)
  PROVE  TurnsKept(AddSegment(ts, e), Append(said, e))
<1> DEFINE t == ts[Len(ts)]
           front == SubSeq(ts, 1, Len(ts) - 1)
           new == Append(front, Append(t, e))
<1>1. ts # << >> /\ ts \in Seq(Turn) /\ Joined(ts) = said
  BY DEF SameTurn, TurnsKept
<1>2. /\ ts = Append(front, t) /\ front \in Seq(Turn) /\ t \in Turn
      /\ AddSegment(ts, e) = new
  <2>1. \A S : \A s \in Seq(S) : s # << >> => \A x :
          /\ s = Append(SubSeq(s, 1, Len(s) - 1), s[Len(s)]) /\ SubSeq(s, 1, Len(s) - 1) \in Seq(S) /\ s[Len(s)] \in S
          /\ [s EXCEPT ![Len(s)] = x] = Append(SubSeq(s, 1, Len(s) - 1), x)
    BY LastReplaced
  <2>2. \A x : /\ ts = Append(SubSeq(ts, 1, Len(ts) - 1), ts[Len(ts)])
              /\ SubSeq(ts, 1, Len(ts) - 1) \in Seq(Turn) /\ ts[Len(ts)] \in Turn
              /\ [ts EXCEPT ![Len(ts)] = x] = Append(SubSeq(ts, 1, Len(ts) - 1), x)
    <3> HIDE DEF t, front
    <3> QED  BY <1>1, <2>1, Zenon
  <2>3. [ts EXCEPT ![Len(ts)] = Append(t, e)] = Append(SubSeq(ts, 1, Len(ts) - 1), Append(t, e))
    BY <2>2, Zenon
  <2>4. AddSegment(ts, e) = [ts EXCEPT ![Len(ts)] = Append(t, e)]
    BY DEF AddSegment
  <2>5. ts = Append(front, t) /\ front \in Seq(Turn) /\ t \in Turn
    BY <2>2, Zenon
  <2> QED  BY <2>3, <2>4, <2>5
<1> HIDE DEF front, t
<1>3. Len(t) \in Nat \ {0} /\ t \in Seq(Segment) /\ Append(t, e) \in Turn /\ DOMAIN t = 1 .. Len(t)
  <2>1. t \in Turn
    BY <1>2
  <2>2. t \in Seq(Segment) /\ t # << >>
    BY <2>1 DEF Turn
  <2> HIDE DEF t
  <2>3. Len(t) \in Nat \ {0} /\ Append(t, e) \in Seq(Segment) /\ Append(t, e) # << >> /\ DOMAIN t = 1 .. Len(t)
    BY <2>2
  <2> QED  BY <2>2, <2>3 DEF Turn
<1>4. /\ new \in Seq(Turn) /\ Len(front) \in Nat /\ Len(new) = Len(front) + 1 /\ Len(ts) = Len(front) + 1
      /\ \A i \in 1 .. Len(front) : new[i] = front[i] /\ ts[i] = front[i]
      /\ ts[Len(front) + 1] = t /\ new[Len(front) + 1] = Append(t, e)
  BY <1>2, <1>3
<1>5. Joined(new) = Append(said, e)
  <2>1. front \in Seq(Seq(Segment)) /\ Append(t, e) \in Seq(Segment) /\ Append(t, e) = t \o <<e>> /\ <<e>> \in Seq(Segment)
    <3>1. Turn \subseteq Seq(Segment)
      BY DEF Turn
    <3>2. front \in Seq(Seq(Segment))
      BY <1>2, <3>1, SeqMonotonic
    <3>3. Append(t, e) \in Seq(Segment) /\ Append(t, e) = t \o <<e>> /\ <<e>> \in Seq(Segment)
      BY <1>3, AppendIsConcat
    <3> QED  BY <3>2, <3>3
  <2>2. Joined(new) = Joined(front) \o (t \o <<e>>) /\ Joined(ts) = Joined(front) \o t /\ Joined(front) \in Seq(Segment)
    BY <1>2, <1>3, <2>1, JoinedGrows, JoinedIsASequence
  <2>3. (Joined(front) \o t) \o <<e>> = Joined(front) \o (t \o <<e>>)
    <3>1. \A a, b, c \in Seq(Segment) : (a \o b) \o c = a \o (b \o c)
      BY ConcatAssociative
    <3>2. Joined(front) \in Seq(Segment) /\ t \in Seq(Segment) /\ <<e>> \in Seq(Segment)
      BY <1>3, <2>1, <2>2
    <3> QED  BY <3>1, <3>2, Zenon
  <2>4. Append(said, e) = said \o <<e>>
    BY AppendIsConcat
  <2> QED  BY <1>1, <2>2, <2>3, <2>4
<1>6. t[Len(t)].speaker = e.speaker /\ Tokens(SpeechOf(Append(t, e))) <= TurnMaxTokens
  BY DEF SameTurn, Last, t
<1>7. TurnIsWhole(t)
  BY <1>4 DEF TurnsKept
<1>8. Append(t, e)[1] = t[1] /\ TurnIsWhole(Append(t, e)) /\ TurnIsShort(Append(t, e))
  <2>1. \A k \in 1 .. Len(t) : t[k].speaker = t[1].speaker
    BY <1>3, <1>7 DEF TurnIsWhole
  <2>2. /\ DOMAIN Append(t, e) = 1 .. Len(t) + 1 /\ \A k \in 1 .. Len(t) : Append(t, e)[k] = t[k]
        /\ Append(t, e)[Len(t) + 1] = e
    BY <1>3
  <2>3. \A k \in 1 .. Len(t) + 1 : Append(t, e)[k].speaker = t[1].speaker
    BY <1>3, <1>6, <2>1, <2>2
  <2> QED  BY <1>3, <1>6, <2>2, <2>3 DEF TurnIsWhole, TurnIsShort
<1> HIDE DEF new
<1>9. ASSUME NEW i \in 1 .. Len(new)
      PROVE  TurnIsWhole(new[i]) /\ TurnIsShort(new[i]) /\ (i > 1 => TurnsApart(new[i - 1], new[i]))
  <2>1. i \in 1 .. Len(ts)
    BY <1>4
  <2>2. TurnIsWhole(ts[i]) /\ TurnIsShort(ts[i]) /\ (i > 1 => TurnsApart(ts[i - 1], ts[i]))
    BY <2>1 DEF TurnsKept
  <2>3. i > 1 => new[i - 1] = ts[i - 1]
    <3>1. i > 1 => i - 1 \in 1 .. Len(front)
      BY <1>4
    <3> QED  BY <1>4, <3>1
  <2>4. new[i][1] = ts[i][1] /\ TurnIsWhole(new[i]) /\ TurnIsShort(new[i])
    <3>1. CASE i = Len(front) + 1
      BY <1>4, <1>8, <3>1
    <3>2. CASE i # Len(front) + 1
      <4>1. i \in 1 .. Len(front)
        BY <1>4, <3>2
      <4>2. new[i] = ts[i]
        BY <1>4, <4>1
      <4> QED  BY <2>2, <4>2
    <3> QED  BY <3>1, <3>2
  <2> QED  BY <2>2, <2>3, <2>4 DEF TurnsApart
<1> QED  BY <1>2, <1>4, <1>5, <1>9 DEF TurnsKept

\* The turns of any talk are its segments, and are cut as TalkIsKept says
LEMMA TurnsAreKept ==
  ASSUME NEW said \in Seq(Segment)
  PROVE  TurnsKept(GroupTurns(said), said)
<1> DEFINE P == {q \in Seq(Segment) : TurnsKept(GroupTurns(q), q)}
<1>1. << >> \in P
  <2>1. << >> \in Seq(Segment) /\ << >> \in Seq(Seq(Segment)) /\ << >> \in Seq(Turn) /\ Len(<< >>) = 0 /\ 1 .. 0 = {}
    OBVIOUS
  <2>2. GroupTurns(<< >>) = << >>
    <3>1. CASE Segment = {}
      <4>1. << >> \in Seq({0}) /\ 0 \in {0}
        OBVIOUS
      <4> QED  BY <4>1, TurnsGrows
    <3>2. CASE Segment # {}
      BY <2>1, <3>2, TurnsGrows
    <3> QED  BY <3>1, <3>2
  <2>3. Joined(<< >>) = << >>
    BY <2>1, JoinedGrows
  <2> QED  BY <2>1, <2>2, <2>3 DEF TurnsKept
<1>2. ASSUME NEW q \in Seq(Segment), NEW e \in Segment, q \in P PROVE Append(q, e) \in P
  <2>1. TurnsKept(GroupTurns(q), q)
    BY <1>2
  <2>2. TurnsKept(AddSegment(GroupTurns(q), e), Append(q, e))
    BY <2>1, ATurnBegins, ATurnGoesOn
  <2>3. GroupTurns(Append(q, e)) = AddSegment(GroupTurns(q), e) /\ Append(q, e) \in Seq(Segment)
    BY TurnsGrows
  <2> QED  BY <2>2, <2>3
<1> HIDE DEF P
<1>3. Seq(Segment) \subseteq P
  BY <1>1, <1>2, ElementByElement
<1> QED  BY <1>3 DEF P

\* So are those of the talk that was heard
LEMMA TalkStaysWhole ==
  ASSUME talk \in Seq(Segment)
  PROVE  TalkIsKept
<1> DEFINE ts == GroupTurns(talk)
<1>1. TurnsKept(ts, talk)
  BY TurnsAreKept
<1> HIDE DEF ts
<1>2. Joined(ts) = talk /\ DOMAIN ts = 1 .. Len(ts)
  BY <1>1 DEF TurnsKept
<1>3. ASSUME NEW i \in DOMAIN ts
      PROVE  /\ \A k \in DOMAIN ts[i] : ts[i][k].speaker = ts[i][1].speaker
             /\ Len(ts[i]) = 1 \/ Tokens(SpeechOf(ts[i])) <= TurnMaxTokens
             /\ i > 1 /\ ts[i - 1][1].speaker = ts[i][1].speaker
                   => Tokens(SpeechOf(Append(ts[i - 1], ts[i][1]))) > TurnMaxTokens
  BY <1>1, <1>2 DEF TurnsKept, TurnIsWhole, TurnIsShort, TurnsApart
<1> QED  BY <1>2, <1>3 DEF TalkIsKept, ts

-----------------------------------------------------------------------------
(***************************************************************************)
(* Sentences, and what a passage repeats of the one before it              *)
(***************************************************************************)
Sentence == Words \ {<< >>}

\* The last of some nonempty sequences grows by one element, and with it what they are together
LEMMA TheLastOneGrows ==
  ASSUME NEW S, NEW ss \in Seq(Seq(S) \ {<< >>}), ss # << >>, NEW e \in S
  PROVE  /\ [ss EXCEPT ![Len(ss)] = Append(ss[Len(ss)], e)] \in Seq(Seq(S) \ {<< >>})
         /\ Joined([ss EXCEPT ![Len(ss)] = Append(ss[Len(ss)], e)]) = Joined(ss) \o <<e>>
<1>1. PICK T : T = Seq(S) \ {<< >>}
  OBVIOUS
<1>2. PICK front, t : front = SubSeq(ss, 1, Len(ss) - 1) /\ t = ss[Len(ss)]
  OBVIOUS
<1>3. \A U : \A s \in Seq(U) : s # << >> => \A x :
        /\ s = Append(SubSeq(s, 1, Len(s) - 1), s[Len(s)]) /\ SubSeq(s, 1, Len(s) - 1) \in Seq(U) /\ s[Len(s)] \in U
        /\ [s EXCEPT ![Len(s)] = x] = Append(SubSeq(s, 1, Len(s) - 1), x)
  BY LastReplaced
<1>4. ss \in Seq(T)
  BY <1>1
<1>5. ss = Append(front, t) /\ front \in Seq(T) /\ t \in T
      /\ [ss EXCEPT ![Len(ss)] = Append(t, e)] = Append(front, Append(t, e))
  <2>1. \A x : /\ ss = Append(SubSeq(ss, 1, Len(ss) - 1), ss[Len(ss)]) /\ SubSeq(ss, 1, Len(ss) - 1) \in Seq(T)
              /\ ss[Len(ss)] \in T /\ [ss EXCEPT ![Len(ss)] = x] = Append(SubSeq(ss, 1, Len(ss) - 1), x)
    BY <1>3, <1>4, Zenon
  <2>2. \A x : /\ ss = Append(front, t) /\ front \in Seq(T) /\ t \in T
              /\ [ss EXCEPT ![Len(ss)] = x] = Append(front, x)
    BY <1>2, <2>1, Zenon
  <2> QED  BY <2>2, Zenon
<1>6. t \in Seq(S) /\ t # << >>
  BY <1>1, <1>5
<1>7. Append(t, e) \in Seq(S) /\ Append(t, e) # << >> /\ Append(t, e) = t \o <<e>> /\ <<e>> \in Seq(S)
  BY <1>6, AppendProperties, AppendIsConcat
<1>8. Append(t, e) \in T
  BY <1>1, <1>7
<1>9. Append(front, Append(t, e)) \in Seq(T)
  BY <1>5, <1>8, AppendProperties
<1>10. front \in Seq(Seq(S))
  <2>1. T \subseteq Seq(S)
    BY <1>1
  <2> QED  BY <1>5, <2>1, SeqMonotonic
<1>11. Joined(Append(front, Append(t, e))) = Joined(front) \o (t \o <<e>>)
       /\ Joined(Append(front, t)) = Joined(front) \o t /\ Joined(front) \in Seq(S)
  BY <1>6, <1>7, <1>10, JoinedGrows, JoinedIsASequence
<1>12. (Joined(front) \o t) \o <<e>> = Joined(front) \o (t \o <<e>>)
  <2>1. \A a, b, c \in Seq(S) : (a \o b) \o c = a \o (b \o c)
    BY ConcatAssociative
  <2> QED  BY <1>6, <1>7, <1>11, <2>1, Zenon
<1> QED  BY <1>1, <1>2, <1>5, <1>9, <1>11, <1>12

\* A word goes on with the last sentence or begins one
LEMMA AWordIsAdded ==
  ASSUME NEW ss \in Seq(Sentence), NEW w \in Word
  PROVE  AddToSentences(ss, w) \in Seq(Sentence) /\ Joined(AddToSentences(ss, w)) = Joined(ss) \o <<w>>
<1>1. Sentence = Seq(Word) \ {<< >>}
  BY DEF Sentence, Words
<1>2. CASE ss = << >> \/ Last(Last(ss)).stop
  <2>1. AddToSentences(ss, w) = Append(ss, <<w>>)
    BY <1>2 DEF AddToSentences
  <2>2. <<w>> \in Seq(Word) /\ <<w>> # << >>
    OBVIOUS
  <2>3. ss \in Seq(Seq(Word))
    <3>1. Sentence \subseteq Seq(Word)
      BY <1>1
    <3> QED  BY <3>1, SeqMonotonic
  <2>4. Joined(Append(ss, <<w>>)) = Joined(ss) \o <<w>>
    BY <2>2, <2>3, JoinedGrows
  <2>5. <<w>> \in Sentence
    BY <1>1, <2>2
  <2> QED  BY <2>1, <2>4, <2>5, AppendProperties
<1>3. CASE ~(ss = << >> \/ Last(Last(ss)).stop)
  <2>1. ss # << >> /\ AddToSentences(ss, w) = [ss EXCEPT ![Len(ss)] = Append(ss[Len(ss)], w)]
    BY <1>3 DEF AddToSentences
  <2>2. ss \in Seq(Seq(Word) \ {<< >>})
    BY <1>1
  <2> QED  BY <1>1, <2>1, <2>2, TheLastOneGrows
<1> QED  BY <1>2, <1>3

\* The sentences of a text are the text
LEMMA SentencesOfAText ==
  ASSUME NEW ws \in Words
  PROVE  Sentences(ws) \in Seq(Sentence) /\ Joined(Sentences(ws)) = ws
<1> DEFINE P == {q \in Seq(Word) : Sentences(q) \in Seq(Sentence) /\ Joined(Sentences(q)) = q}
<1>1. << >> \in P
  <2>1. [len |-> 0, stop |-> TRUE] \in Word /\ << >> \in Seq(Word) /\ << >> \in Seq(Seq(Word)) /\ << >> \in Seq(Sentence)
    BY DEF Word
  <2>2. Sentences(<< >>) = << >>
    BY <2>1, SentencesGrows
  <2>3. Joined(<< >>) = << >>
    BY <2>1, JoinedGrows
  <2> QED  BY <2>1, <2>2, <2>3
<1>2. ASSUME NEW q \in Seq(Word), NEW e \in Word, q \in P PROVE Append(q, e) \in P
  <2>1. Sentences(Append(q, e)) = AddToSentences(Sentences(q), e)
    BY SentencesGrows
  <2>2. Sentences(q) \in Seq(Sentence) /\ Joined(Sentences(q)) = q
    BY <1>2
  <2>3. AddToSentences(Sentences(q), e) \in Seq(Sentence) /\ Joined(AddToSentences(Sentences(q), e)) = q \o <<e>>
    BY <2>2, AWordIsAdded
  <2>4. Append(q, e) \in Seq(Word) /\ Append(q, e) = q \o <<e>>
    OBVIOUS
  <2> QED  BY <2>1, <2>3, <2>4
<1> HIDE DEF P
<1>3. Seq(Word) \subseteq P
  BY <1>1, <1>2, ElementByElement
<1> QED  BY <1>3 DEF P, Words

\* What comes after something is a suffix of both
LEMMA TheEndOfAText ==
  ASSUME NEW S, NEW a \in Seq(S), NEW b \in Seq(S)
  PROVE  IsSuffix(b, a \o b)
<1>1. PICK m, n \in Nat : m = Len(a) /\ n = Len(b)
  OBVIOUS
<1>2. PICK c : c = a \o b
  OBVIOUS
<1>3. c \in Seq(S) /\ Len(c) = m + n /\ \A i \in 1 .. m + n : c[i] = IF i <= m THEN a[i] ELSE b[i - m]
  BY <1>1, <1>2, ConcatProperties
<1>4. PICK rb, rc : rb = Reverse(b) /\ rc = Reverse(c)
  OBVIOUS
<1>5. rb = [i \in 1 .. n |-> b[(n - i) + 1]] /\ rc = [i \in 1 .. m + n |-> c[((m + n) - i) + 1]]
  BY <1>1, <1>3, <1>4 DEF Reverse
<1>6. rb \in Seq(S) /\ Len(rb) = n
  <2>1. \A i \in 1 .. n : b[(n - i) + 1] \in S
    <3>1. \A i \in 1 .. n : (n - i) + 1 \in 1 .. n
      OBVIOUS
    <3> QED  BY <1>1, <3>1
  <2> QED  BY <1>5, <2>1
<1>7. rc \in Seq(S) /\ Len(rc) = m + n
  <2>1. \A i \in 1 .. m + n : c[((m + n) - i) + 1] \in S
    <3>1. \A i \in 1 .. m + n : ((m + n) - i) + 1 \in 1 .. m + n
      OBVIOUS
    <3> QED  BY <1>3, <3>1
  <2>2. m + n \in Nat
    OBVIOUS
  <2> QED  BY <1>5, <2>1, <2>2
<1>8. \A i \in 1 .. n : rb[i] = rc[i]
  <2> SUFFICES ASSUME NEW i \in 1 .. n PROVE rb[i] = rc[i]
    OBVIOUS
  <2>1. i \in 1 .. m + n /\ ((m + n) - i) + 1 \in 1 .. m + n /\ ~(((m + n) - i) + 1 <= m)
        /\ (((m + n) - i) + 1) - m = (n - i) + 1
    OBVIOUS
  <2>2. rc[i] = b[(((m + n) - i) + 1) - m]
    BY <1>3, <1>5, <2>1
  <2> QED  BY <1>5, <2>1, <2>2
<1>9. SubSeq(rb, 1, n) = SubSeq(rc, 1, n)
  <2>1. SubSeq(rb, 1, n) \in Seq(S) /\ Len(SubSeq(rb, 1, n)) = n /\ \A i \in 1 .. n : SubSeq(rb, 1, n)[i] = rb[i]
    BY <1>6
  <2>2. SubSeq(rc, 1, n) \in Seq(S) /\ Len(SubSeq(rc, 1, n)) = n /\ \A i \in 1 .. n : SubSeq(rc, 1, n)[i] = rc[i]
    BY <1>7
  <2> QED  BY <1>8, <2>1, <2>2, SeqEqual
<1>10. n <= m + n
  OBVIOUS
<1>11. IsPrefix(rb, rc)
  BY <1>6, <1>7, <1>9, <1>10 DEF IsPrefix
<1> QED  BY <1>2, <1>4, <1>11 DEF IsSuffix

\* A text in two at a number
LEMMA InTwoAt ==
  ASSUME NEW S, NEW s \in Seq(S), NEW n \in Nat, n <= Len(s)
  PROVE  /\ SubSeq(s, 1, n) \in Seq(S) /\ SubSeq(s, n + 1, Len(s)) \in Seq(S)
         /\ s = SubSeq(s, 1, n) \o SubSeq(s, n + 1, Len(s))
         /\ Len(SubSeq(s, n + 1, Len(s))) = Len(s) - n
         /\ n < Len(s) => SubSeq(s, n + 1, Len(s))[1] = s[n + 1]
<1>1. PICK m \in Nat : m = Len(s)
  OBVIOUS
<1>2. PICK a, b : a = SubSeq(s, 1, n) /\ b = SubSeq(s, n + 1, m)
  OBVIOUS
<1>3. a \in Seq(S) /\ Len(a) = n /\ \A i \in 1 .. n : a[i] = s[i]
  BY <1>1, <1>2
<1>4. b \in Seq(S) /\ Len(b) = m - n /\ \A i \in 1 .. m - n : b[i] = s[n + i]
  <2>1. \A i \in n + 1 .. m : s[i] \in S
    BY <1>1
  <2>2. /\ SubSeq(s, n + 1, m) \in Seq(S) /\ Len(SubSeq(s, n + 1, m)) = IF n + 1 <= m THEN m - (n + 1) + 1 ELSE 0
        /\ \A i \in 1 .. m - (n + 1) + 1 : SubSeq(s, n + 1, m)[i] = s[n + 1 + i - 1]
    BY <2>1, SubSeqProperties
  <2>3. m - (n + 1) + 1 = m - n /\ (n + 1 <= m \/ m - n = 0) /\ \A i \in 1 .. m - n : n + 1 + i - 1 = n + i
    BY <1>1
  <2> QED  BY <1>2, <2>2, <2>3
<1>5. a \o b = s
  <2>1. a \o b \in Seq(S) /\ Len(a \o b) = m /\ \A i \in 1 .. m : (a \o b)[i] = IF i <= n THEN a[i] ELSE b[i - n]
    <3>1. PICK k \in Nat : k = Len(b) /\ n + k = m
      BY <1>1, <1>4
    <3>2. a \o b \in Seq(S) /\ Len(a \o b) = n + k /\ \A i \in 1 .. n + k : (a \o b)[i] = IF i <= n THEN a[i] ELSE b[i - n]
      <4>1. a \in Seq(S) /\ b \in Seq(S) /\ Len(a) = n /\ Len(b) = k
        BY <1>3, <1>4, <3>1
      <4>2. \A x, y \in Seq(S) : /\ x \o y \in Seq(S) /\ Len(x \o y) = Len(x) + Len(y)
                                /\ \A i \in 1 .. Len(x) + Len(y) : (x \o y)[i] = IF i <= Len(x) THEN x[i] ELSE y[i - Len(x)]
        BY ConcatProperties
      <4>3. /\ a \o b \in Seq(S) /\ Len(a \o b) = Len(a) + Len(b)
            /\ \A i \in 1 .. Len(a) + Len(b) : (a \o b)[i] = IF i <= Len(a) THEN a[i] ELSE b[i - Len(a)]
        BY <4>1, <4>2, Zenon
      <4> QED  BY <4>1, <4>3, Zenon
    <3> QED  BY <3>1, <3>2
  <2>2. \A i \in 1 .. m : (a \o b)[i] = s[i]
    <3> SUFFICES ASSUME NEW i \in 1 .. m PROVE (a \o b)[i] = s[i]
      OBVIOUS
    <3>1. CASE i <= n
      BY <1>3, <2>1, <3>1
    <3>2. CASE ~(i <= n)
      <4>1. i - n \in 1 .. m - n /\ n + (i - n) = i
        BY <3>2
      <4> QED  BY <1>4, <2>1, <3>2, <4>1
    <3> QED  BY <3>1, <3>2
  <2> QED  BY <1>1, <2>1, <2>2, SeqEqual
<1>6. n < m => b[1] = s[n + 1]
  <2>1. n < m => 1 \in 1 .. m - n
    BY <1>1
  <2> QED  BY <1>4, <2>1
<1> QED  BY <1>1, <1>2, <1>3, <1>4, <1>5, <1>6

\* A set of numbers has a least one
LEMMA TheLeastNumber ==
  ASSUME NEW D, D \subseteq Nat, D # {}
  PROVE  \E n \in D : \A k \in D : n <= k
<1> DEFINE R == OpToRel(<, Nat)
<1>1. PICK n \in D : \A k \in D : ~(<<k, n>> \in R)
  <2>1. IsWellFoundedOn(R, Nat)
    BY NatLessThanWellFounded
  <2> HIDE DEF R
  <2> QED  BY <2>1, WFMin
<1>2. ASSUME NEW k \in D PROVE n <= k
  <2>1. k \in Nat /\ n \in Nat
    OBVIOUS
  <2>2. CASE k < n
    <3>1. <<k, n>> \in R
      BY <2>1, <2>2 DEF OpToRel
    <3> HIDE DEF R
    <3> QED  BY <1>1, <3>1
  <2> HIDE DEF R
  <2> QED  BY <2>1, <2>2
<1> QED  BY <1>1, <1>2

\* What is repeated is the end of the passage before, and something where anything may be repeated
LEMMA TheEndIsRepeated ==
  ASSUME NEW ws \in Sentence
  PROVE  /\ RepeatedEnd(ws) \in Words /\ IsSuffix(RepeatedEnd(ws), ws)
         /\ OverlapTokens > 0 => RepeatedEnd(ws) # << >>
<1> DEFINE ss == Sentences(ws)
           fits == {n \in 0..Len(ss) : Tokens(Joined(SubSeq(ss, n + 1, Len(ss)))) <= OverlapTokens}
           first == CHOOSE n \in fits : \A k \in fits : n <= k
           many == IF (OverlapTokens * 3) \div 4 > 1 THEN (OverlapTokens * 3) \div 4 ELSE 1
           start == IF Len(ws) > many THEN Len(ws) - many + 1 ELSE 1
<1>1. OverlapTokens \in Nat /\ many \in Nat \ {0}
  <2>1. \A n \in Nat : (n * 15) \div 100 \in Nat /\ (n * 3) \div 4 \in Nat
    OBVIOUS
  <2>2. OverlapTokens \in Nat
    BY <2>1, TextAssumption DEF OverlapTokens
  <2>3. (OverlapTokens * 3) \div 4 \in Nat
    BY <2>1, <2>2
  <2> QED  BY <2>2, <2>3
<1>2. ws \in Seq(Word) /\ ws # << >> /\ ws \in Words
  BY DEF Sentence, Words
<1>3. ss \in Seq(Sentence) /\ Joined(ss) = ws /\ ss \in Seq(Seq(Word))
  <2>1. ss \in Seq(Sentence) /\ Joined(ss) = ws
    BY <1>2, SentencesOfAText
  <2>2. Sentence \subseteq Seq(Word)
    BY DEF Sentence, Words
  <2> HIDE DEF ss
  <2> QED  BY <2>1, <2>2, SeqMonotonic
<1>4. RepeatedEnd(ws) = CASE OverlapTokens <= 0 -> << >>
                          [] OverlapTokens > 0 /\ first < Len(ss) -> Joined(SubSeq(ss, first + 1, Len(ss)))
                          [] OTHER -> SubSeq(ws, start, Len(ws))
  BY DEF RepeatedEnd
<1> HIDE DEF ss, many, start
<1>5. first \in Nat /\ first <= Len(ss)
  <2>1. Len(ss) \in Nat /\ SubSeq(ss, Len(ss) + 1, Len(ss)) = << >>
    <3>1. PICK n \in Nat : n = Len(ss)
      BY <1>3
    <3>2. SubSeq(ss, n + 1, n) = << >>
      BY SubSeqEmpty
    <3> QED  BY <3>1, <3>2
  <2>2. Tokens(<< >>) = 0 /\ Joined(<< >>) = << >>
    <3>1. << >> \in Words /\ << >> \in Seq(Seq(Word)) /\ << >> \in Seq(Word)
      BY DEF Words
    <3> QED  BY <3>1, JoinedGrows, TokensAreNat
  <2>3. Len(ss) \in fits
    <3>1. PICK n \in Nat : n = Len(ss)
      BY <2>1
    <3>2. Tokens(Joined(SubSeq(ss, n + 1, n))) = 0
      BY <2>1, <2>2, <3>1
    <3>3. n \in 0 .. n /\ Tokens(Joined(SubSeq(ss, n + 1, n))) <= OverlapTokens
      BY <1>1, <3>2
    <3> QED  BY <3>1, <3>3
  <2>4. fits \subseteq Nat /\ fits # {} /\ \A n \in fits : n <= Len(ss)
    BY <2>1, <2>3
  <2> HIDE DEF fits
  <2>5. \E n \in fits : \A k \in fits : n <= k
    BY <2>4, TheLeastNumber
  <2>6. first \in fits
    BY <2>5
  <2> QED  BY <2>4, <2>6
<1> HIDE DEF first, fits
<1>6. CASE OverlapTokens <= 0
  <2>1. RepeatedEnd(ws) = << >>
    <3>1. ~(OverlapTokens > 0)
      BY <1>1, <1>6
    <3> QED  BY <1>4, <1>6, <3>1
  <2>2. << >> \in Seq(Word) /\ ws \o << >> = ws
    BY <1>2
  <2>3. IsSuffix(<< >>, ws \o << >>)
    BY <1>2, <2>2, TheEndOfAText
  <2> QED  BY <1>1, <1>6, <2>1, <2>2, <2>3 DEF Words
<1>7. CASE OverlapTokens > 0 /\ first < Len(ss)
  <2>1. PICK a, b : a = SubSeq(ss, 1, first) /\ b = SubSeq(ss, first + 1, Len(ss))
    OBVIOUS
  <2>2. RepeatedEnd(ws) = Joined(b)
    BY <1>1, <1>4, <1>7, <2>1
  <2>3. a \in Seq(Seq(Word)) /\ b \in Seq(Seq(Word)) /\ ss = a \o b /\ b[1] = ss[first + 1] /\ Len(b) = Len(ss) - first
    BY <1>3, <1>5, <1>7, <2>1, InTwoAt
  <2>4. ws = Joined(a) \o Joined(b) /\ Joined(a) \in Seq(Word) /\ Joined(b) \in Seq(Word)
    BY <1>3, <2>3, JoinedInTwo, JoinedIsASequence
  <2>5. IsSuffix(Joined(b), Joined(a) \o Joined(b))
    BY <2>4, TheEndOfAText
  <2>6. Joined(b) # << >>
    <3>1. first + 1 \in 1 .. Len(ss) /\ 1 \in 1 .. Len(b)
      <4>1. PICK n \in Nat : n = Len(ss)
        BY <1>3
      <4> QED  BY <1>5, <1>7, <2>3, <4>1
    <3>2. ss[first + 1] \in Sentence
      BY <1>3, <3>1, ElementOfSeq
    <3>3. b[1] # << >>
      BY <2>3, <3>2 DEF Sentence
    <3> QED  BY <2>3, <3>1, <3>3, JoinedIsThere
  <2> QED  BY <2>2, <2>4, <2>5, <2>6 DEF Words
<1>8. CASE OverlapTokens > 0 /\ ~(first < Len(ss))
  <2>1. RepeatedEnd(ws) = SubSeq(ws, start, Len(ws))
    <3>1. ~(OverlapTokens <= 0)
      BY <1>1, <1>8
    <3> QED  BY <1>4, <1>8, <3>1
  <2>2. PICK n \in Nat : n + 1 = start /\ n < Len(ws)
    <3>1. PICK m \in Nat : m = Len(ws) /\ m # 0
      BY <1>2
    <3>2. PICK c \in Nat : c = many /\ c # 0
      BY <1>1
    <3>3. start = IF m > c THEN m - c + 1 ELSE 1
      BY <3>1, <3>2 DEF start
    <3>4. CASE m > c
      <4>1. m - c \in Nat /\ m - c < m /\ start = (m - c) + 1
        BY <3>1, <3>2, <3>3, <3>4
      <4> QED  BY <3>1, <4>1
    <3>5. CASE ~(m > c)
      <4>1. 0 \in Nat /\ 0 < m /\ 0 + 1 = start
        BY <3>1, <3>3, <3>5
      <4> QED  BY <3>1, <4>1
    <3> QED  BY <3>4, <3>5
  <2> HIDE DEF start
  <2>3. PICK a, b : a = SubSeq(ws, 1, n) /\ b = SubSeq(ws, n + 1, Len(ws))
    OBVIOUS
  <2>4. a \in Seq(Word) /\ b \in Seq(Word) /\ ws = a \o b /\ Len(b) = Len(ws) - n
    <3>1. n <= Len(ws)
      BY <1>2, <2>2
    <3> QED  BY <1>2, <2>3, <3>1, InTwoAt
  <2>5. b # << >>
    <3>1. PICK m \in Nat : m = Len(ws)
      BY <1>2
    <3>2. Len(b) # 0
      BY <2>2, <2>4, <3>1
    <3> QED  BY <3>2
  <2>6. IsSuffix(b, a \o b)
    BY <2>4, TheEndOfAText
  <2>7. RepeatedEnd(ws) = b
    BY <2>1, <2>2, <2>3
  <2> QED  BY <2>4, <2>5, <2>6, <2>7 DEF Words
<1> QED  BY <1>1, <1>6, <1>7, <1>8

-----------------------------------------------------------------------------
(***************************************************************************)
(* The pieces of a paragraph that is too long                              *)
(***************************************************************************)
\* What fits in a passage of its own: few enough tokens, or one word
Small(limit) == {s \in Sentence : Tokens(s) <= limit \/ Len(s) = 1}

Put(limit, p, ws) ==
    /\ p = [pieces |-> p.pieces, current |-> p.current]
    /\ p.pieces \in Seq(Small(limit)) /\ p.current \in Small(limit) \cup {<< >>}
    /\ Joined(p.pieces) \o p.current = ws

\* Small texts are sentences, and sentences texts
LEMMA SmallOnes ==
  ASSUME NEW limit
  PROVE  /\ Small(limit) \subseteq Sentence /\ Sentence \subseteq Words /\ Words = Seq(Word)
         /\ \A ps \in Seq(Small(limit)) : ps \in Seq(Seq(Word)) /\ ps \in Seq(Sentence) /\ Joined(ps) \in Words
<1>1. Small(limit) \subseteq Sentence /\ Sentence \subseteq Words /\ Words = Seq(Word)
  BY DEF Small, Sentence, Words
<1>2. ASSUME NEW ps \in Seq(Small(limit)) PROVE ps \in Seq(Seq(Word)) /\ ps \in Seq(Sentence) /\ Joined(ps) \in Words
  <2>1. Small(limit) \subseteq Seq(Word)
    BY <1>1
  <2>2. ps \in Seq(Seq(Word)) /\ ps \in Seq(Sentence)
    BY <1>1, <2>1, SeqMonotonic
  <2>3. Joined(ps) \in Seq(Word)
    BY <2>2, JoinedIsASequence
  <2> QED  BY <1>1, <2>2, <2>3
<1> QED  BY <1>1, <1>2

\* What is put away is all that was put, in small pieces
LEMMA WhatIsPutAway ==
  ASSUME NEW limit, NEW p, NEW ws, Put(limit, p, ws)
  PROVE  PutAway(p) \in Seq(Small(limit)) /\ Joined(PutAway(p)) = ws /\ ws \in Words
<1>1. p.pieces \in Seq(Small(limit)) /\ Joined(p.pieces) \in Seq(Word) /\ p.pieces \in Seq(Seq(Word)) /\ Joined(p.pieces) \o p.current = ws
  BY SmallOnes DEF Put
<1>2. CASE p.current = << >>
  <2>1. Joined(p.pieces) \o << >> = Joined(p.pieces)
    BY <1>1, ConcatEmptySeq
  <2> QED  BY <1>1, <1>2, <2>1 DEF PutAway, Words
<1>3. CASE p.current # << >>
  <2>1. p.current \in Small(limit)
    BY <1>3 DEF Put
  <2>2. p.current \in Seq(Word)
    BY <2>1, SmallOnes
  <2>3. PutAway(p) = Append(p.pieces, p.current)
    BY <1>3 DEF PutAway
  <2>4. Append(p.pieces, p.current) \in Seq(Small(limit))
    BY <1>1, <2>1, AppendProperties
  <2>5. Joined(Append(p.pieces, p.current)) = ws
    BY <1>1, <2>2, JoinedGrows
  <2>6. Joined(p.pieces) \o p.current \in Seq(Word)
    BY <1>1, <2>2, ConcatProperties
  <2> QED  BY <1>1, <2>3, <2>4, <2>5, <2>6 DEF Words
<1> QED  BY <1>2, <1>3

\* What is put away makes room
LEMMA PutAwayIsPut ==
  ASSUME NEW limit, NEW p, NEW ws, Put(limit, p, ws), NEW s \in Small(limit) \cup {<< >>}
  PROVE  Put(limit, [pieces |-> PutAway(p), current |-> s], ws \o s)
<1>1. PutAway(p) \in Seq(Small(limit)) /\ Joined(PutAway(p)) = ws
  BY WhatIsPutAway
<1>2. PICK q : q = [pieces |-> PutAway(p), current |-> s]
  OBVIOUS
<1>3. q.pieces = PutAway(p) /\ q.current = s /\ q = [pieces |-> q.pieces, current |-> q.current]
  BY <1>2
<1>4. Put(limit, q, ws \o s)
  BY <1>1, <1>3 DEF Put
<1> QED  BY <1>2, <1>4

\* The current piece grows
LEMMA ThePieceGrows ==
  ASSUME NEW limit, NEW p, NEW ws, Put(limit, p, ws), NEW s \in Words, p.current \o s \in Small(limit) \cup {<< >>}
  PROVE  Put(limit, [p EXCEPT !.current = p.current \o s], ws \o s)
<1>1. p.pieces \in Seq(Small(limit)) /\ p = [pieces |-> p.pieces, current |-> p.current] /\ Joined(p.pieces) \o p.current = ws
  BY DEF Put
<1>2. PICK a, c : a = p.pieces /\ c = p.current
  OBVIOUS
<1>3. PICK q : q = [p EXCEPT !.current = p.current \o s]
  OBVIOUS
<1>4. q = [pieces |-> a, current |-> c \o s] /\ q.pieces = a /\ q.current = c \o s
  BY <1>1, <1>2, <1>3
<1>5. Joined(a) \in Seq(Word) /\ c \in Seq(Word) /\ s \in Seq(Word)
  <2>1. Joined(a) \in Words /\ Words = Seq(Word) /\ Small(limit) \subseteq Words
    BY <1>1, <1>2, SmallOnes
  <2>2. c \in Small(limit) \/ c = << >>
    BY <1>2, Zenon DEF Put
  <2>3. c \in Seq(Word)
    <3>1. << >> \in Seq(Word)
      OBVIOUS
    <3> QED  BY <2>1, <2>2, <3>1, Zenon
  <2> QED  BY <2>1, <2>3
<1>6. Joined(a) \o (c \o s) = ws \o s
  <2>1. (Joined(a) \o c) \o s = Joined(a) \o (c \o s)
    <3>1. \A x, y, z \in Seq(Word) : (x \o y) \o z = x \o (y \o z)
      BY ConcatAssociative
    <3> QED  BY <1>5, <3>1, Zenon
  <2>2. Joined(a) \o c = ws
    BY <1>1, <1>2
  <2> QED  BY <2>1, <2>2
<1>7. q = [pieces |-> q.pieces, current |-> q.current]
  BY <1>4
<1>8. q.pieces \in Seq(Small(limit)) /\ q.current \in Small(limit) \cup {<< >>} /\ Joined(q.pieces) \o q.current = ws \o s
  BY <1>1, <1>2, <1>4, <1>6
<1>9. Put(limit, q, ws \o s)
  BY <1>7, <1>8 DEF Put
<1> QED  BY <1>3, <1>9

\* A word is put with the current piece or begins one
LEMMA AWordIsPut ==
  ASSUME NEW limit \in Nat, NEW p, NEW ws, Put(limit, p, ws), NEW w \in Word
  PROVE  Put(limit, AddWord(limit, p, w), ws \o <<w>>)
<1>1. <<w>> \in Words /\ <<w>> \in Small(limit) /\ p.current \in Words
  <2>1. <<w>> \in Words /\ <<w>> # << >> /\ Len(<<w>>) = 1 /\ << >> \in Words
    BY DEF Words
  <2>2. p.current \in Small(limit) \/ p.current = << >>
    BY DEF Put
  <2> QED  BY <2>1, <2>2, SmallOnes DEF Small, Sentence
<1>2. PICK c : c = p.current
  OBVIOUS
<1>3. c \in Seq(Word) /\ Append(c, w) = c \o <<w>> /\ Append(c, w) \in Seq(Word) /\ Append(c, w) # << >>
  <2>1. c \in Seq(Word)
    BY <1>1, <1>2 DEF Words
  <2> QED  BY <2>1, AppendProperties, AppendIsConcat
<1>4. CASE Tokens(Append(c, w)) > limit
  <2>1. AddWord(limit, p, w) = [pieces |-> PutAway(p), current |-> <<w>>]
    BY <1>2, <1>4 DEF AddWord
  <2> QED  BY <1>1, <2>1, PutAwayIsPut
<1>5. CASE ~(Tokens(Append(c, w)) > limit)
  <2>1. Tokens(Append(c, w)) \in Nat
    BY <1>3, TokensAreNat DEF Words
  <2>2. Append(c, w) \in Small(limit)
    BY <1>3, <1>5, <2>1 DEF Small, Sentence, Words
  <2>3. AddWord(limit, p, w) = [p EXCEPT !.current = Append(c, w)]
    BY <1>2, <1>5 DEF AddWord
  <2>4. AddWord(limit, p, w) = [p EXCEPT !.current = p.current \o <<w>>] /\ p.current \o <<w>> \in Small(limit) \cup {<< >>}
    BY <1>2, <1>3, <2>2, <2>3
  <2>5. PICK s : s = <<w>>
    OBVIOUS
  <2>6. s \in Words /\ p.current \o s \in Small(limit) \cup {<< >>} /\ AddWord(limit, p, w) = [p EXCEPT !.current = p.current \o s]
    BY <1>1, <2>4, <2>5, Zenon
  <2>7. Put(limit, AddWord(limit, p, w), ws \o s)
    BY <2>6, ThePieceGrows
  <2> QED  BY <2>5, <2>7, Zenon
<1> QED  BY <1>4, <1>5

\* So are the words of a sentence
LEMMA WordsArePut ==
  ASSUME NEW limit \in Nat, NEW p, NEW ws, Put(limit, p, ws), NEW s \in Words
  PROVE  Put(limit, WordsPut(limit, p, s), ws \o s)
<1> DEFINE P == {q \in Seq(Word) : Put(limit, WordsPut(limit, p, q), ws \o q)}
<1>1. ws \in Seq(Word)
  BY WhatIsPutAway DEF Words
<1>2. << >> \in P
  <2>1. [len |-> 0, stop |-> TRUE] \in Word /\ << >> \in Seq(Word)
    BY DEF Word
  <2>2. WordsPut(limit, p, << >>) = p
    BY <2>1, WordsPutGrows
  <2>3. ws \o << >> = ws
    BY <1>1, ConcatEmptySeq
  <2> QED  BY <2>1, <2>2, <2>3
<1>3. ASSUME NEW q \in Seq(Word), NEW e \in Word, q \in P PROVE Append(q, e) \in P
  <2>1. WordsPut(limit, p, Append(q, e)) = AddWord(limit, WordsPut(limit, p, q), e)
    BY WordsPutGrows
  <2>2. Put(limit, AddWord(limit, WordsPut(limit, p, q), e), (ws \o q) \o <<e>>)
    <3>1. Put(limit, WordsPut(limit, p, q), ws \o q)
      BY <1>3
    <3> QED  BY <3>1, AWordIsPut
  <2>3. (ws \o q) \o <<e>> = ws \o Append(q, e)
    <3>1. <<e>> \in Seq(Word) /\ Append(q, e) = q \o <<e>>
      OBVIOUS
    <3>2. \A x, y, z \in Seq(Word) : (x \o y) \o z = x \o (y \o z)
      BY ConcatAssociative
    <3>3. (ws \o q) \o <<e>> = ws \o (q \o <<e>>)
      BY <1>1, <3>1, <3>2, Zenon
    <3> QED  BY <3>1, <3>3
  <2>4. Append(q, e) \in Seq(Word)
    OBVIOUS
  <2> QED  BY <2>1, <2>2, <2>3, <2>4
<1> HIDE DEF P
<1>4. Seq(Word) \subseteq P
  BY <1>2, <1>3, ElementByElement
<1> QED  BY <1>4 DEF P, Words

\* A sentence is put with the current piece, begins one, or is put word by word
LEMMA ASentenceIsPut ==
  ASSUME NEW limit \in Nat, NEW p, NEW ws, Put(limit, p, ws), NEW s \in Sentence
  PROVE  Put(limit, AddSentence(limit, p, s), ws \o s)
<1>1. s \in Words /\ s \in Seq(Word) /\ s # << >> /\ Tokens(s) \in Nat
  <2>1. s \in Words /\ s \in Seq(Word) /\ s # << >>
    BY DEF Sentence, Words
  <2> QED  BY <2>1, TokensAreNat
<1>2. PICK c : c = p.current
  OBVIOUS
<1>3. c \in Seq(Word)
  <2>1. c \in Small(limit) \/ c = << >>
    BY <1>2 DEF Put
  <2>2. << >> \in Seq(Word)
    OBVIOUS
  <2> QED  BY <2>1, <2>2, SmallOnes
<1>4. c \o s \in Seq(Word) /\ c \o s # << >> /\ Tokens(c \o s) \in Nat
  <2>1. c \o s \in Seq(Word) /\ c \o s # << >>
    BY <1>1, <1>3, ConcatProperties, ConcatEqualIffEmpty
  <2> QED  BY <2>1, TokensAreNat DEF Words
<1>5. AddSentence(limit, p, s) =
        CASE Tokens(c \o s) <= limit -> [p EXCEPT !.current = c \o s]
          [] Tokens(c \o s) > limit /\ Tokens(s) <= limit -> [pieces |-> PutAway(p), current |-> s]
          [] OTHER -> WordsPut(limit, [pieces |-> PutAway(p), current |-> << >>], s)
  BY <1>2, WhatIsFolded
<1>6. CASE Tokens(c \o s) <= limit
  <2>1. AddSentence(limit, p, s) = [p EXCEPT !.current = p.current \o s]
    BY <1>2, <1>4, <1>5, <1>6
  <2>2. p.current \o s \in Small(limit) \cup {<< >>}
    BY <1>2, <1>4, <1>6 DEF Small, Sentence, Words
  <2> QED  BY <1>1, <2>1, <2>2, ThePieceGrows
<1>7. CASE Tokens(c \o s) > limit /\ Tokens(s) <= limit
  <2>1. AddSentence(limit, p, s) = [pieces |-> PutAway(p), current |-> s]
    BY <1>4, <1>5, <1>7
  <2>2. s \in Small(limit)
    BY <1>7 DEF Small
  <2> QED  BY <2>1, <2>2, PutAwayIsPut
<1>8. CASE Tokens(c \o s) > limit /\ ~(Tokens(s) <= limit)
  <2>1. PICK q : q = [pieces |-> PutAway(p), current |-> << >>]
    OBVIOUS
  <2>2. AddSentence(limit, p, s) = WordsPut(limit, q, s)
    BY <1>4, <1>5, <1>8, <2>1
  <2>3. Put(limit, q, ws)
    <3>1. Put(limit, q, ws \o << >>)
      BY <2>1, PutAwayIsPut
    <3>2. ws \in Seq(Word)
      BY WhatIsPutAway DEF Words
    <3> QED  BY <3>1, <3>2, ConcatEmptySeq
  <2> QED  BY <1>1, <2>2, <2>3, WordsArePut
<1> QED  BY <1>1, <1>4, <1>6, <1>7, <1>8

\* What is cut into pieces is there, in order, and every piece is small
LEMMA PiecesAreTheText ==
  ASSUME NEW limit \in Nat, NEW ws \in Words
  PROVE  SplitLong(limit, ws) \in Seq(Small(limit)) /\ Joined(SplitLong(limit, ws)) = ws
<1> DEFINE P == {q \in Seq(Sentence) : Put(limit, SentencesPut(limit, q), Joined(q))}
<1>1. Sentence \subseteq Seq(Word)
  BY DEF Sentence, Words
<1>2. << >> \in P
  <2>1. << >> \in Seq(Seq(Word)) /\ << >> \in Seq(Word) /\ << >> \in Seq(Small(limit)) /\ << >> \o << >> = << >>
        /\ << >> \in Seq({0}) /\ 0 \in {0} /\ << >> \in Seq(Sentence)
    OBVIOUS
  <2>2. SentencesPut(limit, << >>) = NothingPut /\ Joined(<< >>) = << >>
    BY <2>1, SentencesPutGrows, JoinedGrows
  <2>3. Put(limit, NothingPut, << >>)
    BY <2>1, <2>2 DEF Put, NothingPut
  <2> QED  BY <2>1, <2>2, <2>3
<1>3. ASSUME NEW q \in Seq(Sentence), NEW e \in Sentence, q \in P PROVE Append(q, e) \in P
  <2>1. SentencesPut(limit, Append(q, e)) = AddSentence(limit, SentencesPut(limit, q), e)
    BY SentencesPutGrows
  <2>2. Put(limit, AddSentence(limit, SentencesPut(limit, q), e), Joined(q) \o e)
    <3>1. Put(limit, SentencesPut(limit, q), Joined(q))
      BY <1>3
    <3> QED  BY <3>1, ASentenceIsPut
  <2>3. Joined(Append(q, e)) = Joined(q) \o e
    <3>1. q \in Seq(Seq(Word)) /\ e \in Seq(Word)
      BY <1>1, SeqMonotonic
    <3> QED  BY <3>1, JoinedGrows
  <2>4. Append(q, e) \in Seq(Sentence)
    OBVIOUS
  <2> QED  BY <2>1, <2>2, <2>3, <2>4
<1> HIDE DEF P
<1>4. Seq(Sentence) \subseteq P
  BY <1>2, <1>3, ElementByElement
<1>5. Sentences(ws) \in Seq(Sentence) /\ Joined(Sentences(ws)) = ws
  BY SentencesOfAText
<1>6. Put(limit, SentencesPut(limit, Sentences(ws)), ws)
  BY <1>4, <1>5 DEF P
<1> QED  BY <1>6, WhatIsPutAway, WhatIsFolded

-----------------------------------------------------------------------------
(***************************************************************************)
(* The blocks of a document, and their pieces                              *)
(***************************************************************************)
\* Blocks that stand under headings of X; those that fit in a passage
BlockUnder(X) == [words : Sentence, path : X, page : Nat, starts : BOOLEAN]
FitUnder(X)   == [words : Small(MaxTokens), path : X, page : Nat, starts : BOOLEAN]

AllPieces(bs) == Joined([i \in DOMAIN bs |-> Pieces(bs[i])])
LineWords(l)  == IF l.kind = "words" THEN l.words ELSE << >>

\* A block has words, and one that fits a small text
LEMMA BlocksHaveWords ==
  ASSUME NEW X
  PROVE  (\A b \in BlockUnder(X) : b.words \in Words) /\ (\A b \in FitUnder(X) : b.words \in Words /\ b.words \in Small(MaxTokens))
BY SmallOnes DEF BlockUnder, FitUnder

\* An element after two sequences is an element after the second
LEMMA LongerAtTheEnd ==
  ASSUME NEW U, NEW fs \in Seq(U), NEW q \in Seq(U), NEW e \in U
  PROVE  fs \o Append(q, e) = Append(fs \o q, e) /\ fs \o q \in Seq(U) /\ Append(q, e) \in Seq(U)
<1>1. fs \o q \in Seq(U) /\ Append(q, e) \in Seq(U)
  BY ConcatProperties, AppendProperties
<1>2. Append(q, e) = q \o <<e>> /\ Append(fs \o q, e) = (fs \o q) \o <<e>>
  BY <1>1, AppendIsConcat
<1>3. <<e>> \in Seq(U)
  OBVIOUS
<1>4. (fs \o q) \o <<e>> = fs \o (q \o <<e>>)
  BY <1>3, ConcatAssociative
<1> QED  BY <1>1, <1>2, <1>4

\* The words of some blocks and some others are the words of both
LEMMA WordsTogether ==
  ASSUME NEW U, NEW fs \in Seq(U), NEW bs \in Seq(U), \A u \in U : u.words \in Words
  PROVE  WordsOf(fs \o bs) = WordsOf(fs) \o WordsOf(bs) /\ WordsOf(bs) \in Seq(Word)
<1> DEFINE P == {q \in Seq(U) : WordsOf(fs \o q) = WordsOf(fs) \o WordsOf(q) /\ WordsOf(q) \in Seq(Word)}
<1>1. << >> \in P /\ WordsOf(fs) \in Seq(Word)
  <2>1. WordsOf(<< >>) = << >>
    <3>1. [i \in DOMAIN << >> |-> << >>[i].words] = << >> /\ << >> \in Seq(Seq({0})) /\ << >> \in Seq({0})
      OBVIOUS
    <3>2. Joined(<< >>) = << >>
      BY <3>1, JoinedGrows
    <3> QED  BY <3>1, <3>2 DEF WordsOf
  <2>2. WordsOf(fs) \in Seq(Word)
    <3>1. CASE U = {}
      <4>1. << >> \in Seq(Word)
        OBVIOUS
      <4>2. fs = << >>
        <5> SUFFICES ASSUME fs # << >> PROVE FALSE
          OBVIOUS
        <5>1. 1 \in 1 .. Len(fs)
          <6>1. Len(fs) \in Nat \ {0}
            BY EmptySeq
          <6> QED  BY <6>1
        <5>2. fs[1] \in U
          BY <5>1, ElementOfSeq
        <5> QED  BY <3>1, <5>2
      <4> QED  BY <2>1, <4>1, <4>2
    <3>2. CASE U # {}
      BY <3>2, WordsOfOne DEF Words
    <3> QED  BY <3>1, <3>2
  <2>3. WordsOf(fs) \o << >> = WordsOf(fs)
    BY <2>2, ConcatEmptySeq
  <2>4. fs \o << >> = fs /\ << >> \in Seq(U) /\ << >> \in Seq(Word)
    OBVIOUS
  <2> QED  BY <2>1, <2>2, <2>3, <2>4
<1>2. ASSUME NEW q \in Seq(U), NEW e \in U, q \in P PROVE Append(q, e) \in P
  <2>1. fs \o Append(q, e) = Append(fs \o q, e) /\ fs \o q \in Seq(U) /\ Append(q, e) \in Seq(U)
    BY LongerAtTheEnd
  <2>2. WordsOf(Append(fs \o q, e)) = WordsOf(fs \o q) \o e.words /\ WordsOf(Append(q, e)) = WordsOf(q) \o e.words
        /\ WordsOf(q) \in Seq(Word) /\ e.words \in Seq(Word)
    BY <2>1, WordsOfOne DEF Words
  <2>3. (WordsOf(fs) \o WordsOf(q)) \o e.words = WordsOf(fs) \o (WordsOf(q) \o e.words)
    <3>1. \A x, y, z \in Seq(Word) : (x \o y) \o z = x \o (y \o z)
      BY ConcatAssociative
    <3> QED  BY <1>1, <2>2, <3>1, Zenon
  <2>4. WordsOf(q) \o e.words \in Seq(Word)
    BY <2>2, ConcatProperties
  <2> QED  BY <1>2, <2>1, <2>2, <2>3, <2>4
<1> HIDE DEF P
<1>3. Seq(U) \subseteq P
  BY <1>1, <1>2, ElementByElement
<1> QED  BY <1>3 DEF P

\* The pieces of a block fit and hold its words
LEMMA PiecesOfABlock ==
  ASSUME NEW X, NEW b \in BlockUnder(X)
  PROVE  Pieces(b) \in Seq(FitUnder(X)) /\ WordsOf(Pieces(b)) = b.words
<1>1. /\ b = [words |-> b.words, path |-> b.path, page |-> b.page, starts |-> b.starts]
      /\ b.words \in Sentence /\ b.path \in X /\ b.page \in Nat /\ b.starts \in BOOLEAN
  BY DEF BlockUnder
<1>2. b.words \in Words /\ Tokens(b.words) \in Nat /\ MaxTokens \in Nat
  <2>1. b.words \in Words
    BY <1>1 DEF Sentence
  <2> QED  BY <2>1, TokensAreNat, TextAssumption
<1>3. CASE Tokens(b.words) <= MaxTokens
  <2>1. Pieces(b) = <<b>>
    BY <1>3 DEF Pieces
  <2>2. b \in FitUnder(X)
    BY <1>1, <1>3 DEF FitUnder, Small
  <2>3. WordsOf(<<b>>) = b.words
    <3>1. << >> \in Seq(FitUnder(X))
      OBVIOUS
    <3> QED  BY <2>2, <3>1, WordsOfOne, BlocksHaveWords
  <2> QED  BY <2>1, <2>2, <2>3
<1>4. CASE ~(Tokens(b.words) <= MaxTokens)
  <2>1. PICK ps : ps = SplitLong(PieceTokens, b.words)
    OBVIOUS
  <2>2. Pieces(b) = [i \in 1 .. Len(ps) |-> [b EXCEPT !.words = ps[i], !.starts = @ /\ i = 1]]
    BY <1>4, <2>1 DEF Pieces
  <2>3. PieceTokens \in Nat /\ PieceTokens <= MaxTokens
    <3>1. \A n \in Nat : (n * 8) \div 10 \in Nat /\ (n * 8) \div 10 <= n
      OBVIOUS
    <3> QED  BY <1>2, <3>1 DEF PieceTokens
  <2>4. ps \in Seq(Small(PieceTokens)) /\ Joined(ps) = b.words
    BY <1>2, <2>1, <2>3, PiecesAreTheText
  <2>5. Small(PieceTokens) \subseteq Small(MaxTokens)
    <3> SUFFICES ASSUME NEW s \in Small(PieceTokens) PROVE s \in Small(MaxTokens)
      OBVIOUS
    <3>1. s \in Sentence /\ (Tokens(s) <= PieceTokens \/ Len(s) = 1) /\ Tokens(s) \in Nat
      BY TokensAreNat DEF Small, Sentence
    <3>2. Tokens(s) <= MaxTokens \/ Len(s) = 1
      BY <1>2, <2>3, <3>1
    <3> QED  BY <3>1, <3>2 DEF Small
  <2>6. ps \in Seq(Small(MaxTokens)) /\ Len(ps) \in Nat /\ ps = [i \in 1 .. Len(ps) |-> ps[i]]
    <3>1. ps \in Seq(Small(MaxTokens))
      BY <2>4, <2>5, SeqMonotonic
    <3> QED  BY <3>1
  <2>7. ASSUME NEW i \in 1 .. Len(ps)
        PROVE  Pieces(b)[i] \in FitUnder(X) /\ Pieces(b)[i].words = ps[i]
    <3>1. PICK w, o : w = ps[i] /\ o = (b.starts /\ i = 1)
      OBVIOUS
    <3>2. o \in BOOLEAN
      BY <1>1, <3>1, Zenon
    <3>3. w \in Small(MaxTokens)
      BY <2>6, <3>1
    <3>4. PICK c : c = [b EXCEPT !.words = w, !.starts = o]
      OBVIOUS
    <3>5. Pieces(b)[i] = c
      BY <2>2, <3>1, <3>4
    <3>6. PICK d : d = [b EXCEPT !.words = w]
      OBVIOUS
    <3>7. d = [words |-> w, path |-> b.path, page |-> b.page, starts |-> b.starts]
      BY <1>1, <3>6
    <3>8. c = [d EXCEPT !.starts = o]
      BY <3>4, <3>6
    <3>9. c = [words |-> w, path |-> b.path, page |-> b.page, starts |-> o]
      BY <3>7, <3>8
    <3>10. c \in FitUnder(X) /\ c.words = w
      BY <1>1, <3>2, <3>3, <3>9 DEF FitUnder
    <3> QED  BY <3>1, <3>5, <3>10
  <2>8. Pieces(b) \in Seq(FitUnder(X)) /\ Len(Pieces(b)) = Len(ps) /\ DOMAIN Pieces(b) = 1 .. Len(ps)
    <3>1. PICK c : c = Pieces(b)
      OBVIOUS
    <3>2. PICK n \in Nat : n = Len(ps)
      BY <2>6
    <3>3. DOMAIN c = 1 .. n
      BY <2>2, <3>1, <3>2
    <3>4. c = [i \in 1 .. n |-> c[i]]
      BY <2>2, <3>1, <3>2, <3>3
    <3>5. \A i \in 1 .. n : c[i] \in FitUnder(X)
      BY <2>7, <3>1, <3>2
    <3>6. c \in Seq(FitUnder(X)) /\ Len(c) = n
      BY <3>4, <3>5
    <3> QED  BY <3>1, <3>2, <3>3, <3>6
  <2>9. [i \in DOMAIN Pieces(b) |-> Pieces(b)[i].words] = ps
    BY <2>6, <2>7, <2>8
  <2> QED  BY <2>4, <2>8, <2>9 DEF WordsOf
<1> QED  BY <1>3, <1>4

\* So do the pieces of all blocks
LEMMA PiecesOfTheBlocks ==
  ASSUME NEW X, NEW bs \in Seq(BlockUnder(X))
  PROVE  AllPieces(bs) \in Seq(FitUnder(X)) /\ WordsOf(AllPieces(bs)) = WordsOf(bs)
<1> DEFINE P == {q \in Seq(BlockUnder(X)) : AllPieces(q) \in Seq(FitUnder(X)) /\ WordsOf(AllPieces(q)) = WordsOf(q)}
           ps(q) == [i \in DOMAIN q |-> Pieces(q[i])]
<1>1. << >> \in P
  <2>1. ps(<< >>) = << >> /\ << >> \in Seq(Seq({0})) /\ << >> \in Seq({0}) /\ << >> \in Seq(FitUnder(X)) /\ << >> \in Seq(BlockUnder(X))
    OBVIOUS
  <2>2. AllPieces(<< >>) = << >>
    BY <2>1, JoinedGrows DEF AllPieces
  <2> QED  BY <2>1, <2>2
<1>2. ASSUME NEW q \in Seq(BlockUnder(X)), NEW e \in BlockUnder(X), q \in P PROVE Append(q, e) \in P
  <2>1. ps(q) \in Seq(Seq(FitUnder(X))) /\ Pieces(e) \in Seq(FitUnder(X))
    <3>1. \A b \in BlockUnder(X) : Pieces(b) \in Seq(FitUnder(X))
      BY PiecesOfABlock
    <3>2. Len(q) \in Nat /\ DOMAIN q = 1 .. Len(q) /\ \A i \in 1 .. Len(q) : q[i] \in BlockUnder(X)
      OBVIOUS
    <3> QED  BY <3>1, <3>2
  <2>2. ps(Append(q, e)) = Append(ps(q), Pieces(e))
    <3>1. Len(q) \in Nat /\ DOMAIN q = 1 .. Len(q) /\ DOMAIN Append(q, e) = 1 .. Len(q) + 1
          /\ \A i \in 1 .. Len(q) + 1 : Append(q, e)[i] = IF i = Len(q) + 1 THEN e ELSE q[i]
      OBVIOUS
    <3>2. Len(ps(q)) = Len(q)
      BY <3>1
    <3> QED  BY <2>1, <3>1, <3>2
  <2>3. AllPieces(Append(q, e)) = Joined(ps(Append(q, e))) /\ AllPieces(q) = Joined(ps(q))
    BY DEF AllPieces
  <2> HIDE DEF ps
  <2>4. AllPieces(Append(q, e)) = AllPieces(q) \o Pieces(e)
    BY <2>1, <2>2, <2>3, JoinedGrows
  <2>5. AllPieces(q) \in Seq(FitUnder(X)) /\ WordsOf(AllPieces(q)) = WordsOf(q)
    BY <1>2
  <2>6. AllPieces(q) \o Pieces(e) \in Seq(FitUnder(X))
    BY <2>1, <2>5, ConcatProperties
  <2>7. WordsOf(AllPieces(q) \o Pieces(e)) = WordsOf(q) \o e.words
    <3>1. WordsOf(Pieces(e)) = e.words
      BY PiecesOfABlock
    <3>2. PICK a, b, U : a = AllPieces(q) /\ b = Pieces(e) /\ U = FitUnder(X)
      OBVIOUS
    <3>3. a \in Seq(U) /\ b \in Seq(U) /\ \A u \in U : u.words \in Words
      BY <2>1, <2>5, <3>2, BlocksHaveWords
    <3>4. WordsOf(a \o b) = WordsOf(a) \o WordsOf(b)
      BY <3>3, WordsTogether
    <3> QED  BY <2>5, <3>1, <3>2, <3>4
  <2>8. WordsOf(Append(q, e)) = WordsOf(q) \o e.words
    BY WordsOfOne, BlocksHaveWords
  <2>9. Append(q, e) \in Seq(BlockUnder(X))
    OBVIOUS
  <2> QED  BY <2>4, <2>6, <2>7, <2>8, <2>9
<1> HIDE DEF P
<1>3. Seq(BlockUnder(X)) \subseteq P
  BY <1>1, <1>2, ElementByElement
<1> QED  BY <1>3 DEF P

-----------------------------------------------------------------------------
(***************************************************************************)
(* A document, line by line                                                *)
(***************************************************************************)
Reading(X, r, ws) ==
    /\ r = [blocks |-> r.blocks, para |-> r.para, path |-> r.path, page |-> r.page, starts |-> r.starts]
    /\ r.blocks \in Seq(BlockUnder(X)) /\ r.para \in Words /\ r.path \in X /\ r.page \in Nat /\ r.starts \in BOOLEAN
    /\ WordsOf(r.blocks) \o r.para = ws

\* Without blocks there are no words
LEMMA NoWords == WordsOf(<< >>) = << >> /\ Joined(<< >>) = << >>
<1>1. [i \in DOMAIN << >> |-> << >>[i].words] = << >> /\ << >> \in Seq(Seq({0})) /\ << >> \in Seq({0})
  OBVIOUS
<1>2. Joined(<< >>) = << >>
  BY <1>1, JoinedGrows
<1> QED  BY <1>1, <1>2 DEF WordsOf

\* The words of blocks are a text
LEMMA WordsOfBlocks ==
  ASSUME NEW X, NEW bs \in Seq(BlockUnder(X))
  PROVE  WordsOf(bs) \in Seq(Word)
<1>1. << >> \in Seq(BlockUnder(X)) /\ \A u \in BlockUnder(X) : u.words \in Words
  BY BlocksHaveWords
<1> QED  BY <1>1, WordsTogether

\* The end of a paragraph makes a block of it
LEMMA AParagraphEnds ==
  ASSUME NEW X, NEW r, NEW ws, Reading(X, r, ws)
  PROVE  Reading(X, Flushed(r), ws) /\ Flushed(r).para = << >> /\ ws \in Seq(Word)
<1>1. PICK bs, pa, th, pg, st : bs = r.blocks /\ pa = r.para /\ th = r.path /\ pg = r.page /\ st = r.starts
  OBVIOUS
<1>2. /\ r = [blocks |-> bs, para |-> pa, path |-> th, page |-> pg, starts |-> st]
      /\ bs \in Seq(BlockUnder(X)) /\ pa \in Words /\ th \in X /\ pg \in Nat /\ st \in BOOLEAN
      /\ WordsOf(bs) \o pa = ws
  BY <1>1, Zenon DEF Reading
<1>3. WordsOf(bs) \in Seq(Word) /\ pa \in Seq(Word)
  BY <1>2, WordsOfBlocks DEF Words
<1>4. ws \in Seq(Word)
  BY <1>2, <1>3, ConcatProperties
<1>5. CASE pa = << >>
  BY <1>1, <1>4, <1>5 DEF Flushed
<1>6. CASE pa # << >>
  <2>1. PICK b : b = [words |-> pa, path |-> th, page |-> pg, starts |-> st]
    OBVIOUS
  <2>2. b \in BlockUnder(X) /\ b.words = pa
    <3>1. pa \in Sentence
      BY <1>2, <1>6 DEF Sentence
    <3> QED  BY <1>2, <2>1, <3>1 DEF BlockUnder
  <2>3. PICK f : f = Flushed(r)
    OBVIOUS
  <2>4. f = [r EXCEPT !.blocks = Append(bs, b), !.para = << >>, !.starts = FALSE]
    BY <1>1, <1>6, <2>1, <2>3 DEF Flushed
  <2>5. f = [blocks |-> Append(bs, b), para |-> << >>, path |-> th, page |-> pg, starts |-> FALSE]
    <3>1. PICK g : g = [r EXCEPT !.blocks = Append(bs, b)]
      OBVIOUS
    <3>2. PICK h : h = [g EXCEPT !.para = << >>]
      OBVIOUS
    <3>3. f = [h EXCEPT !.starts = FALSE]
      BY <2>4, <3>1, <3>2
    <3>4. g = [blocks |-> Append(bs, b), para |-> pa, path |-> th, page |-> pg, starts |-> st]
      BY <1>2, <3>1
    <3>5. h = [blocks |-> Append(bs, b), para |-> << >>, path |-> th, page |-> pg, starts |-> st]
      BY <3>2, <3>4
    <3> QED  BY <3>3, <3>5
  <2>6. f.blocks = Append(bs, b) /\ f.para = << >> /\ f.path = th /\ f.page = pg /\ f.starts = FALSE
    BY <2>5
  <2>7. Append(bs, b) \in Seq(BlockUnder(X)) /\ WordsOf(Append(bs, b)) = ws
    <3>1. WordsOf(Append(bs, b)) = WordsOf(bs) \o b.words
      BY <1>2, <2>2, WordsOfOne, BlocksHaveWords
    <3>2. Append(bs, b) \in Seq(BlockUnder(X))
      BY <1>2, <2>2, AppendProperties
    <3> QED  BY <1>2, <2>2, <3>1, <3>2
  <2>8. ws \o << >> = ws /\ << >> \in Words
    BY <1>4, ConcatEmptySeq DEF Words
  <2>9. f.starts \in BOOLEAN
    BY <2>6
  <2>10. f = [blocks |-> f.blocks, para |-> f.para, path |-> f.path, page |-> f.page, starts |-> f.starts]
    BY <2>5
  <2>11. Reading(X, f, ws)
    <3>1. f.blocks \in Seq(BlockUnder(X)) /\ f.para \in Words /\ f.path \in X /\ f.page \in Nat
      BY <1>2, <2>6, <2>7, <2>8
    <3>2. WordsOf(f.blocks) \o f.para = ws
      BY <2>6, <2>7, <2>8
    <3> QED  BY <2>9, <2>10, <3>1, <3>2, Zenon DEF Reading
  <2> QED  BY <1>4, <2>3, <2>6, <2>11
<1> QED  BY <1>5, <1>6

\* What a heading or a page changes is where the next block stands
LEMMA AnotherPlace ==
  ASSUME NEW X, NEW r, NEW ws, Reading(X, r, ws), NEW th, NEW pg \in Nat, NEW st \in BOOLEAN
  PROVE  Reading(X \cup {th}, [blocks |-> r.blocks, para |-> r.para, path |-> th, page |-> pg, starts |-> st], ws)
<1>1. r.blocks \in Seq(BlockUnder(X)) /\ r.para \in Words /\ WordsOf(r.blocks) \o r.para = ws
  BY Zenon DEF Reading
<1>2. r.blocks \in Seq(BlockUnder(X \cup {th}))
  <2>1. BlockUnder(X) \subseteq BlockUnder(X \cup {th})
    <3> SUFFICES ASSUME NEW b \in BlockUnder(X) PROVE b \in BlockUnder(X \cup {th})
      OBVIOUS
    <3>1. b.path \in X /\ b.words \in Sentence /\ b.page \in Nat /\ b.starts \in BOOLEAN
          /\ b = [words |-> b.words, path |-> b.path, page |-> b.page, starts |-> b.starts]
      BY DEF BlockUnder
    <3>2. b.path \in X \cup {th}
      BY <3>1
    <3> QED  BY <3>1, <3>2 DEF BlockUnder
  <2> QED  BY <1>1, <2>1, SeqMonotonic
<1>3. PICK f : f = [blocks |-> r.blocks, para |-> r.para, path |-> th, page |-> pg, starts |-> st]
  OBVIOUS
<1>4. f.blocks = r.blocks /\ f.para = r.para /\ f.path = th /\ f.page = pg
  BY <1>3
<1>5. f.starts = st
  BY <1>3
<1>6. f = [blocks |-> f.blocks, para |-> f.para, path |-> f.path, page |-> f.page, starts |-> f.starts]
  BY <1>3
<1>7. f.starts \in BOOLEAN
  BY <1>5, Zenon
<1>8. f.path \in X \cup {th} /\ f.page \in Nat
  BY <1>4
<1>9. f.blocks \in Seq(BlockUnder(X \cup {th})) /\ f.para \in Words /\ WordsOf(f.blocks) \o f.para = ws
  BY <1>1, <1>2, <1>4
<1>10. Reading(X \cup {th}, f, ws)
  BY <1>6, <1>7, <1>8, <1>9, Zenon DEF Reading
<1> QED  BY <1>3, <1>10, Zenon

\* Every line adds its words to those read
LEMMA ALineIsRead ==
  ASSUME NEW X, NEW r, NEW ws, Reading(X, r, ws), NEW l \in Line
  PROVE  \E Y : Reading(Y, ReadLine(r, l), ws \o LineWords(l))
<1>1. l.kind \in {"words", "heading", "page"} /\ (l.kind = "words" => l.words \in Seq(Word))
  BY TextAssumption
<1>2. PICK f : f = Flushed(r)
  OBVIOUS
<1>3. Reading(X, f, ws) /\ f.para = << >> /\ ws \in Seq(Word)
  BY <1>2, AParagraphEnds
<1>4. ws \o << >> = ws
  BY <1>3, ConcatEmptySeq
<1>5. /\ f = [blocks |-> f.blocks, para |-> f.para, path |-> f.path, page |-> f.page, starts |-> f.starts]
      /\ f.page \in Nat /\ f.starts \in BOOLEAN
  BY <1>3, Zenon DEF Reading
<1>6. CASE l.kind = "words" /\ l.words # << >>
  <2>1. PICK g : g = ReadLine(r, l)
    OBVIOUS
  <2>2. g = [r EXCEPT !.para = r.para \o l.words]
    BY <1>6, <2>1 DEF ReadLine
  <2>3. PICK bs, pa, th, pg, st : bs = r.blocks /\ pa = r.para /\ th = r.path /\ pg = r.page /\ st = r.starts
    OBVIOUS
  <2>4. /\ r = [blocks |-> bs, para |-> pa, path |-> th, page |-> pg, starts |-> st]
        /\ bs \in Seq(BlockUnder(X)) /\ pa \in Words /\ th \in X /\ pg \in Nat /\ st \in BOOLEAN
        /\ WordsOf(bs) \o pa = ws
    BY <2>3, Zenon DEF Reading
  <2>5. g = [blocks |-> bs, para |-> pa \o l.words, path |-> th, page |-> pg, starts |-> st]
    BY <2>2, <2>3, <2>4
  <2>6. WordsOf(bs) \in Seq(Word) /\ pa \in Seq(Word) /\ l.words \in Seq(Word)
    BY <1>1, <1>6, <2>4, WordsOfBlocks DEF Words
  <2>7. WordsOf(bs) \o (pa \o l.words) = ws \o l.words /\ pa \o l.words \in Words
    <3>1. \A x, y, z \in Seq(Word) : (x \o y) \o z = x \o (y \o z)
      BY ConcatAssociative
    <3>2. (WordsOf(bs) \o pa) \o l.words = WordsOf(bs) \o (pa \o l.words)
      BY <2>6, <3>1, Zenon
    <3>3. pa \o l.words \in Seq(Word)
      BY <2>6, ConcatProperties
    <3> QED  BY <2>4, <3>2, <3>3 DEF Words
  <2>8. g.blocks = bs /\ g.para = pa \o l.words /\ g.path = th /\ g.page = pg
    BY <2>5
  <2>9. g.starts = st
    BY <2>5
  <2>10. g.starts \in BOOLEAN
    BY <2>4, <2>9, Zenon
  <2>11. g = [blocks |-> g.blocks, para |-> g.para, path |-> g.path, page |-> g.page, starts |-> g.starts]
    BY <2>5
  <2>12. Reading(X, g, ws \o l.words)
    <3>1. g.blocks \in Seq(BlockUnder(X)) /\ g.para \in Words /\ g.path \in X /\ g.page \in Nat
          /\ WordsOf(g.blocks) \o g.para = ws \o l.words
      BY <2>4, <2>7, <2>8
    <3> QED  BY <2>10, <2>11, <3>1, Zenon DEF Reading
  <2>13. LineWords(l) = l.words
    BY <1>6 DEF LineWords
  <2> QED  BY <2>1, <2>12, <2>13
<1>7. CASE l.kind = "words" /\ l.words = << >>
  <2>1. ReadLine(r, l) = f /\ LineWords(l) = << >>
    BY <1>2, <1>7 DEF ReadLine, LineWords
  <2> QED  BY <1>3, <1>4, <2>1
<1>8. CASE l.kind = "page"
  <2>1. ReadLine(r, l) = [f EXCEPT !.page = f.page + 1] /\ LineWords(l) = << >>
    BY <1>2, <1>8 DEF ReadLine, LineWords
  <2>2. ReadLine(r, l) = [blocks |-> f.blocks, para |-> f.para, path |-> f.path, page |-> f.page + 1, starts |-> f.starts]
    BY <1>5, <2>1
  <2>3. f.page + 1 \in Nat
    BY <1>5
  <2>4. PICK pg, st : pg = f.page + 1 /\ st = f.starts
    OBVIOUS
  <2>5. pg \in Nat /\ st \in BOOLEAN
    BY <1>5, <2>3, <2>4, Zenon
  <2>6. Reading(X \cup {f.path}, [blocks |-> f.blocks, para |-> f.para, path |-> f.path, page |-> pg, starts |-> st], ws)
    BY <1>3, <2>5, AnotherPlace
  <2>7. Reading(X \cup {f.path}, ReadLine(r, l), ws \o LineWords(l))
    BY <1>4, <2>1, <2>2, <2>4, <2>6, Zenon
  <2> QED  BY <2>7
<1>9. CASE l.kind = "heading"
  <2>1. PICK th : th = UnderHeading(f.path, l.level)
    OBVIOUS
  <2>2. PICK g : g = [f EXCEPT !.path = th]
    OBVIOUS
  <2>3. ReadLine(r, l) = [g EXCEPT !.starts = TRUE] /\ LineWords(l) = << >>
    BY <1>2, <1>9, <2>1, <2>2 DEF ReadLine, LineWords
  <2>4. g = [blocks |-> f.blocks, para |-> f.para, path |-> th, page |-> f.page, starts |-> f.starts]
    BY <1>5, <2>2
  <2>5. ReadLine(r, l) = [blocks |-> f.blocks, para |-> f.para, path |-> th, page |-> f.page, starts |-> TRUE]
    BY <2>3, <2>4
  <2>6. PICK pg, st : pg = f.page /\ st = TRUE
    OBVIOUS
  <2>7. pg \in Nat /\ st \in BOOLEAN
    BY <1>5, <2>6
  <2>8. Reading(X \cup {th}, [blocks |-> f.blocks, para |-> f.para, path |-> th, page |-> pg, starts |-> st], ws)
    BY <1>3, <2>7, AnotherPlace
  <2>9. Reading(X \cup {th}, ReadLine(r, l), ws \o LineWords(l))
    BY <1>4, <2>3, <2>5, <2>6, <2>8, Zenon
  <2> QED  BY <2>9
<1> QED  BY <1>1, <1>6, <1>7, <1>8, <1>9

\* A line adds its words to those of the text
LEMMA AllWordsGrow ==
  ASSUME NEW ls \in Seq(Line), NEW l \in Line
  PROVE  AllWords(Append(ls, l)) = AllWords(ls) \o LineWords(l)
<1> DEFINE ws(q) == [i \in DOMAIN q |-> IF q[i].kind = "words" THEN q[i].words ELSE << >>]
<1>1. \A k \in Line : LineWords(k) \in Seq(Word)
  BY TextAssumption DEF LineWords
<1>2. /\ Len(ls) \in Nat /\ DOMAIN ls = 1 .. Len(ls) /\ DOMAIN Append(ls, l) = 1 .. Len(ls) + 1
      /\ \A i \in 1 .. Len(ls) + 1 : Append(ls, l)[i] = IF i = Len(ls) + 1 THEN l ELSE ls[i]
      /\ \A i \in 1 .. Len(ls) : ls[i] \in Line
  OBVIOUS
<1>3. ws(ls) \in Seq(Seq(Word)) /\ Len(ws(ls)) = Len(ls)
  <2>1. \A i \in 1 .. Len(ls) : (IF ls[i].kind = "words" THEN ls[i].words ELSE << >>) \in Seq(Word)
    BY <1>1, <1>2 DEF LineWords
  <2> QED  BY <1>2, <2>1
<1>4. ws(Append(ls, l)) = Append(ws(ls), LineWords(l))
  BY <1>2, <1>3 DEF LineWords
<1>5. \A q : AllWords(q) = Joined(ws(q))
  BY DEF AllWords
<1> HIDE DEF ws
<1>6. Joined(Append(ws(ls), LineWords(l))) = Joined(ws(ls)) \o LineWords(l)
  BY <1>1, <1>3, JoinedGrows
<1> QED  BY <1>4, <1>5, <1>6

\* The blocks of a document hold its words
LEMMA BlocksOfADocument ==
  ASSUME NEW ls \in Seq(Line)
  PROVE  \E X : Blocks(ls) \in Seq(BlockUnder(X)) /\ WordsOf(Blocks(ls)) = AllWords(ls)
<1> DEFINE P == {q \in Seq(Line) : \E X : Reading(X, ReadTo(q), AllWords(q))}
<1>1. << >> \in P
  <2>1. << >> \in Seq({0}) /\ 0 \in {0} /\ << >> \in Seq(Line) /\ << >> \o << >> = << >> /\ << >> \in Words
        /\ [i \in DOMAIN << >> |-> IF << >>[i].kind = "words" THEN << >>[i].words ELSE << >>] = << >>
    BY DEF Words
  <2>2. ReadTo(<< >>) = NothingRead /\ AllWords(<< >>) = << >>
    BY <2>1, ReadToGrows, NoWords DEF AllWords
  <2>3. PICK X : X = {<< >>}
    OBVIOUS
  <2>4. PICK r : r = NothingRead
    OBVIOUS
  <2>5. r.blocks = << >> /\ r.para = << >> /\ r.path = << >> /\ r.page = 1 /\ r.starts = FALSE
        /\ r = [blocks |-> r.blocks, para |-> r.para, path |-> r.path, page |-> r.page, starts |-> r.starts]
    BY <2>4 DEF NothingRead
  <2>6. << >> \in Seq(BlockUnder(X)) /\ 1 \in Nat /\ << >> \in X
    BY <2>3
  <2>7. Reading(X, r, << >>)
    BY <2>1, <2>5, <2>6, NoWords DEF Reading
  <2> QED  BY <2>1, <2>2, <2>4, <2>7
<1>2. ASSUME NEW q \in Seq(Line), NEW e \in Line, q \in P PROVE Append(q, e) \in P
  <2>1. PICK X : Reading(X, ReadTo(q), AllWords(q))
    BY <1>2
  <2>2. \E Y : Reading(Y, ReadLine(ReadTo(q), e), AllWords(q) \o LineWords(e))
    BY <2>1, ALineIsRead
  <2>3. ReadTo(Append(q, e)) = ReadLine(ReadTo(q), e) /\ AllWords(Append(q, e)) = AllWords(q) \o LineWords(e)
    BY ReadToGrows, AllWordsGrow
  <2>4. Append(q, e) \in Seq(Line)
    OBVIOUS
  <2> QED  BY <2>2, <2>3, <2>4
<1> HIDE DEF P
<1>3. Seq(Line) \subseteq P
  BY <1>1, <1>2, ElementByElement
<1>4. PICK X : Reading(X, ReadTo(ls), AllWords(ls))
  BY <1>3 DEF P
<1>5. PICK f : f = Flushed(ReadTo(ls))
  OBVIOUS
<1>6. Reading(X, f, AllWords(ls)) /\ f.para = << >>
  BY <1>4, <1>5, AParagraphEnds
<1>7. f.blocks \in Seq(BlockUnder(X)) /\ WordsOf(f.blocks) \o << >> = AllWords(ls)
  BY <1>6, Zenon DEF Reading
<1>8. WordsOf(f.blocks) \o << >> = WordsOf(f.blocks)
  BY <1>7, WordsOfBlocks, ConcatEmptySeq
<1>9. Blocks(ls) = f.blocks
  BY <1>5, WhatIsFolded
<1> QED  BY <1>7, <1>8, <1>9

-----------------------------------------------------------------------------
(***************************************************************************)
(* The passages of a document                                              *)
(***************************************************************************)
ChunkUnder(X) == [blocks : Seq(FitUnder(X)) \ {<< >>}, overlap : Words]
ChunkOf(s)    == [blocks |-> s.current, overlap |-> s.overlap]
Held(cs)      == Joined([i \in DOMAIN cs |-> WordsOf(cs[i].blocks)])

\* What DocumentIsKept says of a passage, and of one that begins with a block after another
ChunkFits(c) ==
    \/ SizeOf(c.blocks) + Tokens(c.overlap) <= MaxTokens
    \/ Len(c.blocks) = 1 /\ (Tokens(WordsOf(c.blocks)) <= MaxTokens \/ Len(WordsOf(c.blocks)) = 1)
BeginsAfter(b, repeats, before) ==
    /\ IsSuffix(repeats, WordsOf(before.blocks))
    /\ \/ b.starts /\ SizeOf(before.blocks) + Tokens(before.overlap) >= MinTokens
       \/ SizeOf(before.blocks) + Tokens(before.overlap) + Tokens(b.words) > MaxTokens
    /\ ~b.starts /\ OverlapTokens > 0 => repeats # << >>
ComesAfter(cs, c) ==
    /\ ChunkFits(c)
    /\ cs = << >> => c.overlap = << >>
    /\ cs # << >> => BeginsAfter(c.blocks[1], c.overlap, cs[Len(cs)])

ChunksKept(X, cs, ws) ==
    /\ cs \in Seq(ChunkUnder(X)) /\ Held(cs) = ws
    /\ \A i \in 1 .. Len(cs) : ChunkFits(cs[i]) /\ (i = 1 => cs[i].overlap = << >>)
    /\ \A i \in 1 .. Len(cs) : i > 1 => BeginsAfter(cs[i].blocks[1], cs[i].overlap, cs[i - 1])

\* Nothing yet, or a passage being filled after those that are done
Filling(X, s, ws) ==
    /\ s = [chunks |-> s.chunks, current |-> s.current, overlap |-> s.overlap]
    /\ ChunkOf(s) \in ChunkUnder(X) /\ ComesAfter(s.chunks, ChunkOf(s))
    /\ \E done : ChunksKept(X, s.chunks, done) /\ done \o WordsOf(s.current) = ws
Packing(X, s, ws) == (s = Empty /\ ws = << >>) \/ Filling(X, s, ws)

\* A passage has words
LEMMA WordsOfAChunk ==
  ASSUME NEW X, NEW bs \in Seq(FitUnder(X)) \ {<< >>}
  PROVE  WordsOf(bs) \in Sentence /\ WordsOf(bs) \in Seq(Word)
<1>1. PICK U : U = FitUnder(X)
  OBVIOUS
<1>2. bs \in Seq(U) /\ bs # << >> /\ (\A u \in U : u.words \in Words /\ u.words \in Small(MaxTokens)) /\ << >> \in Seq(U)
  BY <1>1, BlocksHaveWords
<1>3. \A u \in U : u.words \in Words
  BY <1>2
<1>4. WordsOf(bs) \in Seq(Word)
  BY <1>2, <1>3, WordsTogether
<1>5. PICK ws : ws = [i \in DOMAIN bs |-> bs[i].words]
  OBVIOUS
<1>6. Len(bs) \in Nat \ {0} /\ DOMAIN bs = 1 .. Len(bs) /\ \A i \in 1 .. Len(bs) : bs[i] \in U
  BY <1>2
<1>7. PICK n \in Nat : n = Len(bs) /\ n # 0
  BY <1>6
<1>8. ws = [i \in 1 .. n |-> ws[i]] /\ (\A i \in 1 .. n : ws[i] \in Seq(Word)) /\ ws[1] = bs[1].words /\ 1 \in 1 .. n
  BY <1>3, <1>5, <1>6, <1>7 DEF Words
<1>9. ws \in Seq(Seq(Word)) /\ Len(ws) = n
  BY <1>8
<1>10. ws[1] # << >>
  BY <1>2, <1>6, <1>7, <1>8 DEF Small, Sentence
<1>11. Joined(ws) # << >>
  BY <1>8, <1>9, <1>10, JoinedIsThere
<1> QED  BY <1>4, <1>5, <1>11 DEF WordsOf, Sentence, Words

\* A passage that comes after others as it should is one of them
LEMMA AChunkIsAdded ==
  ASSUME NEW X, NEW cs, NEW ws, ChunksKept(X, cs, ws), NEW c \in ChunkUnder(X), ComesAfter(cs, c)
  PROVE  ChunksKept(X, Append(cs, c), ws \o WordsOf(c.blocks))
<1>1. PICK C : C = ChunkUnder(X)
  OBVIOUS
<1>2. cs \in Seq(C) /\ c \in C /\ Held(cs) = ws
  BY <1>1 DEF ChunksKept
<1>3. \A d \in C : WordsOf(d.blocks) \in Seq(Word)
  BY <1>1, WordsOfAChunk DEF ChunkUnder
<1>4. PICK n \in Nat : n = Len(cs)
  BY <1>2
<1>5. PICK longer : longer = Append(cs, c)
  OBVIOUS
<1>6. /\ longer \in Seq(C) /\ Len(longer) = n + 1 /\ DOMAIN cs = 1 .. n /\ DOMAIN longer = 1 .. n + 1
      /\ (\A i \in 1 .. n : longer[i] = cs[i] /\ cs[i] \in C) /\ longer[n + 1] = c
  BY <1>2, <1>4, <1>5
<1>7. Held(longer) = ws \o WordsOf(c.blocks)
  <2>1. PICK hs : hs = [i \in DOMAIN cs |-> WordsOf(cs[i].blocks)]
    OBVIOUS
  <2>2. hs \in Seq(Seq(Word)) /\ Len(hs) = n
    <3>1. hs = [i \in 1 .. n |-> hs[i]] /\ \A i \in 1 .. n : hs[i] \in Seq(Word)
      BY <1>3, <1>6, <2>1
    <3> QED  BY <3>1
  <2>3. [i \in DOMAIN longer |-> WordsOf(longer[i].blocks)] = Append(hs, WordsOf(c.blocks))
    BY <1>6, <2>1, <2>2
  <2>4. Joined(Append(hs, WordsOf(c.blocks))) = Joined(hs) \o WordsOf(c.blocks)
    <3>1. WordsOf(c.blocks) \in Seq(Word)
      BY <1>2, <1>3
    <3> QED  BY <2>2, <3>1, JoinedGrows
  <2> QED  BY <1>2, <2>1, <2>3, <2>4 DEF Held
<1>8. ASSUME NEW i \in 1 .. n + 1
      PROVE  /\ ChunkFits(longer[i]) /\ (i = 1 => longer[i].overlap = << >>)
             /\ i > 1 => BeginsAfter(longer[i].blocks[1], longer[i].overlap, longer[i - 1])
  <2>1. CASE i = n + 1
    <3>1. ChunkFits(c) /\ longer[i] = c
      BY <1>6, <2>1 DEF ComesAfter
    <3>2. i = 1 => c.overlap = << >>
      <4>1. i = 1 => cs = << >>
        BY <1>2, <1>4, <2>1
      <4> QED  BY <4>1 DEF ComesAfter
    <3>3. i > 1 => BeginsAfter(c.blocks[1], c.overlap, longer[i - 1])
      <4>1. i > 1 => cs # << >> /\ longer[i - 1] = cs[Len(cs)]
        <5>1. i > 1 => n \in 1 .. n /\ i - 1 = n /\ n # 0
          BY <2>1
        <5> QED  BY <1>2, <1>4, <1>6, <5>1
      <4> QED  BY <4>1 DEF ComesAfter
    <3> QED  BY <3>1, <3>2, <3>3
  <2>2. CASE i # n + 1
    <3>1. i \in 1 .. n /\ (i > 1 => i - 1 \in 1 .. n)
      BY <2>2
    <3>2. longer[i] = cs[i] /\ (i > 1 => longer[i - 1] = cs[i - 1])
      BY <1>6, <3>1
    <3>3. ChunkFits(cs[i]) /\ (i = 1 => cs[i].overlap = << >>)
          /\ (i > 1 => BeginsAfter(cs[i].blocks[1], cs[i].overlap, cs[i - 1]))
      BY <1>4, <3>1 DEF ChunksKept
    <3> QED  BY <3>2, <3>3
  <2> QED  BY <2>1, <2>2
<1> QED  BY <1>1, <1>5, <1>6, <1>7, <1>8 DEF ChunksKept

\* Without passages nothing is held
LEMMA NoChunks ==
  ASSUME NEW X
  PROVE  ChunksKept(X, << >>, << >>)
<1>1. << >> \in Seq(ChunkUnder(X)) /\ Len(<< >>) = 0 /\ 1 .. 0 = {} /\ [i \in DOMAIN << >> |-> WordsOf(<< >>[i].blocks)] = << >>
  OBVIOUS
<1>2. Held(<< >>) = << >>
  BY <1>1, NoWords DEF Held
<1> QED  BY <1>1, <1>2 DEF ChunksKept

\* The passage that was being filled is done
LEMMA APassageIsDone ==
  ASSUME NEW X, NEW s, NEW ws, Filling(X, s, ws)
  PROVE  /\ Emit(s) = [chunks |-> Append(s.chunks, ChunkOf(s)), current |-> << >>, overlap |-> << >>]
         /\ ChunksKept(X, Append(s.chunks, ChunkOf(s)), ws) /\ s.chunks \in Seq(ChunkUnder(X))
<1>1. PICK c : c = ChunkOf(s)
  OBVIOUS
<1>2. c.blocks = s.current /\ c.overlap = s.overlap /\ c \in ChunkUnder(X) /\ ComesAfter(s.chunks, c)
  BY <1>1 DEF ChunkOf, Filling
<1>3. s.current # << >>
  BY <1>2 DEF ChunkUnder
<1>4. PICK done : ChunksKept(X, s.chunks, done) /\ done \o WordsOf(c.blocks) = ws
  BY <1>2 DEF Filling
<1>5. ChunksKept(X, Append(s.chunks, c), ws)
  BY <1>2, <1>4, AChunkIsAdded
<1> QED  BY <1>1, <1>3, <1>4, <1>5 DEF Emit, ChunkOf, ChunksKept

\* A block that begins a passage of its own
LEMMA APassageBegins ==
  ASSUME NEW X, NEW cs, NEW ws, ChunksKept(X, cs, ws), NEW b \in FitUnder(X), NEW o \in Words,
         cs = << >> => o = << >>, cs # << >> => BeginsAfter(b, o, cs[Len(cs)])
  PROVE  Filling(X, [chunks |-> cs, current |-> <<b>>, overlap |-> o], ws \o b.words)
<1>1. PICK s : s = [chunks |-> cs, current |-> <<b>>, overlap |-> o]
  OBVIOUS
<1>2. s.chunks = cs /\ s.current = <<b>> /\ s.overlap = o
      /\ s = [chunks |-> s.chunks, current |-> s.current, overlap |-> s.overlap]
  BY <1>1
<1>3. <<b>> \in Seq(FitUnder(X)) /\ <<b>> # << >> /\ <<b>>[1] = b /\ Len(<<b>>) = 1 /\ << >> \in Seq(FitUnder(X))
  OBVIOUS
<1>4. PICK c : c = ChunkOf(s)
  OBVIOUS
<1>5. c = [blocks |-> <<b>>, overlap |-> o] /\ c.blocks = <<b>> /\ c.overlap = o
  BY <1>2, <1>4 DEF ChunkOf
<1>6. c \in ChunkUnder(X)
  <2>1. <<b>> \in Seq(FitUnder(X)) \ {<< >>}
    BY <1>3
  <2> QED  BY <1>5, <2>1 DEF ChunkUnder
<1>7. WordsOf(<<b>>) = b.words
  BY <1>3, WordsOfOne, BlocksHaveWords
<1>8. ChunkFits(c)
  <2>1. Tokens(b.words) <= MaxTokens \/ Len(b.words) = 1
    BY BlocksHaveWords DEF Small
  <2> QED  BY <1>3, <1>5, <1>7, <2>1 DEF ChunkFits
<1>9. ComesAfter(cs, c)
  <2>1. c.blocks[1] = b
    BY <1>3, <1>5
  <2> QED  BY <1>5, <1>8, <2>1 DEF ComesAfter
<1>10. ChunksKept(X, s.chunks, ws) /\ ws \o WordsOf(s.current) = ws \o b.words
  BY <1>2, <1>7
<1>11. Filling(X, s, ws \o b.words)
  BY <1>2, <1>4, <1>6, <1>9, <1>10 DEF Filling
<1> QED  BY <1>1, <1>11

\* A block that is added to the passage being filled
LEMMA APassageGoesOn ==
  ASSUME NEW X, NEW s, NEW ws, Filling(X, s, ws), NEW b \in FitUnder(X),
         SizeOf(s.current) + Tokens(s.overlap) + Tokens(b.words) <= MaxTokens
  PROVE  Filling(X, [chunks |-> s.chunks, current |-> Append(s.current, b), overlap |-> s.overlap], ws \o b.words)
<1>1. PICK cs, cur, o, U : cs = s.chunks /\ cur = s.current /\ o = s.overlap /\ U = FitUnder(X)
  OBVIOUS
<1>2. PICK c : c = ChunkOf(s)
  OBVIOUS
<1>3. c.blocks = cur /\ c.overlap = o /\ c \in ChunkUnder(X) /\ ComesAfter(cs, c)
  BY <1>1, <1>2 DEF ChunkOf, Filling
<1>4. cur \in Seq(U) /\ cur # << >> /\ o \in Words /\ b \in U
  BY <1>1, <1>3 DEF ChunkUnder
<1>5. PICK done : ChunksKept(X, cs, done) /\ done \o WordsOf(cur) = ws
  BY <1>1 DEF Filling
<1>6. PICK t : t = [chunks |-> cs, current |-> Append(cur, b), overlap |-> o]
  OBVIOUS
<1>7. t.chunks = cs /\ t.current = Append(cur, b) /\ t.overlap = o
      /\ t = [chunks |-> t.chunks, current |-> t.current, overlap |-> t.overlap]
  BY <1>6
<1>8. PICK d : d = ChunkOf(t)
  OBVIOUS
<1>9. d = [blocks |-> Append(cur, b), overlap |-> o] /\ d.blocks = Append(cur, b) /\ d.overlap = o
  BY <1>7, <1>8 DEF ChunkOf
<1>10. Append(cur, b) \in Seq(U) /\ Append(cur, b) # << >> /\ Append(cur, b)[1] = cur[1]
  <2>1. Len(cur) \in Nat \ {0}
    BY <1>4, EmptySeq
  <2>2. 1 \in 1 .. Len(cur)
    BY <2>1
  <2> QED  BY <1>4, <2>2, AppendProperties
<1>11. d \in ChunkUnder(X)
  BY <1>1, <1>4, <1>9, <1>10 DEF ChunkUnder
<1>12. /\ WordsOf(Append(cur, b)) = WordsOf(cur) \o b.words
       /\ SizeOf(Append(cur, b)) = SizeOf(cur) + Tokens(b.words) /\ SizeOf(cur) \in Nat
  <2>1. \A u \in U : u.words \in Words
    BY <1>1, BlocksHaveWords
  <2> QED  BY <1>4, <2>1, WordsOfOne
<1>13. b.words \in Seq(Word) /\ Tokens(b.words) \in Nat /\ Tokens(o) \in Nat
  <2>1. b.words \in Words
    BY BlocksHaveWords
  <2> QED  BY <1>4, <2>1, TokensAreNat DEF Words
<1>14. ChunkFits(d)
  <2>1. (SizeOf(cur) + Tokens(b.words)) + Tokens(o) = SizeOf(cur) + Tokens(o) + Tokens(b.words)
    BY <1>12, <1>13
  <2> QED  BY <1>1, <1>9, <1>12, <2>1 DEF ChunkFits
<1>15. ComesAfter(cs, d)
  <2>1. d.blocks[1] = c.blocks[1] /\ d.overlap = c.overlap
    BY <1>3, <1>9, <1>10
  <2> QED  BY <1>3, <1>14, <2>1 DEF ComesAfter
<1>16. done \o WordsOf(t.current) = ws \o b.words
  <2>1. done \in Seq(Word)
    <3>1. cs \in Seq(ChunkUnder(X)) /\ Held(cs) = done
      BY <1>5 DEF ChunksKept
    <3>2. PICK C, n : C = ChunkUnder(X) /\ n = Len(cs)
      OBVIOUS
    <3>3. cs \in Seq(C) /\ n \in Nat /\ DOMAIN cs = 1 .. n /\ \A i \in 1 .. n : cs[i] \in C
      BY <3>1, <3>2
    <3>4. \A e \in C : WordsOf(e.blocks) \in Seq(Word)
      BY <3>2, WordsOfAChunk DEF ChunkUnder
    <3>5. PICK hs : hs = [i \in DOMAIN cs |-> WordsOf(cs[i].blocks)]
      OBVIOUS
    <3>6. hs = [i \in 1 .. n |-> hs[i]] /\ \A i \in 1 .. n : hs[i] \in Seq(Word)
      BY <3>3, <3>4, <3>5
    <3>7. hs \in Seq(Seq(Word))
      BY <3>3, <3>6
    <3> QED  BY <3>1, <3>5, <3>7, JoinedIsASequence DEF Held
  <2>2. WordsOf(cur) \in Seq(Word)
    BY <1>1, <1>4, WordsOfAChunk
  <2>3. (done \o WordsOf(cur)) \o b.words = done \o (WordsOf(cur) \o b.words)
    <3>1. \A x, y, z \in Seq(Word) : (x \o y) \o z = x \o (y \o z)
      BY ConcatAssociative
    <3> QED  BY <1>13, <2>1, <2>2, <3>1, Zenon
  <2> QED  BY <1>5, <1>7, <1>12, <2>3
<1>17. ChunksKept(X, t.chunks, done)
  BY <1>5, <1>7
<1>18. Filling(X, t, ws \o b.words)
  BY <1>7, <1>8, <1>11, <1>15, <1>16, <1>17 DEF Filling
<1> QED  BY <1>1, <1>6, <1>18

\* A block goes on with the passage being filled, or begins one after it
LEMMA ABlockIsAdded ==
  ASSUME NEW X, NEW s, NEW ws, Packing(X, s, ws), NEW b \in FitUnder(X)
  PROVE  Packing(X, AddBlock(s, b), ws \o b.words)
<1>1. b.words \in Seq(Word) /\ Tokens(b.words) \in Nat /\ << >> \in Words /\ MaxTokens \in Nat
  <2>1. b.words \in Words
    BY BlocksHaveWords
  <2> QED  BY <2>1, TokensAreNat, TextAssumption DEF Words
<1>2. CASE s = Empty /\ ws = << >>
  <2>1. s = [chunks |-> << >>, current |-> << >>, overlap |-> << >>] /\ s.current = << >> /\ s.chunks = << >> /\ s.overlap = << >>
    BY <1>2 DEF Empty
  <2>2. ~SectionEnds(s, b) /\ ~IsFull(s, b)
    BY <2>1 DEF SectionEnds, IsFull
  <2>3. AddBlock(s, b) = [s EXCEPT !.current = Append(s.current, b)]
    BY <2>2 DEF AddBlock
  <2>4. Append(<< >>, b) = <<b>>
    OBVIOUS
  <2>5. AddBlock(s, b) = [chunks |-> << >>, current |-> <<b>>, overlap |-> << >>]
    BY <2>1, <2>3, <2>4
  <2>6. Filling(X, [chunks |-> << >>, current |-> <<b>>, overlap |-> << >>], << >> \o b.words)
    <3>1. PICK cs, o : cs = << >> /\ o = << >>
      OBVIOUS
    <3>2. ChunksKept(X, cs, << >>) /\ o \in Words
      BY <1>1, <3>1, NoChunks
    <3>3. Filling(X, [chunks |-> cs, current |-> <<b>>, overlap |-> o], << >> \o b.words)
      BY <3>1, <3>2, APassageBegins
    <3> QED  BY <3>1, <3>3
  <2> QED  BY <1>2, <2>5, <2>6 DEF Packing
<1>3. CASE Filling(X, s, ws)
  <2>1. /\ Emit(s) = [chunks |-> Append(s.chunks, ChunkOf(s)), current |-> << >>, overlap |-> << >>]
        /\ ChunksKept(X, Append(s.chunks, ChunkOf(s)), ws) /\ s.chunks \in Seq(ChunkUnder(X))
    BY <1>3, APassageIsDone
  <2>2. PICK cs, c : cs = Append(s.chunks, ChunkOf(s)) /\ c = ChunkOf(s)
    OBVIOUS
  <2>20. PICK em : em = Emit(s)
    OBVIOUS
  <2>21. em = [chunks |-> cs, current |-> << >>, overlap |-> << >>]
    BY <2>1, <2>2, <2>20
  <2>3. c.blocks = s.current /\ c.overlap = s.overlap /\ c \in ChunkUnder(X)
    BY <1>3, <2>2 DEF ChunkOf, Filling
  <2>4. cs # << >> /\ cs[Len(cs)] = c
    <3>1. PICK n \in Nat : n = Len(s.chunks)
      BY <2>1
    <3>2. cs # << >> /\ Len(cs) = n + 1 /\ cs[n + 1] = c
      BY <2>1, <2>2, <2>3, <3>1, AppendProperties
    <3> QED  BY <3>2
  <2>5. s.current \in Seq(FitUnder(X)) \ {<< >>} /\ s.overlap \in Words /\ s.current # << >>
    BY <2>3 DEF ChunkUnder
  <2>6. SizeOf(s.current) \in Nat /\ Tokens(s.overlap) \in Nat
    <3>1. SizeOf(s.current) \in Nat
      <4>1. s.current \in Seq(FitUnder(X)) /\ \A u \in FitUnder(X) : u.words \in Words
        BY <2>5, BlocksHaveWords
      <4> QED  BY <4>1, WordsOfOne
    <3> QED  BY <2>5, <3>1, TokensAreNat
  <2>7. Append(<< >>, b) = <<b>>
    OBVIOUS
  <2>8. CASE SectionEnds(s, b)
    <3>1. AddBlock(s, b) = [em EXCEPT !.current = Append(em.current, b)]
      BY <2>8, <2>20 DEF AddBlock
    <3>2. AddBlock(s, b) = [chunks |-> cs, current |-> <<b>>, overlap |-> << >>]
      BY <2>7, <2>21, <3>1
    <3>3. PICK o : o = << >>
      OBVIOUS
    <3>4. BeginsAfter(b, o, c)
      <4>1. IsSuffix(<< >>, WordsOf(s.current))
        <5>1. WordsOf(s.current) \in Seq(Word) /\ << >> \in Seq(Word)
          BY <2>5, WordsOfAChunk
        <5>2. WordsOf(s.current) \o << >> = WordsOf(s.current)
          BY <5>1, ConcatEmptySeq
        <5>3. IsSuffix(<< >>, WordsOf(s.current) \o << >>)
          BY <5>1, TheEndOfAText
        <5> QED  BY <5>2, <5>3
      <4>2. b.starts /\ SizeOf(c.blocks) + Tokens(c.overlap) >= MinTokens
        BY <2>3, <2>8 DEF SectionEnds
      <4> QED  BY <2>3, <3>3, <4>1, <4>2 DEF BeginsAfter
    <3>5. Filling(X, [chunks |-> cs, current |-> <<b>>, overlap |-> o], ws \o b.words)
      <4>1. ChunksKept(X, cs, ws) /\ o \in Words
        BY <1>1, <2>1, <2>2, <3>3
      <4> QED  BY <2>4, <3>3, <3>4, <4>1, APassageBegins
    <3> QED  BY <3>2, <3>3, <3>5 DEF Packing
  <2>9. CASE ~SectionEnds(s, b) /\ IsFull(s, b)
    <3>1. PICK o : o = RepeatedEnd(WordsOf(s.current))
      OBVIOUS
    <3>2. PICK e : e = [em EXCEPT !.overlap = o]
      OBVIOUS
    <3>3. AddBlock(s, b) = [e EXCEPT !.current = Append(e.current, b)]
      BY <2>9, <2>20, <3>1, <3>2 DEF AddBlock
    <3>4. e = [chunks |-> cs, current |-> << >>, overlap |-> o]
      BY <2>21, <3>2
    <3>5. AddBlock(s, b) = [chunks |-> cs, current |-> <<b>>, overlap |-> o]
      BY <2>7, <3>3, <3>4
    <3>6. o \in Words /\ IsSuffix(o, WordsOf(s.current)) /\ (OverlapTokens > 0 => o # << >>)
      <4>1. WordsOf(s.current) \in Sentence
        BY <2>5, WordsOfAChunk
      <4> QED  BY <3>1, <4>1, TheEndIsRepeated
    <3>7. BeginsAfter(b, o, c)
      <4>1. SizeOf(c.blocks) + Tokens(c.overlap) + Tokens(b.words) > MaxTokens
        BY <2>3, <2>9 DEF IsFull
      <4> QED  BY <2>3, <3>6, <4>1 DEF BeginsAfter
    <3>8. Filling(X, [chunks |-> cs, current |-> <<b>>, overlap |-> o], ws \o b.words)
      <4>1. ChunksKept(X, cs, ws) /\ o \in Words
        BY <2>1, <2>2, <3>6
      <4> QED  BY <2>4, <3>7, <4>1, APassageBegins
    <3> QED  BY <3>5, <3>8 DEF Packing
  <2>10. CASE ~SectionEnds(s, b) /\ ~IsFull(s, b)
    <3>1. AddBlock(s, b) = [s EXCEPT !.current = Append(s.current, b)]
      BY <2>10 DEF AddBlock
    <3>2. AddBlock(s, b) = [chunks |-> s.chunks, current |-> Append(s.current, b), overlap |-> s.overlap]
      <4>1. s = [chunks |-> s.chunks, current |-> s.current, overlap |-> s.overlap]
        BY <1>3 DEF Filling
      <4> QED  BY <3>1, <4>1
    <3>3. SizeOf(s.current) + Tokens(s.overlap) + Tokens(b.words) <= MaxTokens
      BY <1>1, <2>5, <2>6, <2>10 DEF IsFull
    <3>4. Filling(X, [chunks |-> s.chunks, current |-> Append(s.current, b), overlap |-> s.overlap], ws \o b.words)
      BY <1>3, <3>3, APassageGoesOn
    <3> QED  BY <3>2, <3>4 DEF Packing
  <2> QED  BY <2>8, <2>9, <2>10
<1> QED  BY <1>2, <1>3 DEF Packing

\* So are all the blocks packed
LEMMA BlocksArePacked ==
  ASSUME NEW X, NEW bs \in Seq(FitUnder(X))
  PROVE  Packing(X, Packed(bs), WordsOf(bs))
<1> DEFINE P == {q \in Seq(FitUnder(X)) : Packing(X, Packed(q), WordsOf(q))}
<1>1. << >> \in P
  <2>1. << >> \in Seq({0}) /\ 0 \in {0} /\ << >> \in Seq(FitUnder(X))
    OBVIOUS
  <2>2. Packed(<< >>) = Empty
    BY <2>1, PackedGrows
  <2> QED  BY <2>1, <2>2, NoWords DEF Packing
<1>2. ASSUME NEW q \in Seq(FitUnder(X)), NEW e \in FitUnder(X), q \in P PROVE Append(q, e) \in P
  <2>1. Packed(Append(q, e)) = AddBlock(Packed(q), e)
    BY PackedGrows
  <2>2. WordsOf(Append(q, e)) = WordsOf(q) \o e.words
    BY WordsOfOne, BlocksHaveWords
  <2>3. Packing(X, AddBlock(Packed(q), e), WordsOf(q) \o e.words)
    BY <1>2, ABlockIsAdded
  <2>4. Append(q, e) \in Seq(FitUnder(X))
    OBVIOUS
  <2> QED  BY <2>1, <2>2, <2>3, <2>4
<1> HIDE DEF P
<1>3. Seq(FitUnder(X)) \subseteq P
  BY <1>1, <1>2, ElementByElement
<1> QED  BY <1>3 DEF P

\* The passages of any document hold its words, and are cut as DocumentIsKept says
LEMMA PassagesOfADocument ==
  ASSUME NEW ls \in Seq(Line)
  PROVE  \E X : ChunksKept(X, ChunkDocument(ls), AllWords(ls))
<1>1. PICK X : Blocks(ls) \in Seq(BlockUnder(X)) /\ WordsOf(Blocks(ls)) = AllWords(ls)
  BY BlocksOfADocument
<1>2. PICK bs : bs = AllPieces(Blocks(ls))
  OBVIOUS
<1>3. bs \in Seq(FitUnder(X)) /\ WordsOf(bs) = AllWords(ls)
  BY <1>1, <1>2, PiecesOfTheBlocks
<1>4. PICK s : s = Packed(bs)
  OBVIOUS
<1>5. ChunkDocument(ls) = Emit(s).chunks
  BY <1>2, <1>4 DEF ChunkDocument, AllPieces, Packed, FoldLeft, MapThenFoldSet
<1>6. Packing(X, s, AllWords(ls))
  BY <1>3, <1>4, BlocksArePacked
<1>7. CASE s = Empty /\ AllWords(ls) = << >>
  <2>1. Emit(s).chunks = << >>
    BY <1>7 DEF Emit, Empty
  <2> QED  BY <1>5, <1>7, <2>1, NoChunks
<1>8. CASE Filling(X, s, AllWords(ls))
  <2>1. /\ Emit(s) = [chunks |-> Append(s.chunks, ChunkOf(s)), current |-> << >>, overlap |-> << >>]
        /\ ChunksKept(X, Append(s.chunks, ChunkOf(s)), AllWords(ls))
    BY <1>8, APassageIsDone
  <2>2. Emit(s).chunks = Append(s.chunks, ChunkOf(s))
    BY <2>1
  <2> QED  BY <1>5, <2>1, <2>2
<1> QED  BY <1>6, <1>7, <1>8 DEF Packing

\* So are those of the document that was uploaded
LEMMA DocumentStaysWhole ==
  ASSUME extracted \in Seq(Line)
  PROVE  DocumentIsKept
<1>1. PICK cs : cs = ChunkDocument(extracted)
  OBVIOUS
<1>2. PICK X : ChunksKept(X, cs, AllWords(extracted))
  BY <1>1, PassagesOfADocument
<1>3. DOMAIN cs = 1 .. Len(cs) /\ Joined([i \in DOMAIN cs |-> WordsOf(cs[i].blocks)]) = AllWords(extracted)
  BY <1>2 DEF ChunksKept, Held
<1>4. ASSUME NEW i \in DOMAIN cs
      PROVE  /\ \/ SizeOf(cs[i].blocks) + Tokens(cs[i].overlap) <= MaxTokens
                \/ Len(cs[i].blocks) = 1 /\ (Tokens(WordsOf(cs[i].blocks)) <= MaxTokens \/ Len(WordsOf(cs[i].blocks)) = 1)
             /\ i = 1 => cs[i].overlap = << >>
             /\ i > 1 =>
                  /\ IsSuffix(cs[i].overlap, WordsOf(cs[i - 1].blocks))
                  /\ \/ cs[i].blocks[1].starts /\ SizeOf(cs[i - 1].blocks) + Tokens(cs[i - 1].overlap) >= MinTokens
                     \/ SizeOf(cs[i - 1].blocks) + Tokens(cs[i - 1].overlap) + Tokens(cs[i].blocks[1].words) > MaxTokens
                  /\ ~cs[i].blocks[1].starts /\ OverlapTokens > 0 => cs[i].overlap # << >>
  BY <1>2, <1>3, <1>4 DEF ChunksKept, ChunkFits, BeginsAfter
<1> QED  BY <1>1, <1>3, <1>4 DEF DocumentIsKept

-----------------------------------------------------------------------------
\* Whatever is written is a text and a talk
TextInv == extracted \in Seq(Line) /\ talk \in Seq(Segment)

\* No line and no segment is a text and a talk
LEMMA TextBegins == PassageInit => TextInv
BY DEF PassageInit, TextInv

\* A line more is a text, a segment more a talk
LEMMA TextSteps ==
  ASSUME TextInv, [PassageNext]_textVars
  PROVE  TextInv'
<1>1. CASE NextLine
  <2>1. PICK l \in Line : extracted' = Append(extracted, l)
    BY <1>1 DEF NextLine
  <2>2. Append(extracted, l) \in Seq(Line) /\ talk' = talk
    BY <1>1, AppendProperties DEF NextLine, TextInv
  <2> QED  BY <2>1, <2>2 DEF TextInv
<1>2. CASE NextSegment
  <2>1. PICK s \in Segment : talk' = Append(talk, s)
    BY <1>2 DEF NextSegment
  <2>2. Append(talk, s) \in Seq(Segment) /\ extracted' = extracted
    BY <1>2, AppendProperties DEF NextSegment, TextInv
  <2> QED  BY <2>1, <2>2 DEF TextInv
<1>3. CASE UNCHANGED textVars
  BY <1>3 DEF textVars, TextInv
<1> QED  BY <1>1, <1>2, <1>3 DEF PassageNext

\* What is a text and a talk is kept
LEMMA TextIsKept ==
  ASSUME TextInv
  PROVE  PassagesKeepTheText
BY DocumentStaysWhole, TalkStaysWhole DEF TextInv, PassagesKeepTheText

-----------------------------------------------------------------------------
(***************************************************************************)
(* The results                                                             *)
(***************************************************************************)
LibraryInv == RecInv /\ SpeakerInv /\ DocInv /\ IndexInv /\ TextInv

\* They are parts of what was checked that leave one another alone
LEMMA PartsKeepTheirInvariant == LibrarySpec => []LibraryInv
<1>1. LibraryInit => LibraryInv
  BY RecBegins, SpeakersBegin, DocBegins, IndexBegins, TextBegins DEF LibraryInit, LibraryInv
<1>2. ASSUME LibraryInv, [LibraryNext]_libraryVars PROVE LibraryInv'
  <2>1. [RecNext]_recVars /\ [SpeakerNext]_speakerVars /\ [DocNext]_docVars /\ [IndexNext]_indexVars /\ [PassageNext]_textVars
    BY <1>2 DEF LibraryNext, libraryVars, RecordingsAlone, SpeakersAlone, DocumentsAlone, KnowledgeAlone, PassagesAlone
  <2> QED  BY <1>2, <2>1, RecSteps, SpeakerSteps, DocSteps, IndexSteps, TextSteps DEF LibraryInv
<1> QED  BY <1>1, <1>2, PTL DEF LibrarySpec

\* Every row of a recording, its speakers, a document and a knowledge base has
\* its type, and every bound is kept, for any bounds, speakers and documents.
THEOREM LibraryIsTyped == LibrarySpec => []LibraryTypeOK
<1>1. LibraryInv => LibraryTypeOK
  BY RecInvSuffices, SpeakerInvSuffices DEF LibraryInv, LibraryTypeOK, DocInv, IndexInv, IndexTypes
<1> QED  BY <1>1, PartsKeepTheirInvariant, PTL

\* Nobody is answered from what is no longer there: deleting a document takes
\* its chunks out of the index even while the worker writes them, an index that
\* reads "succeeded" is exactly the evidence of its meetings, and a saved answer
\* quotes only what is still true and opted in (IndexingWorker.index_document,
\* DocumentService.delete, KnowledgeIndexService.reindex, save_exchange), for any
\* documents, meetings, models and any number of changes, faults and restarts.
THEOREM AnswersAreCurrent == LibrarySpec => []FoundIsCurrent
<1>1. LibraryInv => FoundIsCurrent
  BY ServedIsThere DEF FoundIsCurrent, DocInv, LibraryInv
<1> QED  BY <1>1, PartsKeepTheirInvariant, PTL

\* Two voices of a part never share a letter, no name is proposed for two
\* speakers unless the voices of two people of that name were recognised, and what
\* a person reviewed is shown as reviewed even when a refresh asked before writes
\* its older suggestions (reconcile, merge, _unique_names, _rows), for any voices,
\* people and confidences and any order of parts, suggestions and reviews.
THEOREM SpeakersStayApart == LibrarySpec => []SpeakersApart
<1>1. LibraryInv => SpeakersApart
  BY SpeakerInvSuffices DEF LibraryInv
<1> QED  BY <1>1, PartsKeepTheirInvariant, PTL


\* What people bring in stays whole: every piece of audio a recording took is in
\* the transcript its meeting gets, and stored until then, through the ends of the
\* process and retries, unless a person discarded it or nobody touched it for a
\* day (add_chunk, _part_audio, finalize); the passages of a document hold each of
\* its words once and in order and are as full as they may be, the turns of a talk
\* each of its segments (chunk_document, group_turns).  For texts and talks of any
\* length and any limits.
THEOREM NothingIsEverLost == LibrarySpec => []NothingIsLost
<1>1. LibraryInv => NothingIsLost
  BY RecInvSuffices, TextIsKept DEF LibraryInv, NothingIsLost
<1> QED  BY <1>1, PartsKeepTheirInvariant, PTL
=============================================================================
