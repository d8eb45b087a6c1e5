--------------------------- MODULE KnowledgeIndex ---------------------------
(***************************************************************************)
(* The index of one knowledge base (knowledge_index.py), the changes to its *)
(* meetings that purge and queue it (sqlalchemy_repository.py,              *)
(* knowledge_bases.py), and the answers given from it (knowledge_service.py)*)
(*                                                                         *)
(* A chunk is a meeting with the revision of the evidence it was made from. *)
(* Two runners index: the worker of the leading process, and a person's     *)
(* request in any process; ChunkStore keeps one lock per unit, but each     *)
(* process has its own.  requested_at is a counter: its value only tells    *)
(* one request from another.                                               *)
(***************************************************************************)
EXTENDS Integers, FiniteSets

CONSTANTS Talk,            \* completed meetings
          OneProcess,      \* the worker and the request share a process
          MaxChanges,      \* bound: changes of evidence, settings and sharing
          MaxAnswers,      \* bound: saved conversations
          MaxIndexFaults   \* bound: failed calls and ends of the process

ASSUME IndexAssumption == MaxChanges \in Nat /\ MaxIndexFaults \in Nat

VARIABLES talks,     \* [gone, inBase, enabled, rev] of every meeting
          wiki,      \* the KnowledgeBaseRow exists
          indexJob,  \* KnowledgeIndexJobRow: [st, requested]
          copies,    \* KnowledgeChunkRow of the base: <<meeting, revision>>
          runner,    \* reindex under way of the worker and of a person
          saved,     \* saved conversations: [cited, late], late if what they cite
                     \* had changed before they were saved (history)
          asking,    \* an answer under way: the evidence it was given
          emptied,   \* history: the index was purged and not made again since
          changes, indexFaults

indexVars == <<talks, wiki, indexJob, copies, runner, saved, asking, emptied, changes, indexFaults>>

Runner == {"worker", "person"}
NoJob  == [st |-> "none", requested |-> 0]
Off    == [pc |-> "off", taken |-> 0, start |-> 0, sources |-> {}, existing |-> {}]
NotAsking == [on |-> FALSE, given |-> {}]
Evidence  == Talk \X (0..MaxChanges)

TalkRow   == [gone : BOOLEAN, inBase : BOOLEAN, enabled : BOOLEAN, rev : 0..MaxChanges]
IndexJobRow == [st : {"none", "pending", "running", "failed", "succeeded"}, requested : 0..MaxChanges + 2]
Conversation == [cited : SUBSET Evidence, late : BOOLEAN]

IndexTypeOK ==
    /\ talks \in [Talk -> TalkRow]
    /\ wiki \in BOOLEAN
    /\ indexJob \in IndexJobRow
    /\ copies \subseteq Evidence
    /\ \A r \in Runner : /\ runner[r].pc \in {"off", "taken", "queues", "waits", "embeds", "marks"}
                         /\ runner[r].sources \cup runner[r].existing \subseteq Evidence
    /\ \A c \in saved : c \in Conversation
    /\ asking.given \subseteq Evidence
    /\ emptied \in BOOLEAN /\ changes \in 0..MaxChanges /\ indexFaults \in 0..MaxIndexFaults

\* candidate_sources: the evidence of the base as it is now
Current == {<<t, talks[t].rev>> : t \in {u \in Talk : ~talks[u].gone /\ talks[u].inBase /\ talks[u].enabled}}
NobodyIndexes   == \A r \in Runner : runner[r] = Off

-----------------------------------------------------------------------------
(***************************************************************************)
(* Plausible bugs, see PROJECT.json                                        *)
(***************************************************************************)
AnyRequestServed(r) == indexJob.st # "none"
KeepsConversations(t) == saved

-----------------------------------------------------------------------------
(***************************************************************************)
(* Changes of a meeting                                                    *)
(***************************************************************************)

\* _queue_knowledge_index, given the association as the transaction leaves it
Queued(inBase) == IF wiki /\ inBase
                  THEN indexJob' = [st |-> "pending", requested |-> changes + 2]
                  ELSE UNCHANGED indexJob

Purged(t) == {c \in copies : c[1] # t}                    \* _purge_knowledge_embeddings

\* _delete_cited_conversations
Uncited(t) == {c \in saved : \A e \in c.cited : e[1] # t}

Count == changes < MaxChanges /\ changes' = changes + 1

\* replace_transcript, correct_speaker, save_minutes and delete_minutes: the
\* evidence changes, its copies and the answers that quote it go
ChangeEvidence(t) ==
    /\ Count /\ ~talks[t].gone
    /\ talks' = [talks EXCEPT ![t].rev = @ + 1]
    /\ copies' = Purged(t) /\ saved' = Uncited(t)
    /\ Queued(talks[t].inBase)
    /\ UNCHANGED <<wiki, runner, asking, indexFaults, emptied>>

\* save_knowledge_settings
SetKnowledge(t, on) ==
    /\ Count /\ ~talks[t].gone
    /\ talks' = [talks EXCEPT ![t].enabled = on]
    /\ copies' = Purged(t)
    /\ saved' = IF on THEN saved ELSE Uncited(t)
    /\ Queued(talks[t].inBase)
    /\ UNCHANGED <<wiki, runner, asking, indexFaults, emptied>>

\* assign_meeting to the base, or to none
AssignMeeting(t, in) ==
    /\ Count /\ ~talks[t].gone /\ (in => wiki)
    /\ talks' = [talks EXCEPT ![t].inBase = in]
    /\ IF talks[t].inBase /\ ~in THEN copies' = Purged(t) /\ saved' = Uncited(t)
                                 ELSE UNCHANGED <<copies, saved>>
    /\ Queued(talks[t].inBase \/ in)
    /\ UNCHANGED <<wiki, runner, asking, indexFaults, emptied>>

DeleteMeeting(t) ==
    /\ Count /\ ~talks[t].gone
    /\ talks' = [talks EXCEPT ![t].gone = TRUE, ![t].inBase = FALSE]
    /\ copies' = Purged(t) /\ saved' = Uncited(t)
    /\ Queued(talks[t].inBase)
    /\ UNCHANGED <<wiki, runner, asking, indexFaults, emptied>>

\* KnowledgeBaseService.delete_base
DeleteWiki ==
    /\ Count /\ wiki /\ wiki' = FALSE
    /\ talks' = [t \in Talk |-> [talks[t] EXCEPT !.inBase = FALSE,
                                                 !.enabled = @ /\ ~talks[t].inBase]]
    /\ indexJob' = NoJob /\ copies' = {} /\ saved' = {}
    /\ UNCHANGED <<runner, asking, indexFaults, emptied>>

\* StoragePurgeService: the copies go; the base is queued again if asked
PurgeCopies(reindex) ==
    /\ Count /\ wiki
    /\ copies' = {} /\ emptied' = ~reindex
    /\ IF reindex THEN indexJob' = [st |-> "pending", requested |-> changes + 2] ELSE UNCHANGED indexJob
    /\ UNCHANGED <<talks, wiki, runner, saved, asking, indexFaults>>

\* Old or chosen conversations, by the purge and by the retention policy
PurgeChats(old) ==
    /\ old # {} /\ old \subseteq saved /\ saved' = saved \ old
    /\ UNCHANGED <<talks, wiki, indexJob, copies, runner, asking, emptied, changes, indexFaults>>

-----------------------------------------------------------------------------
(***************************************************************************)
(* Indexing                                                                *)
(***************************************************************************)

\* process_pending takes a job: pending, failed and due, or running in a
\* process that is gone (the worker itself takes one job at a time)
TakeJob ==
    /\ runner["worker"] = Off /\ indexJob.st \in {"pending", "failed", "running"}
    /\ indexJob' = [indexJob EXCEPT !.st = "running"]
    /\ runner' = [runner EXCEPT !["worker"] = [Off EXCEPT !.pc = "taken", !.taken = indexJob.requested]]
    /\ UNCHANGED <<talks, wiki, copies, saved, asking, changes, indexFaults, emptied>>

Others(r, pcs) == OneProcess /\ \E q \in Runner \ {r} : runner[q].pc \in pcs

\* reindex() up to the lock of the unit: the request and the sources it sees.
\* The lock is fair, and one that is free is taken without an await.
Begin(r) ==
    /\ wiki
    /\ runner[r].pc = (IF r = "worker" THEN "taken" ELSE "off")
    /\ runner' = [runner EXCEPT ![r] = [@ EXCEPT
                     !.pc = IF Others(r, {"waits"}) THEN "queues"
                            ELSE IF OneProcess /\ ~Others(r, {"embeds"}) THEN "embeds" ELSE "waits",
                     !.start = indexJob.requested, !.sources = Current, !.existing = copies]]
    /\ UNCHANGED <<talks, wiki, indexJob, copies, saved, asking, changes, indexFaults, emptied>>

\* ChunkStore.sync gets the lock and reads the rows there are
Locked(r) ==
    /\ runner[r].pc = "waits" /\ ~Others(r, {"embeds"})
    /\ runner' = [q \in Runner |-> IF q = r THEN [runner[q] EXCEPT !.pc = "embeds", !.existing = copies]
                                   ELSE IF runner[q].pc = "queues" THEN [runner[q] EXCEPT !.pc = "waits"]
                                   ELSE runner[q]]
    /\ UNCHANGED <<talks, wiki, indexJob, copies, saved, asking, changes, indexFaults, emptied>>

\* _write: a row for every source, and the ones it knew and no longer needs
\* deleted.  A source with no vector and no change makes no new row.
WriteCopies(r) ==
    /\ runner[r].pc = "embeds"
    /\ copies' = (copies \ (runner[r].existing \ runner[r].sources)) \cup runner[r].sources
    /\ runner' = [runner EXCEPT ![r].pc = "marks"] /\ emptied' = FALSE
    /\ UNCHANGED <<talks, wiki, indexJob, saved, asking, changes, indexFaults>>

\* The request this run began with is still the newest
StillAsked(r) == indexJob.st # "none" /\ indexJob.requested = runner[r].start

\* The end of reindex(): a request made meanwhile stays pending
MarkServed(r) ==
    /\ runner[r].pc = "marks"
    /\ indexJob' = IF indexJob.st = "none" THEN [st |-> "succeeded", requested |-> changes + 2]
              ELSE IF StillAsked(r) THEN [indexJob EXCEPT !.st = "succeeded"] ELSE indexJob
    /\ runner' = [runner EXCEPT ![r] = Off]
    /\ UNCHANGED <<talks, wiki, copies, saved, asking, changes, indexFaults, emptied>>

\* The provider fails or the base is gone: the rows stay as they are and the
\* worker notes the failure on the request it took
IndexFails(r) ==
    /\ \/ ~wiki /\ runner[r].pc = "taken" /\ UNCHANGED indexFaults
       \/ runner[r].pc = "embeds" /\ indexFaults < MaxIndexFaults /\ indexFaults' = indexFaults + 1
    /\ indexJob' = IF r = "worker" /\ indexJob.st # "none" /\ indexJob.requested = runner[r].taken
              THEN [indexJob EXCEPT !.st = "failed"] ELSE indexJob
    /\ runner' = [runner EXCEPT ![r] = Off]
    /\ UNCHANGED <<talks, wiki, copies, saved, asking, changes, emptied>>

\* The process of a runner ends; a running job is stale after 15 minutes
RunnerEnds(r) ==
    /\ runner[r] # Off /\ indexFaults < MaxIndexFaults
    /\ indexFaults' = indexFaults + 1
    /\ runner' = [q \in Runner |-> IF q = r \/ OneProcess THEN Off ELSE runner[q]]
    /\ UNCHANGED <<talks, wiki, indexJob, copies, saved, asking, changes, emptied>>

-----------------------------------------------------------------------------
(***************************************************************************)
(* Answers                                                                 *)
(***************************************************************************)

\* chat(): rank() and search() give live sources only, then the model is asked
Ask ==
    /\ wiki /\ ~asking.on /\ Current # {} /\ Cardinality(saved) < MaxAnswers
    /\ asking' = [on |-> TRUE, given |-> Current]
    /\ UNCHANGED <<talks, wiki, indexJob, copies, runner, saved, changes, indexFaults, emptied>>

\* The answer cites some of it; save_exchange looks for the base alone
Answer ==
    /\ asking.on
    /\ asking' = NotAsking
    /\ \E cited \in SUBSET asking.given \ {{}} :
         saved' = IF wiki THEN saved \cup {[cited |-> cited, late |-> ~(cited \subseteq Current)]}
                  ELSE saved
    /\ UNCHANGED <<talks, wiki, indexJob, copies, runner, changes, indexFaults, emptied>>

IndexInit ==
    /\ talks = [t \in Talk |-> [gone |-> FALSE, inBase |-> TRUE, enabled |-> TRUE, rev |-> 0]]
    /\ wiki = TRUE /\ indexJob = [st |-> "pending", requested |-> 1] /\ copies = {}
    /\ runner = [r \in Runner |-> Off] /\ saved = {} /\ asking = NotAsking
    /\ changes = 0 /\ indexFaults = 0 /\ emptied = FALSE

Reindex(r) == Begin(r) \/ Locked(r) \/ WriteCopies(r) \/ MarkServed(r) \/ IndexFails(r)

IndexNext ==
    \/ \E t \in Talk : \/ ChangeEvidence(t) \/ DeleteMeeting(t)
                       \/ \E on \in BOOLEAN : SetKnowledge(t, on) \/ AssignMeeting(t, on)
    \/ DeleteWiki \/ TakeJob
    \/ \E reindex \in BOOLEAN : PurgeCopies(reindex)
    \/ \E old \in SUBSET saved : PurgeChats(old)
    \/ \E r \in Runner : Reindex(r) \/ RunnerEnds(r)
    \/ Ask \/ Answer

IndexFairness == SF_indexVars(TakeJob) /\ \A r \in Runner : WF_indexVars(runner[r] # Off /\ Reindex(r))

-----------------------------------------------------------------------------
(***************************************************************************)
(* Properties                                                              *)
(***************************************************************************)

\* An index that reads "succeeded" is exactly the evidence of the base as it
\* is now: a change during a run is never covered by the success of that run
\* (reindex, process_pending, _purge_knowledge_embeddings), as long as the runs
\* share the locks of one ChunkStore and nobody emptied it without a new request.
ServedIsCurrent ==
    OneProcess /\ wiki /\ indexJob.st = "succeeded" /\ NobodyIndexes /\ ~emptied => copies = Current

\* A saved answer quotes only evidence that is still true and still opted in,
\* except one whose evidence changed while the model was writing it
\* (_delete_cited_conversations and save_exchange).
AnswersStayTrue == \A c \in saved : c.late \/ c.cited \subseteq Current

\* What is searched and what was answered from it speak of the evidence as it is.
KnowledgeIsCurrent == ServedIsCurrent /\ AnswersStayTrue
=============================================================================
