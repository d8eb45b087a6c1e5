----------------------------- MODULE Recordings -----------------------------
(***************************************************************************)
(* One in-person recording: pieces uploaded by the browser, live captions,  *)
(* pause, stop, the final pass as a background job, retry, discard, and the *)
(* cleanup of abandoned audio (in_person_store/service/finalize.py).        *)
(*                                                                         *)
(* Uploads, pause, resume, captions and discard run in threads beside the   *)
(* event loop; stop, retry, the final pass between its awaits and the       *)
(* cleanup run on the loop, which does one of them at a time (loop), each   *)
(* of whose transactions is a step that a thread or a crash may come after. *)
(***************************************************************************)
EXTENDS RecordingParts

CONSTANTS MaxSeq,       \* bound: pieces 0 .. MaxSeq
          Reloads,      \* bound: pieces that may start a stream (the page was reloaded)
          MaxPasses,    \* bound: retries
          MaxRecCrashes \* bound: ends of the process

ASSUME RecAssumption == {MaxSeq, MaxPasses, MaxRecCrashes} \subseteq Nat

VARIABLES
    sess,      \* the session row, or NoSession
    chunks,    \* in_person_chunks: [seq -> piece] of the stored ones
    meet,      \* status of the meeting row, "deleted" without one
    text,      \* pieces the stored transcript was made from; NoText before
    job,       \* the in_person_finalize job: none, queued, running, orphan
    pass,      \* the final pass under way
    loop,      \* the routine the event loop is in the middle of
    dropping,  \* a discard between its check and its deletions
    abandoned, \* the cleanup deleted the audio (history)
    recFaults, retries

recVars == <<sess, chunks, meet, text, job, pass, loop, dropping, abandoned, recFaults, retries>>

Seqs   == 0..MaxSeq
NoText == {-1}
SessionRow == [st : {"gone", "recording", "paused", "finalizing", "done", "failed"}, last : -1..MaxSeq, idle : 0..2,
               stage : {"none", "queued", "assembling", "transcribing", "naming", "done", "failed"}]
ChunkRow == [starts : BOOLEAN, caption : BOOLEAN]
NoSession == [st |-> "gone", last |-> -1, idle |-> 0, stage |-> "none"]
NoPass == [at |-> "none", seen |-> {}, part |-> 0]
Free   == [do |-> "none", at |-> 0]
OpenStatuses == {"recording", "paused"}

\* meta: the stored pieces in order of seq
Meta == LET stored == DOMAIN chunks
            nth[i \in 1..Cardinality(stored)] ==
                CHOOSE q \in stored : Cardinality({r \in stored : r < q}) = i - 1
        IN  [i \in 1..Cardinality(stored) |-> [seq |-> nth[i], len |-> 1, starts |-> chunks[nth[i]].starts]]

-----------------------------------------------------------------------------
(***************************************************************************)
(* Plausible bugs, see PROJECT.json                                        *)
(***************************************************************************)
AcceptsAnyPiece(q)    == q > sess.last
ForgetsTheOpenMeeting == meet \notin {"stopping", "completed", "failed", "deleted"}

-----------------------------------------------------------------------------
Is(status)   == sess.st = status
Touched(row) == [row EXCEPT !.idle = 0]                 \* last_activity_at
LoopFree     == loop = Free
Then(at)     == loop' = [loop EXCEPT !.at = at]
Done         == loop' = Free

\* InPersonService._set_meeting(): a meeting that was deleted is an error
SetMeeting(status) == meet' = IF meet = "deleted" THEN meet ELSE status

\* InPersonService.create(): the meeting, then the session and its owner
CreateMeeting ==
    /\ LoopFree /\ meet = "none"
    /\ meet' = "active" /\ loop' = [do |-> "create", at |-> 1]
    /\ UNCHANGED <<sess, chunks, text, job, pass, dropping, abandoned, recFaults, retries>>

CreateSession ==
    /\ loop.do = "create"
    /\ sess' = [st |-> "recording", last |-> -1, idle |-> 0, stage |-> "none"]
    /\ Done
    /\ UNCHANGED <<chunks, meet, text, job, pass, dropping, abandoned, recFaults, retries>>

-----------------------------------------------------------------------------
(***************************************************************************)
(* The recorder's browser                                                  *)
(***************************************************************************)
\* A piece is taken only as the next one; an older one is a duplicate
TakesPiece(q) == q = sess.last + 1

\* InPersonStore.add_chunk(): duplicates, gaps and late pieces change nothing
AddChunk(q, starts) ==
    /\ sess.st \in OpenStatuses
    /\ q > sess.last /\ TakesPiece(q) /\ (starts => q \in Reloads)
    /\ chunks' = [r \in DOMAIN chunks \cup {q} |->
                    IF r = q THEN [starts |-> starts \/ q = 0, caption |-> FALSE] ELSE chunks[r]]
    /\ sess' = [Touched(sess) EXCEPT !.last = q]
    /\ UNCHANGED <<meet, text, job, pass, loop, dropping, abandoned, recFaults, retries>>

\* schedule_preview(), _caption(), set_preview(): the newest piece, if it is still there
Caption ==
    /\ sess.st \in OpenStatuses /\ DOMAIN chunks # {}
    /\ LET newest == CHOOSE q \in DOMAIN chunks : \A r \in DOMAIN chunks : r <= q
       IN  ~chunks[newest].caption /\ chunks' = [chunks EXCEPT ![newest].caption = TRUE]
    /\ UNCHANGED <<sess, meet, text, job, pass, loop, dropping, abandoned, recFaults, retries>>

\* pause(), resume() and add_moment()
Control(to) ==
    /\ sess.st \in OpenStatuses
    /\ sess' = [Touched(sess) EXCEPT !.st = to]
    /\ UNCHANGED <<chunks, meet, text, job, pass, loop, dropping, abandoned, recFaults, retries>>

\* discard(): the check, then the audio and the meeting with everything of it
DiscardAsk ==
    /\ sess.st \in OpenStatuses \cup {"failed"} /\ ~dropping
    /\ dropping' = TRUE
    /\ UNCHANGED <<sess, chunks, meet, text, job, pass, loop, abandoned, recFaults, retries>>

Discard ==
    /\ dropping /\ dropping' = FALSE
    /\ sess' = NoSession /\ chunks' = << >> /\ meet' = "deleted" /\ text' = NoText
    /\ UNCHANGED <<job, pass, loop, abandoned, recFaults, retries>>

-----------------------------------------------------------------------------
(***************************************************************************)
(* Stop and retry, on the event loop                                       *)
(***************************************************************************)
\* Some audio up to final_seq has not arrived yet: refused
HasAllUpTo(final) == final <= sess.last

Finalizing(row) == [Touched(row) EXCEPT !.st = "finalizing", !.stage = "queued"]

StopAsk(final) ==
    /\ LoopFree /\ sess.st \in OpenStatuses /\ HasAllUpTo(final)
    /\ loop' = [do |-> IF sess.last = -1 THEN "stopEmpty" ELSE "stop", at |-> 1]
    /\ UNCHANGED <<sess, chunks, meet, text, job, pass, dropping, abandoned, recFaults, retries>>

\* Nothing was received: the meeting failed, then the session
StopEmpty ==
    /\ loop.do = "stopEmpty"
    /\ \/ loop.at = 1 /\ SetMeeting("failed") /\ Then(2) /\ UNCHANGED sess
       \/ /\ loop.at = 2 /\ Done /\ UNCHANGED meet
          /\ sess' = IF sess.st \in OpenStatuses THEN [Touched(sess) EXCEPT !.st = "failed"] ELSE sess
    /\ UNCHANGED <<chunks, text, job, pass, dropping, abandoned, recFaults, retries>>

\* The session only from the statuses allowed, then the meeting, then the job;
\* a job of this meeting that is still active is taken for this one
ToFinalize(doing, allowed) ==
    /\ loop.do = doing
    /\ \/ /\ loop.at = 1
          /\ IF sess.st \in allowed THEN sess' = Finalizing(sess) /\ Then(2) ELSE Done /\ UNCHANGED sess
          /\ UNCHANGED <<meet, job>>
       \/ loop.at = 2 /\ SetMeeting("stopping") /\ Then(3) /\ UNCHANGED <<sess, job>>
       \/ loop.at = 3 /\ Done /\ job' = (IF job = "none" THEN "queued" ELSE job) /\ UNCHANGED <<sess, meet>>
    /\ UNCHANGED <<chunks, text, pass, dropping, abandoned, recFaults, retries>>

Stop  == ToFinalize("stop", OpenStatuses)
Retry == ToFinalize("retry", {"failed"})

RetryAsk ==
    /\ LoopFree /\ Is("failed") /\ DOMAIN chunks # {} /\ retries < MaxPasses
    /\ retries' = retries + 1 /\ loop' = [do |-> "retry", at |-> 1]
    /\ UNCHANGED <<sess, chunks, meet, text, job, pass, dropping, abandoned, recFaults>>

-----------------------------------------------------------------------------
(***************************************************************************)
(* The final pass                                                          *)
(***************************************************************************)
\* _stage(): touches the row whatever its status
Staged(stage) == IF Is("gone") THEN sess ELSE [Touched(sess) EXCEPT !.stage = stage]

\* The job starts; a session that is not finalizing has nothing to do
PassBegins ==
    /\ LoopFree /\ job = "queued" /\ pass = NoPass
    /\ IF Is("finalizing")
       THEN job' = "running" /\ pass' = [NoPass EXCEPT !.at = "assembling"] /\ sess' = Staged("assembling")
       ELSE job' = "none" /\ UNCHANGED <<pass, sess>>
    /\ UNCHANGED <<chunks, meet, text, loop, dropping, abandoned, recFaults, retries>>

\* _fail() begins: only a finalizing session fails; then its meeting
Fails == /\ pass' = [pass EXCEPT !.at = "failing"]
         /\ loop' = [do |-> "fail", at |-> 1]

\* _transcribe(): what is stored now is cut into parts
PassPlans ==
    /\ LoopFree /\ pass.at = "assembling"
    /\ IF Meta = << >> \/ Is("gone") THEN Fails /\ UNCHANGED sess
       ELSE pass' = [at |-> "hearing", seen |-> Meta, part |-> 1] /\ UNCHANGED loop /\ sess' = Staged("transcribing")
    /\ UNCHANGED <<chunks, meet, text, job, dropping, abandoned, recFaults, retries>>

\* _part_audio() and _transcribe_part(): a part whose audio is all there is sent,
\* and answered, or refused after its attempts; the last answer leads to saving
PassHears ==
    /\ LoopFree /\ pass.at = "hearing"
    /\ LET part == PlanParts(pass.seen)[pass.part]
           there == \A i \in part.first..part.last : pass.seen[i].seq \in DOMAIN chunks
       IN  \/ /\ there /\ ~Is("gone") /\ sess' = Staged("transcribing") /\ UNCHANGED loop
              /\ pass' = IF pass.part = Len(PlanParts(pass.seen))
                         THEN [pass EXCEPT !.at = "saving"] ELSE [pass EXCEPT !.part = @ + 1]
           \/ Fails /\ UNCHANGED sess
    /\ UNCHANGED <<chunks, meet, text, job, dropping, abandoned, recFaults, retries>>

\* _save_transcript(), _save_moments(); a deleted meeting is an error
PassSaves ==
    /\ LoopFree /\ pass.at = "saving"
    /\ IF meet = "deleted" THEN Fails /\ UNCHANGED <<sess, text>>
       ELSE /\ text' = {pass.seen[i].seq : i \in UNION {p.first..p.last : p \in
                            {PlanParts(pass.seen)[n] : n \in 1..Len(PlanParts(pass.seen))}}}
            /\ pass' = [pass EXCEPT !.at = "naming"] /\ sess' = Staged("naming") /\ UNCHANGED loop
    /\ UNCHANGED <<chunks, meet, job, dropping, abandoned, recFaults, retries>>

\* The names are in (or could not be suggested): done, whatever the row says now
PassNamed ==
    /\ LoopFree /\ pass.at = "naming"
    /\ IF Is("gone") THEN job' = "none" /\ pass' = NoPass /\ UNCHANGED <<sess, loop>>
       ELSE /\ sess' = [Touched(sess) EXCEPT !.st = "done", !.stage = "done"]
            /\ loop' = [do |-> "complete", at |-> 1] /\ UNCHANGED <<job, pass>>
    /\ UNCHANGED <<chunks, meet, text, dropping, abandoned, recFaults, retries>>

PassCompletes ==
    /\ loop.do = "complete"
    /\ \/ loop.at = 1 /\ SetMeeting("completed") /\ Then(2) /\ UNCHANGED <<chunks, job, pass>>
       \/ loop.at = 2 /\ chunks' = << >> /\ job' = "none" /\ pass' = NoPass /\ Done /\ UNCHANGED meet
    /\ UNCHANGED <<sess, text, dropping, abandoned, recFaults, retries>>

\* _fail()
Fail ==
    /\ loop.do = "fail"
    /\ \/ /\ loop.at = 1 /\ Is("finalizing") /\ Then(2)
          /\ sess' = [Touched(sess) EXCEPT !.st = "failed", !.stage = "failed"]
          /\ UNCHANGED <<meet, job, pass>>
       \/ /\ \/ loop.at = 1 /\ ~Is("finalizing") /\ UNCHANGED meet
             \/ loop.at = 2 /\ SetMeeting("failed")
          /\ Done /\ UNCHANGED sess
          /\ pass' = IF pass.at = "failing" THEN [pass EXCEPT !.at = "failed"] ELSE pass
          /\ UNCHANGED job
    /\ UNCHANGED <<chunks, text, dropping, abandoned, recFaults, retries>>

\* The job is closed as failed later; its hook fails a session that was retried
\* meanwhile, whose job this one still was
PassFailed ==
    /\ LoopFree /\ pass.at = "failed"
    /\ job' = "none" /\ pass' = NoPass /\ loop' = [do |-> "fail", at |-> 1]
    /\ UNCHANGED <<sess, chunks, meet, text, dropping, abandoned, recFaults, retries>>

-----------------------------------------------------------------------------
(***************************************************************************)
(* Cleanup, time and the end of the process                                *)
(***************************************************************************)
\* idle_sessions(): 2 is more than 24 hours without activity, 1 more than two
AbandonAsk ==
    /\ LoopFree /\ sess.idle = 2 /\ sess.st \in OpenStatuses \cup {"failed"}
    /\ ~(Is("failed") /\ DOMAIN chunks = {})
    /\ loop' = [do |-> IF Is("failed") THEN "purge" ELSE "abandon", at |-> 1]
    /\ UNCHANGED <<sess, chunks, meet, text, job, pass, dropping, abandoned, recFaults, retries>>

Abandon ==
    /\ loop.do \in {"abandon", "purge"}
    /\ \/ /\ loop.at = 1 /\ chunks' = << >> /\ abandoned' = TRUE
          /\ IF loop.do = "purge" THEN Done ELSE Then(2)
          /\ UNCHANGED <<sess, meet>>
       \/ /\ loop.at = 2 /\ UNCHANGED <<chunks, abandoned, meet>>
          /\ IF Is("gone") THEN Done /\ UNCHANGED sess ELSE Then(3) /\ sess' = [sess EXCEPT !.st = "failed"]
       \/ loop.at = 3 /\ SetMeeting("failed") /\ Done /\ UNCHANGED <<sess, chunks, abandoned>>
    /\ UNCHANGED <<text, job, pass, dropping, recFaults, retries>>

Unstick ==
    /\ LoopFree /\ Is("finalizing") /\ sess.idle >= 1
    /\ loop' = [do |-> "fail", at |-> 1]
    /\ UNCHANGED <<sess, chunks, meet, text, job, pass, dropping, abandoned, recFaults, retries>>

\* orphaned_chunk_meetings() and done_but_meeting_open()
DropOrphans ==
    /\ LoopFree /\ Is("done") /\ DOMAIN chunks # {}
    /\ chunks' = << >>
    /\ UNCHANGED <<sess, meet, text, job, pass, loop, dropping, abandoned, recFaults, retries>>

StillOpen == meet \notin {"completed", "failed", "deleted"}

FinishMeeting ==
    /\ LoopFree /\ Is("done") /\ StillOpen
    /\ meet' = "completed"
    /\ UNCHANGED <<sess, chunks, text, job, pass, loop, dropping, abandoned, recFaults, retries>>

Quiet ==
    /\ sess.st \notin {"gone", "done"} /\ sess.idle < 2
    /\ sess' = [sess EXCEPT !.idle = @ + 1]
    /\ UNCHANGED <<chunks, meet, text, job, pass, loop, dropping, abandoned, recFaults, retries>>

\* The process ends; what it was doing is gone, its job is an orphan
EndOfProcess ==
    /\ recFaults < MaxRecCrashes /\ recFaults' = recFaults + 1
    /\ loop' = Free /\ pass' = NoPass /\ dropping' = FALSE
    /\ job' = IF job = "none" THEN "none" ELSE "orphan"
    /\ UNCHANGED <<sess, chunks, meet, text, abandoned, retries>>

\* A new leader fails the interrupted job; its hook fails the session
RecoverJob ==
    /\ LoopFree /\ job = "orphan"
    /\ job' = "none" /\ loop' = [do |-> "fail", at |-> 1]
    /\ UNCHANGED <<sess, chunks, meet, text, pass, dropping, abandoned, recFaults, retries>>

-----------------------------------------------------------------------------
RecInit ==
    /\ sess = NoSession /\ chunks = << >> /\ meet = "none" /\ text = NoText
    /\ job = "none" /\ pass = NoPass /\ loop = Free /\ dropping = FALSE
    /\ abandoned = FALSE /\ recFaults = 0 /\ retries = 0

Browser == \/ CreateMeeting
           \/ \E q \in Seqs, starts \in BOOLEAN : AddChunk(q, starts)
           \/ Caption \/ DiscardAsk \/ \E to \in OpenStatuses : Control(to)
           \/ \E final \in {-1} \cup Seqs : StopAsk(final)
           \/ RetryAsk
LoopGoesOn == CreateSession \/ StopEmpty \/ Stop \/ Retry \/ PassCompletes \/ Fail \/ Abandon
PassGoesOn == PassBegins \/ PassPlans \/ PassHears \/ PassSaves \/ PassNamed \/ PassFailed
CleansUp   == AbandonAsk \/ Unstick \/ DropOrphans \/ FinishMeeting
RecNext == Browser \/ LoopGoesOn \/ PassGoesOn \/ CleansUp \/ RecoverJob \/ Discard \/ Quiet \/ EndOfProcess

\* The loop goes on with what it began; the leader's cleanup runs every ten minutes
RecFairness == WF_recVars(LoopGoesOn) /\ WF_recVars(PassGoesOn) /\ WF_recVars(CleansUp)
               /\ WF_recVars(RecoverJob) /\ WF_recVars(Quiet)

-----------------------------------------------------------------------------
RecTypeOK ==
    /\ sess \in SessionRow
    /\ DOMAIN chunks \subseteq Seqs /\ \A q \in DOMAIN chunks : chunks[q] \in ChunkRow
    /\ meet \in {"none", "active", "stopping", "completed", "failed", "deleted"}
    /\ job \in {"none", "queued", "running", "orphan"}

\* A transcript is made from every piece that was ever accepted, and until the
\* recording is done every piece stays stored, also where a pass was interrupted
\* after it saved a transcript, unless nobody touched the recording for a day
\* (add_chunk, stop, _part_audio, delete_chunks).
NothingLost ==
    ~abandoned =>
        /\ Is("done") => text = 0..sess.last
        /\ ~Is("done") /\ ~Is("gone") => DOMAIN chunks = 0..sess.last

\* A recording that was stopped gets its transcript or can be retried; a finished
\* one completes its meeting, and its audio is not kept (finalize, cleanup).
RecordingSettles ==
    /\ Is("finalizing") ~> sess.st \in {"done", "failed", "gone"}
    /\ Is("done") ~> (meet \in {"completed", "failed", "deleted"} /\ DOMAIN chunks = {})
=============================================================================
