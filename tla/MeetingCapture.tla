--------------------------- MODULE MeetingCapture ---------------------------
(***************************************************************************)
(* Meetings and the capture service that sends an assistant into them      *)
(* (meeting_service.py, adapters/vexa.py).  A request reads the meeting,    *)
(* awaits the capture service and saves its own copy of the meeting: a      *)
(* flow is "asked" until the service took the call and "answered" until     *)
(* its continuation ran.  Whatever is synchronous is one step.              *)
(*                                                                         *)
(* Time is the age of what happened, saturating at GiveUp, so that a run    *)
(* has no last moment.                                                     *)
(***************************************************************************)
EXTENDS Naturals

CONSTANTS Meeting, Actor,    \* Actor: requests, background loops
          Link,              \* the call a meeting record points at
          LinkOf,            \* [Meeting -> Link]
          Bot,               \* captures there will ever be (bound)
          NoBot,
          GiveUp,            \* GIVE_UP_AFTER, the age at which ages saturate
          MaxFaults,         \* bound: lost answers, unreachable service, crashes
          MaxOps             \* bound: things people do

ASSUME CaptureAssumption ==
    /\ Meeting # {} /\ LinkOf \in [Meeting -> Link] /\ NoBot \notin Bot
    /\ GiveUp \in Nat \ {0}
    /\ MaxFaults \in Nat /\ MaxOps \in Nat

VARIABLES
    meet,      \* meetings row: [st, cap, stop, seen]
    text,      \* the stored transcript: how much of it there is
    leave,     \* meeting_leave_state row: [end, at, backoff, warned]
    bot,       \* the capture service: [m, st, words] per capture
    flow,      \* each request under way
    ops, faults

captureVars == <<meet, text, leave, bot, flow, ops, faults>>

Terminal == {"completed", "failed"}
InCall   == {"active"}             \* ACTIVE, NEEDS_HUMAN_HELP
Joining  == {"requested", "joining"}
LiveBot  == {"joining", "active", "stopping"}
Ages     == 0..GiveUp
NotYet   == GiveUp + 1             \* a time that was never set
None     == "none"

\* How long ago stopped_at and last_refreshed_at were
MeetingRow == [st : {"none", "created"} \union Joining \union InCall
                        \union {"stopping"} \union Terminal,
               cap : Bot \union {NoBot}, stop : 0..NotYet, seen : 0..NotYet]
NoMeeting  == [st |-> "none", cap |-> NoBot, stop |-> NotYet, seen |-> NotYet]

LeaveState == [end : {None, "user", "auto", "vexa"}, at : 0..NotYet,
               backoff : BOOLEAN, warned : BOOLEAN]
NO_STATE   == [end |-> None, at |-> NotYet, backoff |-> FALSE, warned |-> FALSE]

Answer == [kind : {"ok", "e404", "e409", "e429", "e5xx"},
           st : {None} \union Joining \union InCall \union {"stopping"} \union Terminal,
           cap : Bot \union {NoBot}, words : 0..2]
Err(k) == [kind |-> k, st |-> None, cap |-> NoBot, words |-> 0]
Ok(s, b, w) == [kind |-> "ok", st |-> s, cap |-> b, words |-> w]

Idle == [pc |-> "idle", op |-> None, m |-> None, row |-> NoMeeting,
         ans |-> Err("ok"), by |-> None, waited |-> 0]

-----------------------------------------------------------------------------
(***************************************************************************)
(* Plausible bugs, see PROJECT.json                                        *)
(***************************************************************************)
DeletesAnything(m)      == meet[m].st # "none"
SavesTheEmptyOne(m, row, w) == TRUE

-----------------------------------------------------------------------------
(***************************************************************************)
(* The rows                                                                *)
(***************************************************************************)
\* save_meeting(): an upsert of every column, also of a row deleted meanwhile
Save(m, row) == meet' = [meet EXCEPT ![m] = row]

\* get_meeting(): MeetingNotFoundError for a deleted one
Exists(m) == meet[m].st # "none"

\* LeaveStore.reset(): a new attempt starts with a clean slate
Joins(m) == leave' = [leave EXCEPT ![m] = NO_STATE]

\* LeaveStore.record_end(): the first recorded reason wins
RecordEnd(m, who) ==
    IF leave[m].end # None THEN leave
    ELSE [leave EXCEPT ![m] = [@ EXCEPT !.end = who, !.at = 0, !.backoff = FALSE]]

\* LeaveService.finished(): the reason of the capture service, unless we know one
Finished(m, st) == IF st \in Terminal THEN RecordEnd(m, "vexa") ELSE leave

\* MeetingStatus of the answer; an unknown one leaves the status alone
Reported(a) == IF flow[a].ans.st = None THEN flow[a].row.st ELSE flow[a].ans.st

\* The row refresh() and transcript() save: the copy read before the await
Refreshed(a) == [flow[a].row EXCEPT !.st = Reported(a), !.seen = 0]

\* _keep_stored_transcript(): an empty answer during a call is a glitch
Keeps(m, row) == row.st \in InCall \union {"stopping"} /\ text[m] > 0
Replaces(m, row, w) == w > 0 \/ ~Keeps(m, row)

-----------------------------------------------------------------------------
(***************************************************************************)
(* Requests: before the await                                              *)
(***************************************************************************)
Free(a) == flow[a].pc = "idle"

Asks(a, op, m, row, by, waited) ==
    flow' = [flow EXCEPT ![a] = [Idle EXCEPT !.pc = "asked", !.op = op, !.m = m,
                                 !.row = row, !.by = by, !.waited = waited]]

Done(a) == flow' = [flow EXCEPT ![a] = Idle]

\* create(): the meeting, its delivery settings and its job
Create(m) ==
    /\ ~Exists(m) /\ \A a \in Actor : flow[a].m # m
    /\ Save(m, [NoMeeting EXCEPT !.st = "created"])
    /\ leave' = [leave EXCEPT ![m] = NO_STATE]
    /\ text' = [text EXCEPT ![m] = 0]
    /\ UNCHANGED <<bot, flow>>

MayJoin(m) == meet[m].st \in {"created", "failed"}

\* join() until its await: REQUESTED is saved first, the capture id stays
JoinAsk(a, m) ==
    /\ Free(a) /\ MayJoin(m)
    /\ LET row == [meet[m] EXCEPT !.st = "requested"] IN
        /\ Save(m, row)
        /\ Asks(a, "join", m, row, None, 0)
    /\ Joins(m)
    /\ UNCHANGED <<text, bot>>

\* refresh() until its await; get() calls it for meetings that are not terminal
RefreshAsk(a, m) ==
    /\ Free(a) /\ Exists(m) /\ meet[m].cap # NoBot
    /\ Asks(a, "refresh", m, meet[m], None, 0)
    /\ UNCHANGED <<meet, text, leave, bot>>

\* stop() until its await
StopAsk(a, m, by) ==
    /\ Free(a) /\ Exists(m) /\ meet[m].cap # NoBot
    /\ meet[m].st \notin {"stopping"} \union Terminal
    /\ Asks(a, "stop", m, meet[m], by, 0)
    /\ UNCHANGED <<meet, text, leave, bot>>

\* transcript() until its await
TranscriptAsk(a, m) ==
    /\ Free(a) /\ Exists(m) /\ meet[m].cap # NoBot
    /\ Asks(a, "transcript", m, meet[m], None, 0)
    /\ UNCHANGED <<meet, text, leave, bot>>

MayDelete(m) == meet[m].st \in {"created"} \union Terminal

\* delete() of a meeting that was captured asks the service to erase it first
DeleteAsk(a, m) ==
    /\ Free(a) /\ MayDelete(m) /\ meet[m].cap # NoBot
    /\ Asks(a, "delete", m, meet[m], None, 0)
    /\ UNCHANGED <<meet, text, leave, bot>>

\* delete_meeting(): the row and everything derived from it
Erase(m) == /\ Save(m, NoMeeting)
            /\ leave' = [leave EXCEPT ![m] = NO_STATE]
            /\ text' = [text EXCEPT ![m] = 0]

DeleteNow(m) ==
    /\ MayDelete(m) /\ meet[m].cap = NoBot
    /\ Erase(m)
    /\ UNCHANGED <<bot, flow>>

-----------------------------------------------------------------------------
(***************************************************************************)
(* The capture service (external): one live assistant for each call link;  *)
(* assistants of other workspaces may leave none free; it may forget one   *)
(***************************************************************************)
Known(b)  == b # NoBot /\ bot[b].st \notin {"none", "gone"}
OfLink(m) == {b \in Bot : bot[b].st \in LiveBot /\ LinkOf[bot[b].m] = LinkOf[m]}
Unused    == {b \in Bot : bot[b].st = "none"}

Answers(a, ans) == flow' = [flow EXCEPT ![a] = [@ EXCEPT !.pc = "answered", !.ans = ans]]

\* POST /bots; without the attestation of the selected profile join() has the
\* assistant stopped at once and reports an error
ServeJoin(a) ==
    /\ flow[a].pc = "asked" /\ flow[a].op = "join"
    /\ \/ /\ OfLink(flow[a].m) # {}
          /\ Answers(a, Err("e409")) /\ UNCHANGED <<bot, faults>>
       \/ /\ OfLink(flow[a].m) = {}
          /\ Answers(a, Err("e429")) /\ UNCHANGED <<bot, faults>>
       \/ /\ OfLink(flow[a].m) = {} /\ Unused # {}
          /\ LET b == CHOOSE b \in Unused : TRUE IN
              \/ /\ bot' = [bot EXCEPT ![b] = [m |-> flow[a].m, st |-> "joining", words |-> 0]]
                 /\ Answers(a, Ok("requested", b, 0)) /\ UNCHANGED faults
              \/ /\ faults < MaxFaults /\ faults' = faults + 1
                 /\ \E s \in {"joining", "stopping"} :
                     bot' = [bot EXCEPT ![b] = [m |-> flow[a].m, st |-> s, words |-> 0]]
                 /\ Answers(a, Err("e5xx"))

\* DELETE /bots/{platform}/{id}: the assistant in the call, whoever sent it
ServeStop(a) ==
    /\ flow[a].pc = "asked" /\ flow[a].op = "stop"
    /\ LET there == {b \in OfLink(flow[a].m) : bot[b].st # "stopping"} IN
        /\ bot' = [b \in Bot |-> IF b \in there THEN [bot[b] EXCEPT !.st = "stopping"] ELSE bot[b]]
        /\ \/ Answers(a, IF there = {} THEN Err("e404") ELSE Ok("stopping", NoBot, 0))
              /\ UNCHANGED faults
           \/ faults < MaxFaults /\ faults' = faults + 1 /\ Answers(a, Err("e5xx"))

\* GET /meetings/{id}, GET /transcripts/by-id/{id}: also an empty transcript
ServeRead(a) ==
    /\ flow[a].pc = "asked" /\ flow[a].op \in {"refresh", "transcript"}
    /\ LET b == flow[a].row.cap IN
        \/ /\ Known(b)
           /\ \E w \in {0, bot[b].words} : Answers(a, Ok(bot[b].st, b, w))
        \/ ~Known(b) /\ Answers(a, Err("e404"))
    /\ UNCHANGED <<bot, faults>>

ServeDelete(a) ==
    /\ flow[a].pc = "asked" /\ flow[a].op = "delete"
    /\ LET b == flow[a].row.cap IN
        \/ /\ Known(b) /\ bot[b].st \in Terminal
           /\ bot' = [bot EXCEPT ![b].st = "gone"]
           /\ Answers(a, Ok(None, NoBot, 0))
        \/ /\ ~(Known(b) /\ bot[b].st \in Terminal)
           /\ Answers(a, Err("e409")) /\ UNCHANGED bot
    /\ UNCHANGED faults

\* The service cannot be reached
Unreachable(a) ==
    /\ flow[a].pc = "asked" /\ faults < MaxFaults
    /\ faults' = faults + 1
    /\ Answers(a, Err("e5xx")) /\ UNCHANGED bot

Serve(a) ==
    /\ ServeJoin(a) \/ ServeStop(a) \/ ServeRead(a) \/ ServeDelete(a) \/ Unreachable(a)
    /\ UNCHANGED <<meet, text, leave, ops>>

\* The assistant is admitted, hears people, is removed, ends, or is forgotten
BotMoves(b) ==
    /\ \/ \E s \in CASE bot[b].st = "joining"  -> {"active", "failed"}
                     [] bot[b].st = "active"   -> {"completed"}
                     [] bot[b].st = "stopping" -> {"completed"}
                     [] OTHER -> {} : bot' = [bot EXCEPT ![b].st = s]
       \/ /\ bot[b].st = "active" /\ bot[b].words < 2
          /\ bot' = [bot EXCEPT ![b].words = @ + 1]
    /\ UNCHANGED <<meet, text, leave, flow, ops, faults>>

BotForgotten(b) ==
    /\ bot[b].st \in LiveBot /\ faults < MaxFaults
    /\ bot' = [bot EXCEPT ![b].st = "gone"] /\ faults' = faults + 1
    /\ UNCHANGED <<meet, text, leave, flow, ops>>

-----------------------------------------------------------------------------
(***************************************************************************)
(* Requests: after the await                                               *)
(***************************************************************************)
Answered(a, op) == flow[a].pc = "answered" /\ flow[a].op = op

\* What join() makes of the answer; busy is not a failure
JoinedRow(a) ==
    CASE flow[a].ans.kind = "ok"   -> [flow[a].row EXCEPT !.st = flow[a].ans.st,
                                                          !.cap = flow[a].ans.cap]
      [] flow[a].ans.kind = "e429" -> [flow[a].row EXCEPT !.st = "created"]
      [] OTHER                     -> [flow[a].row EXCEPT !.st = "failed"]

JoinEnd(a) ==
    /\ Answered(a, "join")
    /\ Save(flow[a].m, JoinedRow(a)) /\ Done(a)
    /\ UNCHANGED <<text, leave, bot>>

\* refresh() after its await; an error goes to the caller
RefreshSaves(a) ==
    IF flow[a].ans.kind = "ok"
    THEN /\ Save(flow[a].m, Refreshed(a))
         /\ leave' = Finished(flow[a].m, Reported(a))
    ELSE UNCHANGED <<meet, leave>>

RefreshEnd(a) ==
    /\ Answered(a, "refresh") /\ RefreshSaves(a) /\ Done(a)
    /\ UNCHANGED <<text, bot>>

\* The row stop() saves
StoppedRow(a) == [flow[a].row EXCEPT !.st = "stopping", !.stop = 0]

\* stop(): an assistant that is not there counts as left for the watchdog only
StopAccepted(a) == \/ flow[a].ans.kind = "ok"
                   \/ flow[a].by = "auto" /\ flow[a].ans.kind = "e404"

StopEnd(a) ==
    /\ Answered(a, "stop") /\ Done(a)
    /\ IF StopAccepted(a)
       THEN /\ Save(flow[a].m, StoppedRow(a))
            /\ leave' = RecordEnd(flow[a].m, "user")
       ELSE UNCHANGED <<meet, leave>>
    /\ UNCHANGED <<text, bot>>

\* transcript(): the status first, then the words, unless the answer is a glitch
StoresText(a) ==
    text' = IF /\ flow[a].ans.kind = "ok"
               /\ Replaces(flow[a].m, Refreshed(a), flow[a].ans.words)
            THEN [text EXCEPT ![flow[a].m] = flow[a].ans.words] ELSE text

TranscriptEnd(a) ==
    /\ Answered(a, "transcript") /\ RefreshSaves(a) /\ StoresText(a) /\ Done(a)
    /\ UNCHANGED bot

DeleteEnd(a) ==
    /\ Answered(a, "delete") /\ Done(a)
    /\ IF flow[a].ans.kind = "ok" THEN Erase(flow[a].m) ELSE UNCHANGED <<meet, leave, text>>
    /\ UNCHANGED bot

\* The row of a call that is over; stopped_at is kept
Closed(row) == [row EXCEPT !.st = "completed", !.stop = IF @ = NotYet THEN 0 ELSE @]

\* mark_completed(): closes a capture the service no longer tracks
MarkCompleted(m) == IF meet[m].st \in Terminal THEN meet ELSE [meet EXCEPT ![m] = Closed(@)]

Ends(a) == RefreshEnd(a) \/ StopEnd(a) \/ TranscriptEnd(a) \/ DeleteEnd(a)

-----------------------------------------------------------------------------
Older(n)      == IF n >= GiveUp THEN n ELSE n + 1
OlderRow(row) == [row EXCEPT !.stop = Older(@), !.seen = Older(@)]

\* GiveUp / GIVE_UP_AFTER minutes pass; a back-off ends
Tick ==
    /\ meet' = [m \in Meeting |-> OlderRow(meet[m])]
    /\ flow' = [a \in Actor |-> [flow[a] EXCEPT !.row = OlderRow(@)]]
    /\ leave' = [m \in Meeting |-> [leave[m] EXCEPT !.at = Older(@), !.backoff = FALSE]]
    /\ UNCHANGED <<text, bot, ops, faults>>

\* The process ends: requests are forgotten, what the service does goes on
Crash ==
    /\ faults < MaxFaults /\ faults' = faults + 1
    /\ flow' = [a \in Actor |-> Idle]
    /\ UNCHANGED <<meet, text, leave, bot, ops>>

CaptureInit(there) ==
    /\ meet = [m \in Meeting |-> IF m \in there THEN [NoMeeting EXCEPT !.st = "created"] ELSE NoMeeting]
    /\ text = [m \in Meeting |-> 0]
    /\ leave = [m \in Meeting |-> NO_STATE]
    /\ bot = [b \in Bot |-> [m |-> CHOOSE m \in Meeting : TRUE, st |-> "none", words |-> 0]]
    /\ flow = [a \in Actor |-> Idle]
    /\ ops = 0 /\ faults = 0

CaptureTypeOK ==
    /\ meet \in [Meeting -> MeetingRow]
    /\ text \in [Meeting -> 0..2]
    /\ leave \in [Meeting -> LeaveState]
    /\ bot \in [Bot -> [m : Meeting, st : {"none", "gone"} \union LiveBot \union Terminal, words : 0..2]]
    /\ \A a \in Actor :
        /\ flow[a].pc \in {"idle", "asked", "answered"}
        /\ flow[a].op \in {None, "join", "refresh", "stop", "transcript", "delete"}
        /\ flow[a].m \in Meeting \union {None} /\ flow[a].row \in MeetingRow
        /\ flow[a].ans \in Answer /\ flow[a].by \in {None, "user", "auto", "watch", "settle"}
        /\ flow[a].waited \in 0..NotYet
    /\ ops \in 0..MaxOps /\ faults \in 0..MaxFaults

=============================================================================
