---------------------------- MODULE CallsProofs ----------------------------
(***************************************************************************)
(* Proofs about meetings and their assistants, for any number of meetings,  *)
(* requests, people and captures: nobody listens in secret, who relies on a *)
(* teammate stays home, what was heard is kept, and what is told of every   *)
(* assistant follows AssistantRecord.                                      *)
(*                                                                         *)
(* The argument.  A capture only moves forward, and belongs to one meeting. *)
(* Of a meeting whose requests did not cross, the row fits its capture: who *)
(* waits to be joined has none or a failed one, who is in the call or       *)
(* leaving has one that got in.  A request under way knows the capture of   *)
(* its meeting, and an answer that would put the meeting into the call      *)
(* rules out an answer that would fail it.  Before a call the scheduler     *)
(* and the routes never work on one meeting at a time.                      *)
(***************************************************************************)
EXTENDS Calls, TLAPS

Open(a)  == flow[a].pc # "idle"
FlowRow  == [pc : {"idle", "asked", "answered"},
             op : {None, "join", "refresh", "stop", "transcript", "delete"},
             m : Meeting \union {None}, row : MeetingRow, ans : Answer,
             by : {None, "user", "auto", "watch", "settle"}, waited : 0..NotYet]

\* Requests under way are about a meeting, the ones after a join about its capture
FlowsAreTyped ==
    /\ flow \in [Actor -> FlowRow]
    /\ \A a \in Actor : Open(a) => /\ flow[a].m \in Meeting /\ flow[a].op # None
                                   /\ flow[a].row.st # "none"
                                   /\ flow[a].op # "join" => flow[a].row.cap # NoBot
TypeInv == CallsTypeOK /\ FlowsAreTyped

-----------------------------------------------------------------------------
(***************************************************************************)
(* Captures                                                                *)
(***************************************************************************)
Post  == {"active", "stopping", "completed", "gone"}
Dead  == {"failed", "gone"}
Waits == {"none", "created", "failed"}

\* What a capture may become
Goes(st, next) ==
    \/ next = st \/ (next = "gone" /\ st # "none")
    \/ st = "none" /\ next \in {"joining", "stopping"}
    \/ st = "joining" /\ next \in {"active", "failed", "stopping"}
    \/ st = "active" /\ next \in {"stopping", "completed"}
    \/ st = "stopping" /\ next = "completed"
Forward(bots, later) ==
    \A b \in Bot : /\ Goes(bots[b].st, later[b].st)
                   /\ bots[b].st # "none" => later[b].m = bots[b].m

JoinOk(a) == flow[a].pc = "answered" /\ flow[a].op = "join" /\ flow[a].ans.kind = "ok"

\* The capture of m
IsOf(b, m, bots) == b # NoBot => b \in Bot /\ bots[b].m = m /\ bots[b].st # "none"
CapturesAreOwned ==
    /\ \A m \in Meeting : IsOf(meet[m].cap, m, bot)
    /\ \A a \in Actor : Open(a) => /\ IsOf(flow[a].row.cap, flow[a].m, bot)
                                   /\ JoinOk(a) => /\ flow[a].ans.cap # NoBot
                                                   /\ flow[a].ans.st = "requested"
                                                   /\ IsOf(flow[a].ans.cap, flow[a].m, bot)

-----------------------------------------------------------------------------
(***************************************************************************)
(* A meeting whose requests did not cross, row by row                      *)
(***************************************************************************)
RowFits(row, end, bots) ==
    /\ row.st = "none" => row.cap = NoBot /\ end = None
    /\ row.st = "created" => end = None
    /\ row.st \in Waits /\ row.cap # NoBot => bots[row.cap].st \in Dead
    /\ row.st \in {"active", "stopping"} => row.cap # NoBot /\ bots[row.cap].st \in Post
    /\ end # None /\ row.cap # NoBot => bots[row.cap].st # "joining"

JoinFits(f, row, end, bots) ==
    /\ row.st = "requested" /\ row.cap = f.row.cap /\ end = None
    /\ f.row.cap # NoBot => bots[f.row.cap].st \in Dead

AnswerFits(f, row, bots) ==
    /\ f.ans.kind = "e404" => bots[f.row.cap].st = "gone"
    /\ f.ans.kind = "ok" =>
        /\ f.ans.st \in {"joining", "active", "stopping", "completed", "failed"}
        /\ f.ans.st = "joining" => f.by # "settle"
        /\ f.ans.st = "failed" => bots[f.row.cap].st = "failed"
        /\ f.ans.st \in Post => bots[f.row.cap].st \in Post /\ row.st \notin Waits

Leaving(f) == f.op = "stop" /\ (f.by = "auto" \/ (f.pc = "answered" /\ f.ans.kind = "ok"))

RequestFits(f, row, bots) ==
    /\ row.cap = f.row.cap
    /\ row.st = "created" => f.row.st = "created"
    /\ f.by = "settle" => bots[f.row.cap].st # "joining" /\ f.row.st # "created"
    /\ f.op \in {"refresh", "transcript"} /\ f.pc = "answered" => AnswerFits(f, row, bots)
    /\ Leaving(f) => bots[f.row.cap].st \in Post /\ row.st \notin Waits
    /\ f.op = "delete" /\ f.pc = "answered" /\ f.ans.kind = "ok" => bots[f.row.cap].st = "gone"

FlowFits(f, row, end, bots) ==
    IF f.op = "join" THEN JoinFits(f, row, end, bots) ELSE RequestFits(f, row, bots)

MeetingFits(m) ==
    /\ RowFits(meet[m], leave[m].end, bot)
    /\ \A a \in Actor : Open(a) /\ flow[a].m = m => FlowFits(flow[a], meet[m], leave[m].end, bot)

RowsFit == /\ Crossing \subseteq crossed
           /\ \A m \in Meeting \ crossed : MeetingFits(m)

\* Without faults, an assistant in a call is the one of its meeting, or a join returns it
LiveOnesAreKnown ==
    faults = 0 => \A b \in Bot : bot[b].st \in {"joining", "active"} /\ bot[b].m \notin crossed
        => \/ meet[bot[b].m].cap = b
           \/ \E a \in Actor : JoinOk(a) /\ flow[a].m = bot[b].m /\ flow[a].ans.cap = b

-----------------------------------------------------------------------------
(***************************************************************************)
(* Before a call                                                           *)
(***************************************************************************)
\* The requests are joins of different meetings, and leave the scheduler's to it
JoinsApart == /\ \A a \in Actor : Open(a) => flow[a].op = "join"
              /\ \A a, c \in Actor : Open(a) /\ Open(c) /\ a # c => flow[a].m # flow[c].m
RoutesWait == \A a \in Actor : Open(a) /\ a # Scheduler => sched[flow[a].m].st \notin {"pending", "joining"}

\* What is scheduled is there, what is handed over has an owner, what is over was
RowsAreThere == /\ \A m \in Meeting : sched[m].st # None => Exists(m)
                /\ \A m \in due : Exists(m)
                /\ thread.op = "cancel" => thread.m \in Meeting /\ Exists(thread.m)
OwnersHandOver == \A m \in Meeting : cover[m].decision = "handed_over" => cover[m].owner # None
CallsAreOver == \A m \in Meeting : /\ meet[m].st # "stopping"
                                   /\ meet[m].st = "completed" /\ meet[m].cap # NoBot
                                         => bot[meet[m].cap].st \notin {"joining", "active"}

\* Where the pass is
VisitFits ==
    /\ visit.pc # "idle" => visit.m \in Meeting /\ Exists(visit.m) /\ ~Open(Scheduler)
    /\ visit.pc = "claiming" /\ sched[visit.m].st = "pending" => cover[visit.m].decision # "handed_over"
    /\ visit.pc = "claimed" => sched[visit.m].st \in {"joining", "cancelled"}

StartParts == /\ JoinsApart /\ RoutesWait /\ RowsAreThere /\ OwnersHandOver /\ CallsAreOver /\ VisitFits
StartInv == side = "start" => crossed = {} /\ StartParts

EndInv == side = "end" => \A m \in Meeting : sched[m].st = None /\ cover[m].decision = None

CallsInv == TypeInv /\ CapturesAreOwned /\ RowsFit /\ LiveOnesAreKnown /\ StartInv /\ EndInv

-----------------------------------------------------------------------------
(***************************************************************************)
(* Types                                                                   *)
(***************************************************************************)
CaptureTypes == /\ meet \in [Meeting -> MeetingRow] /\ text \in [Meeting -> 0..2]
                /\ leave \in [Meeting -> LeaveState]
                /\ bot \in [Bot -> [m : Meeting, st : {"none", "gone"} \union LiveBot \union Terminal,
                                    words : 0..2]]
                /\ FlowsAreTyped
Bounded      == ops \in 0..MaxOps /\ faults \in 0..MaxFaults
Sides        == todo \subseteq Meeting /\ side \in {"end", "start"} /\ crossed \subseteq Meeting

LEMMA TypeParts == TypeInv <=> CaptureTypes /\ Bounded /\ SchedTypeOK /\ Sides
BY DEF TypeInv, CallsTypeOK, CaptureTypeOK, CaptureTypes, Bounded, Sides, FlowsAreTyped, FlowRow

LEMMA RowConstants == /\ NoMeeting \in MeetingRow /\ NO_STATE \in LeaveState /\ Idle \in FlowRow
                      /\ Idle.pc = "idle" /\ NoMeeting.st = "none" /\ NoMeeting.cap = NoBot
                      /\ NO_STATE.end = None
BY CaptureAssumption DEF NoMeeting, MeetingRow, NO_STATE, LeaveState, Idle, FlowRow, Answer, Err, Joining, InCall,
   Terminal, NotYet, None

\* A new request
LEMMA AsksTyped ==
    ASSUME FlowsAreTyped, NEW a \in Actor, NEW m \in Meeting,
           NEW op \in {"join", "refresh", "stop", "transcript", "delete"}, NEW row \in MeetingRow,
           row.st # "none", op # "join" => row.cap # NoBot,
           NEW by \in {None, "user", "auto", "watch", "settle"}, NEW waited \in 0..NotYet,
           Asks(a, op, m, row, by, waited)
    PROVE  /\ FlowsAreTyped'
           /\ flow'[a].pc = "asked" /\ flow'[a].op = op /\ flow'[a].m = m /\ flow'[a].row = row
           /\ flow'[a].by = by /\ flow'[a].waited = waited
           /\ \A c \in Actor : c # a => flow'[c] = flow[c]
<1>1. PICK f : f = [Idle EXCEPT !.pc = "asked", !.op = op, !.m = m, !.row = row, !.by = by, !.waited = waited]
  OBVIOUS
<1>2. f = [pc |-> "asked", op |-> op, m |-> m, row |-> row, ans |-> Err("ok"), by |-> by, waited |-> waited]
  BY <1>1 DEF Idle
<1>3. f \in FlowRow
  BY <1>2, CaptureAssumption DEF FlowRow, Answer, Err, None
<1>4. flow' = [flow EXCEPT ![a] = f]
  BY <1>1 DEF Asks
<1>5. flow \in [Actor -> FlowRow]
  BY DEF FlowsAreTyped
<1>6. flow' \in [Actor -> FlowRow] /\ flow'[a] = f /\ \A c \in Actor : c # a => flow'[c] = flow[c]
  BY <1>3, <1>4, <1>5
<1> QED
  BY <1>2, <1>6 DEF FlowsAreTyped, Open, None

\* A request that is over
LEMMA DoneTyped ==
    ASSUME FlowsAreTyped, NEW a \in Actor, Done(a)
    PROVE  FlowsAreTyped' /\ flow'[a].pc = "idle" /\ \A c \in Actor : c # a => flow'[c] = flow[c]
BY RowConstants DEF FlowsAreTyped, Done, Open

\* An answer
LEMMA AnswersTyped ==
    ASSUME FlowsAreTyped, NEW a \in Actor, Open(a), NEW ans \in Answer, Answers(a, ans)
    PROVE  /\ FlowsAreTyped'
           /\ flow'[a].pc = "answered" /\ flow'[a].ans = ans /\ flow'[a].op = flow[a].op
           /\ flow'[a].m = flow[a].m /\ flow'[a].row = flow[a].row /\ flow'[a].by = flow[a].by
           /\ \A c \in Actor : c # a => flow'[c] = flow[c]
<1>1. flow \in [Actor -> FlowRow]
  BY DEF FlowsAreTyped
<1>2. PICK f : f = [flow[a] EXCEPT !.pc = "answered", !.ans = ans]
  OBVIOUS
<1>3. f = [pc |-> "answered", op |-> flow[a].op, m |-> flow[a].m, row |-> flow[a].row, ans |-> ans,
           by |-> flow[a].by, waited |-> flow[a].waited]
  BY <1>1, <1>2 DEF FlowRow
<1>4. f \in FlowRow
  BY <1>1, <1>3 DEF FlowRow
<1>5. flow' = [flow EXCEPT ![a] = f]
  BY <1>2 DEF Answers
<1>6. flow' \in [Actor -> FlowRow] /\ flow'[a] = f /\ \A c \in Actor : c # a => flow'[c] = flow[c]
  BY <1>1, <1>4, <1>5
<1> QED
  BY <1>3, <1>6 DEF FlowsAreTyped, Open

LEMMA SaveTyped ==
    ASSUME meet \in [Meeting -> MeetingRow], NEW m \in Meeting, NEW row \in MeetingRow, Save(m, row)
    PROVE  meet' \in [Meeting -> MeetingRow] /\ meet'[m] = row /\ \A n \in Meeting : n # m => meet'[n] = meet[n]
BY DEF Save

\* What refresh() and stop() save
LEMMA RowsToSave ==
    ASSUME FlowsAreTyped, NEW a \in Actor, Open(a)
    PROVE  /\ flow[a].m \in Meeting /\ flow[a].row \in MeetingRow
           /\ Refreshed(a) \in MeetingRow /\ Refreshed(a).cap = flow[a].row.cap
           /\ Refreshed(a).st = Reported(a) /\ Reported(a) # "none"
           /\ Refreshed(a).stop = flow[a].row.stop
           /\ StoppedRow(a) \in MeetingRow /\ StoppedRow(a).cap = flow[a].row.cap
           /\ StoppedRow(a).st = "stopping"
           /\ flow[a].ans.st # "none" => Reported(a) = flow[a].ans.st
<1>1. flow[a] \in FlowRow /\ flow[a].m \in Meeting /\ flow[a].row.st # "none"
  BY DEF FlowsAreTyped
<1>2. flow[a].row \in MeetingRow /\ flow[a].ans \in Answer
  BY <1>1 DEF FlowRow
<1>3. Reported(a) \in {"created", "stopping"} \union Joining \union InCall \union Terminal
  BY <1>1, <1>2 DEF Reported, MeetingRow, Answer, None
<1>4. Refreshed(a) = [st |-> Reported(a), cap |-> flow[a].row.cap, stop |-> flow[a].row.stop, seen |-> 0]
  <2>1. PICK st : st = Reported(a)
    OBVIOUS
  <2>2. PICK r : r = [flow[a].row EXCEPT !.st = st, !.seen = 0]
    OBVIOUS
  <2>3. r = [st |-> st, cap |-> flow[a].row.cap, stop |-> flow[a].row.stop, seen |-> 0]
    BY <1>2, <2>2 DEF MeetingRow
  <2> QED  BY <2>1, <2>2, <2>3 DEF Refreshed
<1>5. StoppedRow(a) = [st |-> "stopping", cap |-> flow[a].row.cap, stop |-> 0, seen |-> flow[a].row.seen]
  <2>1. PICK r : r = [flow[a].row EXCEPT !.st = "stopping", !.stop = 0]
    OBVIOUS
  <2>2. r = [st |-> "stopping", cap |-> flow[a].row.cap, stop |-> 0, seen |-> flow[a].row.seen]
    BY <1>2, <2>1 DEF MeetingRow
  <2> QED  BY <2>1, <2>2 DEF StoppedRow
<1> QED
  BY <1>1, <1>2, <1>3, <1>4, <1>5, CaptureAssumption DEF MeetingRow, Joining, InCall, Terminal, NotYet, Reported, None

\* What join() makes of an answer
LEMMA RowJoined ==
    ASSUME FlowsAreTyped, NEW a \in Actor, Open(a),
           flow[a].ans.kind = "ok" => flow[a].ans.st = "requested"
    PROVE  /\ JoinedRow(a) \in MeetingRow
           /\ JoinedRow(a).cap = IF flow[a].ans.kind = "ok" THEN flow[a].ans.cap ELSE flow[a].row.cap
           /\ JoinedRow(a).st = IF flow[a].ans.kind = "ok" THEN "requested"
                                ELSE IF flow[a].ans.kind = "e429" THEN "created" ELSE "failed"
<1>1. flow[a].row \in MeetingRow /\ flow[a].ans \in Answer
  BY DEF FlowsAreTyped, FlowRow
<1>2. CASE flow[a].ans.kind = "ok"
  <2>1. JoinedRow(a) = [st |-> "requested", cap |-> flow[a].ans.cap, stop |-> flow[a].row.stop,
                        seen |-> flow[a].row.seen]
    BY <1>1, <1>2 DEF JoinedRow, MeetingRow
  <2> QED  BY <1>1, <1>2, <2>1 DEF MeetingRow, Answer, Joining
<1>3. CASE flow[a].ans.kind = "e429"
  <2>1. JoinedRow(a) = [st |-> "created", cap |-> flow[a].row.cap, stop |-> flow[a].row.stop,
                        seen |-> flow[a].row.seen]
    BY <1>1, <1>3 DEF JoinedRow, MeetingRow
  <2> QED  BY <1>1, <1>3, <2>1 DEF MeetingRow
<1>4. CASE flow[a].ans.kind \notin {"ok", "e429"}
  <2>1. JoinedRow(a) = [st |-> "failed", cap |-> flow[a].row.cap, stop |-> flow[a].row.stop,
                        seen |-> flow[a].row.seen]
    BY <1>1, <1>4 DEF JoinedRow, MeetingRow
  <2> QED  BY <1>1, <1>4, <2>1 DEF MeetingRow, Terminal
<1> QED  BY <1>2, <1>3, <1>4

LEMMA EndRecorded ==
    ASSUME leave \in [Meeting -> LeaveState], NEW m \in Meeting, NEW who \in {"user", "auto", "vexa"}
    PROVE  /\ RecordEnd(m, who) \in [Meeting -> LeaveState]
           /\ \A n \in Meeting : n # m => RecordEnd(m, who)[n] = leave[n]
           /\ RecordEnd(m, who)[m].end = IF leave[m].end # None THEN leave[m].end ELSE who
<1>1. CASE leave[m].end # None
  BY <1>1 DEF RecordEnd
<1>2. CASE leave[m].end = None
  <2>1. PICK e : e = [leave[m] EXCEPT !.end = who, !.at = 0, !.backoff = FALSE]
    OBVIOUS
  <2>2. e = [end |-> who, at |-> 0, backoff |-> FALSE, warned |-> leave[m].warned]
    BY <2>1 DEF LeaveState
  <2>3. e \in LeaveState
    BY <2>2, CaptureAssumption DEF LeaveState, NotYet
  <2>4. RecordEnd(m, who) = [leave EXCEPT ![m] = e]
    BY <1>2, <2>1 DEF RecordEnd
  <2> QED  BY <1>2, <2>2, <2>3, <2>4
<1> QED  BY <1>1, <1>2

\* What mark_completed() saves
LEMMA RowClosed ==
    ASSUME NEW row \in MeetingRow
    PROVE  Closed(row) \in MeetingRow /\ Closed(row).cap = row.cap /\ Closed(row).st = "completed"
<1>1. PICK stop : stop = IF row.stop = NotYet THEN 0 ELSE row.stop
  OBVIOUS
<1>2. PICK r : r = [row EXCEPT !.st = "completed", !.stop = stop]
  OBVIOUS
<1>3. r = [st |-> "completed", cap |-> row.cap, stop |-> stop, seen |-> row.seen]
  BY <1>2 DEF MeetingRow
<1>4. stop \in 0..NotYet
  BY <1>1, CaptureAssumption DEF MeetingRow, NotYet
<1>5. Closed(row) = r
  BY <1>1, <1>2 DEF Closed
<1> QED  BY <1>3, <1>4, <1>5 DEF MeetingRow, Terminal

LEMMA Completed ==
    ASSUME meet \in [Meeting -> MeetingRow], NEW m \in Meeting
    PROVE  /\ MarkCompleted(m) \in [Meeting -> MeetingRow]
           /\ \A n \in Meeting : n # m => MarkCompleted(m)[n] = meet[n]
           /\ MarkCompleted(m)[m].cap = meet[m].cap
           /\ MarkCompleted(m)[m].st = IF meet[m].st \in Terminal THEN meet[m].st ELSE "completed"
BY RowClosed DEF MarkCompleted

-----------------------------------------------------------------------------
(***************************************************************************)
(* What each step does to the rows                                         *)
(***************************************************************************)
Elsewhere(a, m) == /\ \A n \in Meeting : n # m => meet'[n] = meet[n] /\ leave'[n] = leave[n] /\ text'[n] = text[n]
                   /\ \A c \in Actor : c # a => flow'[c] = flow[c]

\* A request that read its meeting and asks about its capture
Reads(a, m, op, by) ==
    /\ ~Open(a) /\ Exists(m) /\ meet[m].cap # NoBot
    /\ op = "delete" => MayDelete(m)
    /\ by = "settle" => op = "refresh" /\ Leaves(m)
    /\ by = "auto" => op = "refresh"
    /\ meet' = meet /\ leave' = leave /\ text' = text /\ bot' = bot
    /\ Elsewhere(a, m)
    /\ flow'[a].pc = "asked" /\ flow'[a].op = op /\ flow'[a].m = m /\ flow'[a].row = meet[m] /\ flow'[a].by = by

LEMMA ReadsTyped ==
    ASSUME CaptureTypes, NEW a \in Actor, NEW m \in Meeting,
           NEW op \in {"refresh", "stop", "transcript", "delete"},
           NEW by \in {None, "user", "watch", "settle"}, NEW waited \in 0..NotYet,
           Free(a), Exists(m), meet[m].cap # NoBot, op = "delete" => MayDelete(m),
           by = "settle" => op = "refresh" /\ Leaves(m),
           Asks(a, op, m, meet[m], by, waited), UNCHANGED <<meet, text, leave, bot>>
    PROVE  CaptureTypes' /\ Reads(a, m, op, by)
<1>1. meet[m] \in MeetingRow /\ meet[m].st # "none"
  BY DEF CaptureTypes, Exists
<1>2. /\ FlowsAreTyped'
      /\ flow'[a].pc = "asked" /\ flow'[a].op = op /\ flow'[a].m = m /\ flow'[a].row = meet[m]
      /\ flow'[a].by = by
      /\ \A c \in Actor : c # a => flow'[c] = flow[c]
  BY <1>1, AsksTyped DEF CaptureTypes
<1> QED  BY <1>2 DEF CaptureTypes, Reads, Elsewhere, Free, Open, None

LEMMA PeopleRead ==
    ASSUME CaptureTypes, NEW a \in Actor, NEW m \in Meeting
    PROVE  /\ RefreshAsk(a, m) => CaptureTypes' /\ Reads(a, m, "refresh", None)
           /\ StopAsk(a, m, "user") => CaptureTypes' /\ Reads(a, m, "stop", "user")
           /\ TranscriptAsk(a, m) => CaptureTypes' /\ Reads(a, m, "transcript", None)
           /\ DeleteAsk(a, m) => CaptureTypes' /\ Reads(a, m, "delete", None)
<1>0. 0 \in 0..NotYet
  BY CaptureAssumption DEF NotYet
<1>1. ASSUME RefreshAsk(a, m) PROVE CaptureTypes' /\ Reads(a, m, "refresh", None)
  BY <1>0, <1>1, ReadsTyped DEF RefreshAsk, None
<1>2. ASSUME StopAsk(a, m, "user") PROVE CaptureTypes' /\ Reads(a, m, "stop", "user")
  BY <1>0, <1>2, ReadsTyped DEF StopAsk, None
<1>3. ASSUME TranscriptAsk(a, m) PROVE CaptureTypes' /\ Reads(a, m, "transcript", None)
  BY <1>0, <1>3, ReadsTyped DEF TranscriptAsk, None
<1>4. ASSUME DeleteAsk(a, m) PROVE CaptureTypes' /\ Reads(a, m, "delete", None)
  <2>1. MayDelete(m) /\ Exists(m) /\ Free(a) /\ meet[m].cap # NoBot /\ UNCHANGED <<meet, text, leave, bot>>
    BY <1>4 DEF DeleteAsk, MayDelete, Exists, Terminal
  <2> QED  BY <1>0, <1>4, <2>1, ReadsTyped DEF DeleteAsk, None
<1> QED  BY <1>1, <1>2, <1>3, <1>4

LEMMA WatchdogReads ==
    ASSUME CaptureTypes, NEW m \in Meeting, WatchBegin(m)
    PROVE  /\ CaptureTypes'
           /\ \/ UNCHANGED captureVars
              \/ Reads(Watchdog, m, "refresh", "settle") \/ Reads(Watchdog, m, "refresh", "watch")
<1>1. CASE ~(Exists(m) /\ meet[m].cap # NoBot)
  BY <1>1 DEF WatchBegin, CaptureTypes, FlowsAreTyped, Open, captureVars
<1>2. CASE Exists(m) /\ meet[m].cap # NoBot
  <2>1. meet[m] \in MeetingRow /\ leave[m] \in LeaveState /\ Waited(m) \in 0..NotYet /\ meet[m].seen \in 0..NotYet
    BY DEF CaptureTypes, MeetingRow, LeaveState, Waited
  <2>2. Watchdog \in Actor /\ Free(Watchdog) /\ UNCHANGED <<meet, text, leave, bot>>
    BY LeaveAssumption DEF WatchBegin
  <2>3. CASE Leaves(m)
    BY <1>2, <2>1, <2>2, <2>3, ReadsTyped DEF WatchBegin, None
  <2>4. CASE ~Leaves(m)
    <3>1. Asks(Watchdog, "refresh", m, meet[m], "watch", meet[m].seen)
      BY <1>2, <2>4 DEF WatchBegin
    <3> QED  BY <1>2, <2>1, <2>2, <3>1, ReadsTyped DEF None
  <2> QED  BY <2>3, <2>4
<1> QED  BY <1>1, <1>2

-----------------------------------------------------------------------------
(***************************************************************************)
(* What a request saves after its answer                                   *)
(***************************************************************************)
SavesNothing(m) == meet'[m] = meet[m] /\ leave'[m].end = leave[m].end

SavesTheAnswer(a, m) ==
    /\ flow[a].op \in {"refresh", "transcript"} /\ flow[a].ans.kind = "ok"
    /\ meet'[m].cap = flow[a].row.cap /\ meet'[m].st = Reported(a)
    /\ leave'[m].end # leave[m].end => Reported(a) \in Terminal

SavesTheStop(a, m) ==
    /\ Leaving(flow[a])
    /\ meet'[m].cap = flow[a].row.cap /\ meet'[m].st = "stopping"

ClosesTheLost(a, m) ==
    /\ flow[a].op = "refresh" /\ flow[a].ans.kind = "e404"
    /\ flow[a].row.st \in InCall \/ flow[a].by = "settle"
    /\ meet[m].st # "none" /\ meet'[m].cap = meet[m].cap
    /\ meet'[m].st = IF meet[m].st \in Terminal THEN meet[m].st ELSE "completed"

ClosesTheLate(a, m) ==
    /\ flow[a].op = "refresh" /\ flow[a].ans.kind = "ok" /\ flow[a].by = "settle"
    /\ Reported(a) \notin Terminal
    /\ meet'[m].cap = flow[a].row.cap /\ meet'[m].st = "completed"

Saves(a, m) == \/ SavesNothing(m) \/ SavesTheAnswer(a, m) \/ SavesTheStop(a, m)
               \/ ClosesTheLost(a, m) \/ ClosesTheLate(a, m)

\* The request ends, or the watchdog asks on
GoesOn(a, m) ==
    \/ flow'[a].pc = "idle"
    \/ /\ flow'[a].pc = "asked" /\ flow'[a].m = m /\ flow'[a].row.cap = flow[a].row.cap
       /\ flow'[a].row.st = Reported(a)
       /\ SavesTheAnswer(a, m) /\ Reported(a) \in InCall
       /\ \/ flow'[a].op = "transcript" /\ flow'[a].by = "watch"
          \/ flow'[a].op = "stop" /\ flow'[a].by = "auto"

Continues(a, m) ==
    /\ flow[a].pc = "answered" /\ flow[a].op \in {"refresh", "stop", "transcript"} /\ flow[a].m = m
    /\ bot' = bot /\ Elsewhere(a, m)
    /\ Saves(a, m) /\ GoesOn(a, m)

\* refresh() after its await
LEMMA RefreshSaved ==
    ASSUME CaptureTypes, NEW a \in Actor, flow[a].pc = "answered", flow[a].op \in {"refresh", "transcript"},
           RefreshSaves(a)
    PROVE  LET m == flow[a].m IN
           /\ meet' \in [Meeting -> MeetingRow] /\ leave' \in [Meeting -> LeaveState]
           /\ \A n \in Meeting : n # m => meet'[n] = meet[n] /\ leave'[n] = leave[n]
           /\ SavesNothing(m) \/ SavesTheAnswer(a, m)
           /\ flow[a].ans.kind = "ok" => SavesTheAnswer(a, m) /\ meet'[m] = Refreshed(a)
<1> DEFINE m == flow[a].m
<1>1. FlowsAreTyped /\ Open(a) /\ m \in Meeting /\ meet \in [Meeting -> MeetingRow] /\ leave \in [Meeting -> LeaveState]
  BY DEF CaptureTypes, FlowsAreTyped, Open
<1>2. CASE flow[a].ans.kind = "ok"
  <2>1. Save(m, Refreshed(a)) /\ leave' = Finished(m, Reported(a))
    BY <1>2 DEF RefreshSaves
  <2>2. Refreshed(a) \in MeetingRow /\ Refreshed(a).cap = flow[a].row.cap /\ Refreshed(a).st = Reported(a)
    BY <1>1, RowsToSave
  <2>3. /\ meet' \in [Meeting -> MeetingRow] /\ meet'[m] = Refreshed(a)
        /\ \A n \in Meeting : n # m => meet'[n] = meet[n]
    BY <1>1, <2>1, <2>2, SaveTyped
  <2>4. /\ leave' \in [Meeting -> LeaveState] /\ \A n \in Meeting : n # m => leave'[n] = leave[n]
        /\ leave'[m].end # leave[m].end => Reported(a) \in Terminal
    BY <1>1, <2>1, EndRecorded DEF Finished
  <2> QED  BY <1>2, <2>2, <2>3, <2>4 DEF SavesTheAnswer
<1>3. CASE flow[a].ans.kind # "ok"
  BY <1>1, <1>3 DEF RefreshSaves, SavesNothing
<1> QED  BY <1>2, <1>3

LEMMA TextStored ==
    ASSUME CaptureTypes, NEW a \in Actor, Open(a), StoresText(a)
    PROVE  text' \in [Meeting -> 0..2] /\ \A n \in Meeting : n # flow[a].m => text'[n] = text[n]
BY DEF CaptureTypes, FlowsAreTyped, FlowRow, Answer, StoresText, Open

LEMMA Ended ==
    ASSUME CaptureTypes, NEW a \in Actor, NEW m \in Meeting, flow[a].m = m
    PROVE  /\ RefreshEnd(a) => CaptureTypes' /\ Continues(a, m)
           /\ TranscriptEnd(a) => CaptureTypes' /\ Continues(a, m)
           /\ StopEnd(a) => CaptureTypes' /\ Continues(a, m)
<1>1. FlowsAreTyped /\ meet \in [Meeting -> MeetingRow] /\ leave \in [Meeting -> LeaveState]
  BY DEF CaptureTypes
<1>2. ASSUME RefreshEnd(a) PROVE CaptureTypes' /\ Continues(a, m)
  <2>1. flow[a].pc = "answered" /\ flow[a].op = "refresh" /\ RefreshSaves(a) /\ Done(a) /\ UNCHANGED <<text, bot>>
    BY <1>2 DEF RefreshEnd, Answered
  <2>2. FlowsAreTyped' /\ flow'[a].pc = "idle" /\ \A c \in Actor : c # a => flow'[c] = flow[c]
    BY <1>1, <2>1, DoneTyped
  <2> QED  BY <2>1, <2>2, RefreshSaved DEF CaptureTypes, Continues, Elsewhere, Saves, GoesOn
<1>3. ASSUME TranscriptEnd(a) PROVE CaptureTypes' /\ Continues(a, m)
  <2>1. /\ flow[a].pc = "answered" /\ flow[a].op = "transcript" /\ RefreshSaves(a) /\ StoresText(a) /\ Done(a)
        /\ UNCHANGED bot
    BY <1>3 DEF TranscriptEnd, Answered
  <2>2. FlowsAreTyped' /\ flow'[a].pc = "idle" /\ \A c \in Actor : c # a => flow'[c] = flow[c]
    BY <1>1, <2>1, DoneTyped
  <2>3. text' \in [Meeting -> 0..2] /\ \A n \in Meeting : n # m => text'[n] = text[n]
    BY <2>1, TextStored DEF Open
  <2> QED  BY <2>1, <2>2, <2>3, RefreshSaved DEF CaptureTypes, Continues, Elsewhere, Saves, GoesOn
<1>4. ASSUME StopEnd(a) PROVE CaptureTypes' /\ Continues(a, m)
  <2>1. flow[a].pc = "answered" /\ flow[a].op = "stop" /\ Done(a) /\ UNCHANGED <<text, bot>>
    BY <1>4 DEF StopEnd, Answered
  <2>2. FlowsAreTyped' /\ flow'[a].pc = "idle" /\ \A c \in Actor : c # a => flow'[c] = flow[c]
    BY <1>1, <2>1, DoneTyped
  <2>3. CASE StopAccepted(a)
    <3>1. Save(m, StoppedRow(a)) /\ leave' = RecordEnd(m, "user")
      BY <1>4, <2>3 DEF StopEnd
    <3>2. StoppedRow(a) \in MeetingRow /\ StoppedRow(a).cap = flow[a].row.cap /\ StoppedRow(a).st = "stopping"
      BY <1>1, <2>1, RowsToSave DEF Open
    <3>3. /\ meet' \in [Meeting -> MeetingRow] /\ meet'[m] = StoppedRow(a)
          /\ \A n \in Meeting : n # m => meet'[n] = meet[n]
      BY <1>1, <3>1, <3>2, SaveTyped
    <3>4. leave' \in [Meeting -> LeaveState] /\ \A n \in Meeting : n # m => leave'[n] = leave[n]
      BY <1>1, <3>1, EndRecorded
    <3>5. SavesTheStop(a, m)
      BY <2>1, <2>3, <3>2, <3>3 DEF SavesTheStop, Leaving, StopAccepted
    <3> QED  BY <2>1, <2>2, <3>3, <3>4, <3>5 DEF CaptureTypes, Continues, Elsewhere, Saves, GoesOn
  <2>4. CASE ~StopAccepted(a)
    <3>1. meet' = meet /\ leave' = leave
      BY <1>4, <2>4 DEF StopEnd
    <3> QED  BY <2>1, <2>2, <3>1 DEF CaptureTypes, Continues, Elsewhere, Saves, SavesNothing, GoesOn
  <2> QED  BY <2>3, <2>4
<1> QED  BY <1>2, <1>3, <1>4

LEMMA TranscriptSaved ==
    ASSUME CaptureTypes, NEW m \in Meeting, flow[Watchdog].m = m, WatchDecides \/ WatchWarns \/ WatchLeaves
    PROVE  CaptureTypes' /\ Continues(Watchdog, m)
<1> DEFINE a == Watchdog
<1>1. /\ a \in Actor /\ FlowsAreTyped /\ meet \in [Meeting -> MeetingRow] /\ leave \in [Meeting -> LeaveState]
      /\ flow[a].pc = "answered" /\ flow[a].op = "transcript" /\ Open(a) /\ StoresText(a) /\ bot' = bot
      /\ 0 \in 0..NotYet
  BY LeaveAssumption, CaptureAssumption DEF CaptureTypes, WatchDecides, WatchWarns, WatchLeaves, Answered, Open, NotYet
<1>2. text' \in [Meeting -> 0..2] /\ \A n \in Meeting : n # m => text'[n] = text[n]
  BY <1>1, TextStored
<1>3. Refreshed(a) \in MeetingRow /\ Refreshed(a).cap = flow[a].row.cap /\ Refreshed(a).st = Reported(a)
  BY <1>1, RowsToSave
<1>4. CASE WatchDecides
  <2>1. RefreshSaves(a) /\ Done(a)
    BY <1>4 DEF WatchDecides
  <2>2. FlowsAreTyped' /\ flow'[a].pc = "idle" /\ \A c \in Actor : c # a => flow'[c] = flow[c]
    BY <1>1, <2>1, DoneTyped
  <2> QED  BY <1>1, <1>2, <2>1, <2>2, RefreshSaved DEF CaptureTypes, Continues, Elsewhere, Saves, GoesOn
<1>5. CASE WatchWarns
  <2>1. /\ Done(a) /\ flow[a].ans.kind = "ok" /\ Save(m, Refreshed(a)) /\ leave' = [leave EXCEPT ![m].warned = TRUE]
    BY <1>5 DEF WatchWarns
  <2>2. FlowsAreTyped' /\ flow'[a].pc = "idle" /\ \A c \in Actor : c # a => flow'[c] = flow[c]
    BY <1>1, <2>1, DoneTyped
  <2>3. /\ meet' \in [Meeting -> MeetingRow] /\ meet'[m] = Refreshed(a)
        /\ \A n \in Meeting : n # m => meet'[n] = meet[n]
    BY <1>1, <1>3, <2>1, SaveTyped
  <2>4. /\ leave' \in [Meeting -> LeaveState] /\ \A n \in Meeting : n # m => leave'[n] = leave[n]
        /\ leave'[m].end = leave[m].end
    BY <1>1, <2>1 DEF LeaveState
  <2>5. SavesTheAnswer(a, m)
    BY <1>1, <1>3, <2>1, <2>3, <2>4 DEF SavesTheAnswer
  <2> QED  BY <1>1, <1>2, <2>2, <2>3, <2>4, <2>5 DEF CaptureTypes, Continues, Elsewhere, Saves, GoesOn
<1>6. CASE WatchLeaves
  <2>1. /\ flow[a].ans.kind = "ok" /\ Reported(a) \in InCall /\ Save(m, Refreshed(a)) /\ leave' = leave
        /\ Asks(a, "stop", m, Refreshed(a), "auto", 0)
    BY <1>6 DEF WatchLeaves
  <2>2. Reported(a) # "none" /\ Refreshed(a).cap # NoBot
    BY <1>1, <1>3, RowsToSave DEF FlowsAreTyped
  <2>3. /\ FlowsAreTyped'
        /\ flow'[a].pc = "asked" /\ flow'[a].op = "stop" /\ flow'[a].m = m /\ flow'[a].row = Refreshed(a)
        /\ flow'[a].by = "auto"
        /\ \A c \in Actor : c # a => flow'[c] = flow[c]
    BY <1>1, <1>3, <2>1, <2>2, AsksTyped
  <2>4. /\ meet' \in [Meeting -> MeetingRow] /\ meet'[m] = Refreshed(a)
        /\ \A n \in Meeting : n # m => meet'[n] = meet[n]
    BY <1>1, <1>3, <2>1, SaveTyped
  <2>5. SavesTheAnswer(a, m)
    BY <1>1, <1>3, <2>1, <2>4 DEF SavesTheAnswer
  <2> QED  BY <1>1, <1>2, <1>3, <2>1, <2>3, <2>4, <2>5 DEF CaptureTypes, Continues, Elsewhere, Saves, GoesOn
<1> QED  BY <1>4, <1>5, <1>6

LEMMA WatchdogSaved ==
    ASSUME CaptureTypes, NEW m \in Meeting, flow[Watchdog].m = m, WatchRefreshed
    PROVE  CaptureTypes' /\ Continues(Watchdog, m)
<1> DEFINE a == Watchdog
<1>1. /\ a \in Actor /\ FlowsAreTyped /\ meet \in [Meeting -> MeetingRow] /\ leave \in [Meeting -> LeaveState]
      /\ flow[a].pc = "answered" /\ flow[a].op = "refresh" /\ Open(a) /\ bot' = bot /\ text' = text
      /\ 0 \in 0..NotYet
  BY LeaveAssumption, CaptureAssumption DEF CaptureTypes, WatchRefreshed, Answered, Open, NotYet
<1>2. Refreshed(a) \in MeetingRow /\ Refreshed(a).cap = flow[a].row.cap /\ Refreshed(a).st = Reported(a)
  BY <1>1, RowsToSave
<1>3. CASE flow[a].ans.kind = "ok"
  <2>1. RefreshSaves(a)
    BY <1>3 DEF WatchRefreshed
  <2>2. CASE Reported(a) \in InCall
    <3>1. Asks(a, "transcript", m, Refreshed(a), "watch", 0)
      BY <1>3, <2>2 DEF WatchRefreshed
    <3>2. Reported(a) # "none" /\ Refreshed(a).cap # NoBot
      BY <1>1, <1>2, RowsToSave DEF FlowsAreTyped
    <3>3. /\ FlowsAreTyped'
          /\ flow'[a].pc = "asked" /\ flow'[a].op = "transcript" /\ flow'[a].m = m /\ flow'[a].row = Refreshed(a)
          /\ flow'[a].by = "watch"
          /\ \A c \in Actor : c # a => flow'[c] = flow[c]
      BY <1>1, <1>2, <3>1, <3>2, AsksTyped
    <3> QED  BY <1>1, <1>2, <1>3, <2>1, <2>2, <3>3, RefreshSaved DEF CaptureTypes, Continues, Elsewhere, Saves, GoesOn
  <2>3. CASE Reported(a) \notin InCall
    <3>1. Done(a)
      BY <1>3, <2>3 DEF WatchRefreshed
    <3>2. FlowsAreTyped' /\ flow'[a].pc = "idle" /\ \A c \in Actor : c # a => flow'[c] = flow[c]
      BY <1>1, <3>1, DoneTyped
    <3> QED  BY <1>1, <2>1, <3>2, RefreshSaved DEF CaptureTypes, Continues, Elsewhere, Saves, GoesOn
  <2> QED  BY <2>2, <2>3
<1>4. CASE flow[a].ans.kind # "ok"
  <2>1. Done(a)
    BY <1>4 DEF WatchRefreshed
  <2>2. FlowsAreTyped' /\ flow'[a].pc = "idle" /\ \A c \in Actor : c # a => flow'[c] = flow[c]
    BY <1>1, <2>1, DoneTyped
  <2>3. CASE meet' = meet /\ leave' = leave
    BY <1>1, <2>2, <2>3 DEF CaptureTypes, Continues, Elsewhere, Saves, SavesNothing, GoesOn
  <2>4. CASE flow[a].ans.kind = "e404" /\ flow[a].row.st \in InCall /\ Exists(m) /\ Close(m, "auto")
    <3>1. /\ meet' \in [Meeting -> MeetingRow] /\ \A n \in Meeting : n # m => meet'[n] = meet[n]
          /\ ClosesTheLost(a, m)
      BY <1>1, <2>4, Completed DEF Close, ClosesTheLost, Exists
    <3>2. leave' \in [Meeting -> LeaveState] /\ \A n \in Meeting : n # m => leave'[n] = leave[n]
      BY <1>1, <2>4, EndRecorded DEF Close
    <3> QED  BY <1>1, <2>2, <3>1, <3>2 DEF CaptureTypes, Continues, Elsewhere, Saves, GoesOn
  <2> QED  BY <1>4, <2>3, <2>4 DEF WatchRefreshed
<1> QED  BY <1>3, <1>4

LEMMA StopSaved ==
    ASSUME CaptureTypes, NEW m \in Meeting, flow[Watchdog].m = m, WatchStopped
    PROVE  CaptureTypes' /\ Continues(Watchdog, m)
<1> DEFINE a == Watchdog
<1>1. /\ a \in Actor /\ FlowsAreTyped /\ meet \in [Meeting -> MeetingRow] /\ leave \in [Meeting -> LeaveState]
      /\ flow[a].pc = "answered" /\ flow[a].op = "stop" /\ Open(a) /\ bot' = bot /\ text' = text /\ Done(a)
  BY LeaveAssumption DEF CaptureTypes, WatchStopped, Answered, Open
<1>2. FlowsAreTyped' /\ flow'[a].pc = "idle" /\ \A c \in Actor : c # a => flow'[c] = flow[c]
  BY <1>1, DoneTyped
<1>3. CASE StopAccepted(a)
  <2>1. Save(m, StoppedRow(a)) /\ leave' = RecordEnd(m, "auto")
    BY <1>3 DEF WatchStopped
  <2>2. StoppedRow(a) \in MeetingRow /\ StoppedRow(a).cap = flow[a].row.cap /\ StoppedRow(a).st = "stopping"
    BY <1>1, RowsToSave
  <2>3. /\ meet' \in [Meeting -> MeetingRow] /\ meet'[m] = StoppedRow(a)
        /\ \A n \in Meeting : n # m => meet'[n] = meet[n]
    BY <1>1, <2>1, <2>2, SaveTyped
  <2>4. leave' \in [Meeting -> LeaveState] /\ \A n \in Meeting : n # m => leave'[n] = leave[n]
    BY <1>1, <2>1, EndRecorded
  <2>5. SavesTheStop(a, m)
    BY <1>1, <1>3, <2>2, <2>3 DEF SavesTheStop, Leaving, StopAccepted
  <2> QED  BY <1>1, <1>2, <2>3, <2>4, <2>5 DEF CaptureTypes, Continues, Elsewhere, Saves, GoesOn
<1>4. CASE ~StopAccepted(a)
  <2>1. meet' = meet /\ leave' = [leave EXCEPT ![m].backoff = TRUE]
    BY <1>4 DEF WatchStopped
  <2>2. /\ leave' \in [Meeting -> LeaveState] /\ \A n \in Meeting : n # m => leave'[n] = leave[n]
        /\ leave'[m].end = leave[m].end
    BY <1>1, <2>1 DEF LeaveState
  <2> QED  BY <1>1, <1>2, <2>1, <2>2 DEF CaptureTypes, Continues, Elsewhere, Saves, SavesNothing, GoesOn
<1> QED  BY <1>3, <1>4

LEMMA SettledSaved ==
    ASSUME CaptureTypes, NEW m \in Meeting, flow[Watchdog].m = m, Settled
    PROVE  CaptureTypes' /\ Continues(Watchdog, m)
<1> DEFINE a == Watchdog
<1>1. /\ a \in Actor /\ FlowsAreTyped /\ meet \in [Meeting -> MeetingRow] /\ leave \in [Meeting -> LeaveState]
      /\ flow[a].pc = "answered" /\ flow[a].op = "refresh" /\ flow[a].by = "settle" /\ Open(a)
      /\ bot' = bot /\ text' = text /\ Done(a)
  BY LeaveAssumption DEF CaptureTypes, Settled, Answered, Open
<1>2. FlowsAreTyped' /\ flow'[a].pc = "idle" /\ \A c \in Actor : c # a => flow'[c] = flow[c]
  BY <1>1, DoneTyped
<1>3. Refreshed(a) \in MeetingRow /\ Refreshed(a).cap = flow[a].row.cap
  BY <1>1, RowsToSave
<1>4. CASE /\ flow[a].ans.kind = "ok" /\ Reported(a) \notin Terminal
           /\ Save(m, Closed(Refreshed(a))) /\ leave' = RecordEnd(m, "vexa")
  <2>1. /\ Closed(Refreshed(a)) \in MeetingRow /\ Closed(Refreshed(a)).cap = flow[a].row.cap
        /\ Closed(Refreshed(a)).st = "completed"
    BY <1>3, RowClosed
  <2>2. /\ meet' \in [Meeting -> MeetingRow] /\ meet'[m] = Closed(Refreshed(a))
        /\ \A n \in Meeting : n # m => meet'[n] = meet[n]
    BY <1>1, <1>4, <2>1, SaveTyped
  <2>3. leave' \in [Meeting -> LeaveState] /\ \A n \in Meeting : n # m => leave'[n] = leave[n]
    BY <1>1, <1>4, EndRecorded
  <2>4. ClosesTheLate(a, m)
    BY <1>1, <1>4, <2>1, <2>2 DEF ClosesTheLate
  <2> QED  BY <1>1, <1>2, <2>2, <2>3, <2>4 DEF CaptureTypes, Continues, Elsewhere, Saves, GoesOn
<1>5. CASE flow[a].ans.kind = "e404" /\ Exists(m) /\ Close(m, "vexa")
  <2>1. /\ meet' \in [Meeting -> MeetingRow] /\ \A n \in Meeting : n # m => meet'[n] = meet[n]
        /\ ClosesTheLost(a, m)
    BY <1>1, <1>5, Completed DEF Close, ClosesTheLost, Exists
  <2>2. leave' \in [Meeting -> LeaveState] /\ \A n \in Meeting : n # m => leave'[n] = leave[n]
    BY <1>1, <1>5, EndRecorded DEF Close
  <2> QED  BY <1>1, <1>2, <2>1, <2>2 DEF CaptureTypes, Continues, Elsewhere, Saves, GoesOn
<1>6. CASE RefreshSaves(a)
  BY <1>1, <1>2, <1>6, RefreshSaved DEF CaptureTypes, Continues, Elsewhere, Saves, GoesOn
<1>7. \/ /\ flow[a].ans.kind = "ok" /\ Reported(a) \notin Terminal
         /\ Save(m, Closed(Refreshed(a))) /\ leave' = RecordEnd(m, "vexa")
      \/ flow[a].ans.kind = "e404" /\ Exists(m) /\ Close(m, "vexa")
      \/ RefreshSaves(a)
  <2> DEFINE ok == flow[a].ans.kind = "ok"
             lost == flow[a].ans.kind = "e404" /\ flow[a].waited \in Stuck..GiveUp
             late == ok /\ Reported(a) \notin Terminal /\ Patience(flow[a].waited)
  <2>1. CASE late
    BY <2>1 DEF Settled
  <2>2. CASE ~late /\ lost /\ Exists(m)
    BY <2>2 DEF Settled
  <2>3. CASE ~late /\ ~(lost /\ Exists(m))
    BY <2>3 DEF Settled
  <2> QED  BY <2>1, <2>2, <2>3
<1> QED  BY <1>4, <1>5, <1>6, <1>7

-----------------------------------------------------------------------------
(***************************************************************************)
(* Meetings a step leaves alone                                            *)
(***************************************************************************)
Alike(f, g) == /\ g.pc = f.pc /\ g.op = f.op /\ g.m = f.m /\ g.row.st = f.row.st /\ g.row.cap = f.row.cap
               /\ g.ans = f.ans /\ g.by = f.by
Undisturbed(m) ==
    /\ meet'[m].st = meet[m].st /\ meet'[m].cap = meet[m].cap /\ leave'[m].end = leave[m].end
    /\ \A a \in Actor : flow'[a].pc # "idle" /\ flow'[a].m = m => Open(a) /\ Alike(flow[a], flow'[a])
KeepsFailed(m) == \A b \in Bot : bot[b].m = m /\ bot[b].st = "failed" => bot'[b].st = "failed"

Sound  == CapturesAreOwned /\ RowsFit /\ LiveOnesAreKnown
Marks  == crossed' = crossed \union Crossing'
Steady == faults' = 0 => faults = 0

\* A capture, as time goes on
LEMMA CaptureKept ==
    ASSUME NEW b, NEW m, Forward(bot, bot'), IsOf(b, m, bot)
    PROVE  /\ IsOf(b, m, bot')
           /\ b # NoBot /\ bot[b].st \in Dead => bot'[b].st \in Dead
           /\ b # NoBot /\ bot[b].st \in Post => bot'[b].st \in Post
           /\ b # NoBot /\ bot[b].st = "gone" => bot'[b].st = "gone"
           /\ b # NoBot /\ bot[b].st # "joining" => bot'[b].st # "joining"
           /\ KeepsFailed(m) /\ b # NoBot /\ bot[b].st = "failed" => bot'[b].st = "failed"
<1>1. CASE b = NoBot
  BY <1>1 DEF IsOf
<1>2. CASE b # NoBot
  <2>1. b \in Bot /\ bot[b].m = m /\ bot[b].st # "none"
    BY <1>2 DEF IsOf
  <2>2. Goes(bot[b].st, bot'[b].st) /\ bot'[b].m = m
    BY <2>1 DEF Forward
  <2>3. IsOf(b, m, bot')
    BY <2>1, <2>2 DEF IsOf, Goes
  <2> QED  BY <2>1, <2>2, <2>3 DEF Goes, Dead, Post, KeepsFailed
<1> QED  BY <1>1, <1>2

\* A row, and a request, that a step leaves alone
LEMMA RowKept ==
    ASSUME CapturesAreOwned, NEW m \in Meeting, RowFits(meet[m], leave[m].end, bot), Forward(bot, bot'),
           meet'[m].st = meet[m].st, meet'[m].cap = meet[m].cap, leave'[m].end = leave[m].end
    PROVE  RowFits(meet'[m], leave'[m].end, bot')
<1>1. IsOf(meet[m].cap, m, bot)
  BY DEF CapturesAreOwned
<1> QED  BY <1>1, CaptureKept DEF RowFits

LEMMA FlowKept ==
    ASSUME CapturesAreOwned, FlowsAreTyped, NEW m \in Meeting, NEW a \in Actor, Open(a), flow[a].m = m,
           FlowFits(flow[a], meet[m], leave[m].end, bot), Forward(bot, bot'), KeepsFailed(m),
           Alike(flow[a], flow'[a]),
           meet'[m].st = meet[m].st, meet'[m].cap = meet[m].cap, leave'[m].end = leave[m].end
    PROVE  FlowFits(flow'[a], meet'[m], leave'[m].end, bot')
<1> DEFINE f == flow[a]  g == flow'[a]  c == flow[a].row.cap
<1>1. /\ g.pc = f.pc /\ g.op = f.op /\ g.m = f.m /\ g.row.st = f.row.st /\ g.row.cap = f.row.cap
      /\ g.ans = f.ans /\ g.by = f.by
  BY DEF Alike
<1>2. IsOf(c, m, bot) /\ (f.op # "join" => c # NoBot)
  BY DEF CapturesAreOwned, FlowsAreTyped
<1>3. CASE f.op = "join"
  BY <1>1, <1>2, <1>3, CaptureKept DEF FlowFits, JoinFits
<1>4. CASE f.op # "join"
  <2>1. RequestFits(f, meet[m], bot)
    BY <1>4 DEF FlowFits
  <2>2. /\ bot[c].st \in Post => bot'[c].st \in Post
        /\ bot[c].st = "gone" => bot'[c].st = "gone"
        /\ bot[c].st = "failed" => bot'[c].st = "failed"
        /\ bot[c].st # "joining" => bot'[c].st # "joining"
    BY <1>2, <1>4, CaptureKept
  <2>3. AnswerFits(f, meet[m], bot) => AnswerFits(g, meet'[m], bot')
    BY <1>1, <2>2 DEF AnswerFits
  <2>4. Leaving(g) => Leaving(f)
    BY <1>1 DEF Leaving
  <2>5. RequestFits(g, meet'[m], bot')
    BY <1>1, <2>1, <2>2, <2>3, <2>4 DEF RequestFits
  <2> QED  BY <1>1, <1>4, <2>5 DEF FlowFits
<1> QED  BY <1>3, <1>4

LEMMA Framed ==
    ASSUME CapturesAreOwned, NEW m \in Meeting, MeetingFits(m),
           FlowsAreTyped, Forward(bot, bot'), KeepsFailed(m), Undisturbed(m)
    PROVE  MeetingFits(m)'
<1>1. meet'[m].st = meet[m].st /\ meet'[m].cap = meet[m].cap /\ leave'[m].end = leave[m].end
  BY DEF Undisturbed
<1>2. RowFits(meet'[m], leave'[m].end, bot')
  BY <1>1, RowKept DEF MeetingFits
<1>3. ASSUME NEW a \in Actor, flow'[a].pc # "idle", flow'[a].m = m
      PROVE  FlowFits(flow'[a], meet'[m], leave'[m].end, bot')
  <2>1. Open(a) /\ Alike(flow[a], flow'[a]) /\ flow[a].m = m
    BY <1>3 DEF Undisturbed, Alike
  <2>2. FlowFits(flow[a], meet[m], leave[m].end, bot)
    BY <2>1 DEF MeetingFits
  <2> QED  BY <1>1, <2>1, <2>2, FlowKept
<1> QED  BY <1>2, <1>3 DEF MeetingFits, Open

\* Nobody but a has to do with m, as long as its requests did not cross
LEMMA Alone ==
    ASSUME RowsFit, NEW m \in Meeting \ crossed, NEW a \in Actor, Open(a), flow[a].m = m,
           flow[a].op \in {"join", "delete"}, NEW c \in Actor, c # a, Open(c)
    PROVE  flow[c].m # m
BY DEF RowsFit, Crossing, Overlapping, About, Free, Open

LEMMA AloneNow ==
    ASSUME Marks, NEW m \in Meeting \ crossed', NEW a \in Actor, flow'[a].pc # "idle", flow'[a].m = m,
           flow'[a].op \in {"join", "delete"}, NEW c \in Actor, c # a, flow'[c].pc # "idle"
    PROVE  flow'[c].m # m
BY DEF Marks, Crossing, Overlapping, About, Free

\* A step that works on m alone
LEMMA RowsKept ==
    ASSUME CaptureTypes, RowsFit, CapturesAreOwned, Marks, Forward(bot, bot'),
           NEW m, \A n \in Meeting : n # m => Undisturbed(n) /\ KeepsFailed(n),
           m \in Meeting \ crossed' /\ MeetingFits(m) => MeetingFits(m)'
    PROVE  RowsFit'
<1>1. Crossing' \subseteq crossed' /\ crossed \subseteq crossed'
  BY DEF Marks
<1>2. ASSUME NEW n \in Meeting \ crossed' PROVE MeetingFits(n)'
  <2>1. MeetingFits(n)
    BY <1>1 DEF RowsFit
  <2>2. CASE n = m
    BY <1>2, <2>1, <2>2
  <2>3. CASE n # m
    BY <2>1, <2>3, Framed DEF CaptureTypes
  <2> QED  BY <2>2, <2>3
<1> QED  BY <1>1, <1>2 DEF RowsFit

-----------------------------------------------------------------------------
(***************************************************************************)
(* Captures stay with their meetings, and live ones stay known             *)
(***************************************************************************)
KeepsJoins == \A a \in Actor : JoinOk(a) => Alike(flow[a], flow'[a])
Lives(st)  == st \in {"joining", "active"}
SameLives  == \A b \in Bot : Lives(bot'[b].st) => Lives(bot[b].st) /\ bot'[b].m = bot[b].m

\* A request as it is after the step is one that was, or has an owned capture
OwnedFlow(a) ==
    \/ Open(a) /\ Alike(flow[a], flow'[a])
    \/ /\ IsOf(flow'[a].row.cap, flow'[a].m, bot')
       /\ JoinOk(a)' => /\ flow'[a].ans.cap # NoBot /\ flow'[a].ans.st = "requested"
                        /\ IsOf(flow'[a].ans.cap, flow'[a].m, bot')

LEMMA OwnedKept ==
    ASSUME CapturesAreOwned, Forward(bot, bot'),
           \A m \in Meeting : meet'[m].cap = meet[m].cap \/ IsOf(meet'[m].cap, m, bot'),
           \A a \in Actor : flow'[a].pc # "idle" => OwnedFlow(a)
    PROVE  CapturesAreOwned'
<1>1. ASSUME NEW m \in Meeting PROVE IsOf(meet'[m].cap, m, bot')
  BY CaptureKept DEF CapturesAreOwned
<1>2. ASSUME NEW a \in Actor, flow'[a].pc # "idle"
      PROVE  /\ IsOf(flow'[a].row.cap, flow'[a].m, bot')
             /\ JoinOk(a)' => /\ flow'[a].ans.cap # NoBot /\ flow'[a].ans.st = "requested"
                              /\ IsOf(flow'[a].ans.cap, flow'[a].m, bot')
  <2>1. CASE Open(a) /\ Alike(flow[a], flow'[a])
    <3>1. /\ IsOf(flow[a].row.cap, flow[a].m, bot)
          /\ JoinOk(a) => /\ flow[a].ans.cap # NoBot /\ flow[a].ans.st = "requested"
                          /\ IsOf(flow[a].ans.cap, flow[a].m, bot)
      BY <2>1 DEF CapturesAreOwned
    <3>2. JoinOk(a)' => JoinOk(a)
      BY <2>1 DEF Alike, JoinOk
    <3> QED  BY <2>1, <3>1, <3>2, CaptureKept DEF Alike
  <2> QED  BY <1>2, <2>1 DEF OwnedFlow
<1> QED  BY <1>1, <1>2 DEF CapturesAreOwned, Open

LEMMA KnownKept ==
    ASSUME CaptureTypes, CaptureTypes', LiveOnesAreKnown, Marks, Steady, SameLives, faults' = 0 => KeepsJoins,
           \A b \in Bot : Lives(bot'[b].st) /\ bot[b].m \notin crossed' /\ meet[bot[b].m].cap = b
                             => meet'[bot[b].m].cap = b
    PROVE  LiveOnesAreKnown'
<1> SUFFICES ASSUME faults' = 0, NEW b \in Bot, bot'[b].st \in {"joining", "active"}, bot'[b].m \notin crossed'
             PROVE  \/ meet'[bot'[b].m].cap = b
                    \/ \E a \in Actor : JoinOk(a)' /\ flow'[a].m = bot'[b].m /\ flow'[a].ans.cap = b
  BY DEF LiveOnesAreKnown
<1>1. Lives(bot[b].st) /\ bot'[b].m = bot[b].m /\ bot[b].m \notin crossed /\ faults = 0
  BY DEF SameLives, Marks, Steady, Lives
<1>2. CASE meet[bot[b].m].cap = b
  BY <1>1, <1>2 DEF Lives
<1>3. ASSUME NEW a \in Actor, JoinOk(a), flow[a].m = bot[b].m, flow[a].ans.cap = b
      PROVE  JoinOk(a)' /\ flow'[a].m = bot'[b].m /\ flow'[a].ans.cap = b
  <2>1. Alike(flow[a], flow'[a])
    BY <1>3 DEF KeepsJoins
  <2> QED  BY <1>1, <1>3, <2>1 DEF Alike, JoinOk
<1> QED  BY <1>1, <1>2, <1>3 DEF LiveOnesAreKnown, Lives

LEMMA BotsStay ==
    ASSUME bot' = bot
    PROVE  Forward(bot, bot') /\ SameLives /\ \A m : KeepsFailed(m)
BY DEF Forward, Goes, SameLives, KeepsFailed

-----------------------------------------------------------------------------
(***************************************************************************)
(* The steps, one kind after another                                       *)
(***************************************************************************)
\* Nothing happens to any row, capture or request, but that some are forgotten
Calm == /\ bot' = bot /\ \A m \in Meeting : Undisturbed(m)
        /\ faults' = 0 => KeepsJoins

LEMMA CalmSound ==
    ASSUME CaptureTypes, CaptureTypes', Sound, Marks, Steady, Calm
    PROVE  Sound'
<1>1. Forward(bot, bot') /\ SameLives /\ \A m : KeepsFailed(m)
  BY BotsStay DEF Calm
<1>2. CapturesAreOwned'
  <2>1. \A a \in Actor : flow'[a].pc # "idle" => flow'[a].m \in Meeting
    BY DEF CaptureTypes, FlowsAreTyped, Open
  <2> QED  BY <1>1, <2>1, OwnedKept DEF Sound, Calm, Undisturbed, OwnedFlow
<1>3. RowsFit'
  <2>1. Crossing' \subseteq crossed' /\ crossed \subseteq crossed'
    BY DEF Marks
  <2>2. ASSUME NEW m \in Meeting \ crossed' PROVE MeetingFits(m)'
    BY <1>1, <2>1, Framed DEF Sound, RowsFit, Calm, CaptureTypes
  <2> QED  BY <2>1, <2>2 DEF RowsFit
<1>4. LiveOnesAreKnown'
  <2>1. \A b \in Bot : bot[b].m \in Meeting
    BY DEF CaptureTypes
  <2> QED  BY <1>1, <2>1, KnownKept DEF Sound, Calm, Undisturbed
<1> QED  BY <1>2, <1>3, <1>4 DEF Sound

\* A meeting that others' steps leave as it is
LEMMA LeftAlone ==
    ASSUME NEW n, meet'[n] = meet[n], leave'[n] = leave[n],
           \A c \in Actor : flow'[c].pc # "idle" /\ flow'[c].m = n => flow'[c] = flow[c]
    PROVE  Undisturbed(n)
BY DEF Undisturbed, Alike, Open

LEMMA ReadsSound ==
    ASSUME CaptureTypes, CaptureTypes', Sound, Marks, Steady, NEW a \in Actor, NEW m \in Meeting,
           NEW op \in {"refresh", "stop", "transcript", "delete"}, NEW by, Reads(a, m, op, by)
    PROVE  Sound'
<1>1. Forward(bot, bot') /\ SameLives /\ (\A n : KeepsFailed(n)) /\ bot' = bot
  BY BotsStay DEF Reads
<1>2. /\ meet' = meet /\ leave' = leave /\ \A c \in Actor : c # a => flow'[c] = flow[c]
      /\ ~Open(a) /\ flow'[a].pc = "asked" /\ flow'[a].op = op /\ flow'[a].m = m
      /\ flow'[a].row = meet[m] /\ flow'[a].by = by
      /\ meet[m].cap # NoBot
  BY DEF Reads, Elsewhere
<1>3. CapturesAreOwned'
  <2>1. \A c \in Actor : flow'[c].pc # "idle" => OwnedFlow(c)
    BY <1>1, <1>2 DEF OwnedFlow, Sound, CapturesAreOwned, JoinOk, Alike, Open
  <2> QED  BY <1>1, <1>2, <2>1, OwnedKept DEF Sound
<1>4. RowsFit'
  <2>1. ASSUME MeetingFits(m) PROVE MeetingFits(m)'
    <3>1. /\ RowFits(meet[m], leave[m].end, bot)
          /\ \A c \in Actor : Open(c) /\ flow[c].m = m => FlowFits(flow[c], meet[m], leave[m].end, bot)
      BY <2>1 DEF MeetingFits
    <3>2. RequestFits(flow'[a], meet[m], bot)
      <4>1. by = "settle" => meet[m].st = "stopping" \/ leave[m].end # None
        BY DEF Reads, Leaves
      <4>2. (~Leaving(flow'[a]) /\ by # "auto") \/ op = "refresh"
        BY <1>2 DEF Reads, Leaving
      <4> QED  BY <1>2, <3>1, <4>1, <4>2 DEF RequestFits, RowFits, Post, Leaving
    <3> QED  BY <1>1, <1>2, <3>1, <3>2 DEF MeetingFits, FlowFits, Open
  <2>2. \A n \in Meeting : n # m => Undisturbed(n)
    BY <1>2, LeftAlone
  <2> QED  BY <1>1, <2>1, <2>2, RowsKept DEF Sound
<1>5. LiveOnesAreKnown'
  <2>1. KeepsJoins
    BY <1>2 DEF KeepsJoins, Alike, JoinOk, Open
  <2> QED  BY <1>1, <1>2, <2>1, KnownKept DEF Sound
<1> QED  BY <1>3, <1>4, <1>5 DEF Sound

\* What a request saves after its answer fits the capture, and the requests beside it
LEMMA ContinuesFits ==
    ASSUME CaptureTypes, CapturesAreOwned, RowsFit, NEW a \in Actor, NEW m \in Meeting \ crossed,
           Continues(a, m)
    PROVE  MeetingFits(m)'
<1> DEFINE f == flow[a]  cap == flow[a].row.cap  st == meet'[m].st
<1>1. /\ Open(a) /\ f.pc = "answered" /\ f.op \in {"refresh", "stop", "transcript"} /\ f.m = m /\ bot' = bot
      /\ Elsewhere(a, m) /\ Saves(a, m) /\ GoesOn(a, m)
  BY DEF Continues, Open
<1>2. /\ RowFits(meet[m], leave[m].end, bot)
      /\ \A c \in Actor : Open(c) /\ flow[c].m = m => FlowFits(flow[c], meet[m], leave[m].end, bot)
  BY DEF RowsFit, MeetingFits
<1>3. /\ RequestFits(f, meet[m], bot) /\ cap # NoBot /\ meet[m].cap = cap /\ f.row.st # "none"
      /\ Reported(a) # "none"
  BY <1>1, <1>2, RowsToSave DEF FlowFits, RequestFits, CaptureTypes, FlowsAreTyped
<1>4. meet'[m].cap = cap
  BY <1>1, <1>3 DEF Saves, SavesNothing, SavesTheAnswer, SavesTheStop, ClosesTheLost, ClosesTheLate
<1>5. ASSUME NEW c \in Actor, Open(c), flow[c].m = m
      PROVE  RequestFits(flow[c], meet[m], bot) /\ flow[c].row.cap = cap /\ flow[c].op \notin {"join"}
  <2>1. flow[c].op \notin {"join", "delete"}
    BY <1>1, <1>5, Alone
  <2> QED  BY <1>2, <1>3, <1>5, <2>1 DEF FlowFits, RequestFits
\* the answer
<1>6. SavesTheAnswer(a, m) =>
        /\ Reported(a) = f.ans.st /\ AnswerFits(f, meet[m], bot)
        /\ f.ans.st \in {"joining", "active", "stopping", "completed", "failed"}
        /\ f.ans.st = "joining" => f.by # "settle"
        /\ f.ans.st = "failed" => bot[cap].st = "failed"
        /\ f.ans.st \in Post => bot[cap].st \in Post /\ meet[m].st \notin Waits
  BY <1>1, <1>3, RowsToSave DEF SavesTheAnswer, RequestFits, AnswerFits, CaptureTypes
<1>7. ClosesTheLate(a, m) => bot[cap].st # "joining"
  BY <1>1, <1>3 DEF ClosesTheLate, RequestFits
<1>8. ClosesTheLost(a, m) => bot[cap].st = "gone"
  BY <1>1, <1>3 DEF ClosesTheLost, RequestFits, AnswerFits
<1>9. SavesTheStop(a, m) => bot[cap].st \in Post /\ meet[m].st \notin Waits
  BY <1>1, <1>3 DEF SavesTheStop, RequestFits
\* what the row is after it
<1>10. st \in {"none", "created"} => meet[m].st = st /\ leave'[m].end = leave[m].end
  BY <1>1, <1>3, <1>6 DEF Saves, SavesNothing, SavesTheAnswer, SavesTheStop, ClosesTheLost, ClosesTheLate, Terminal
<1>11. st = "failed" => meet[m].st = "failed" \/ bot[cap].st = "failed"
  BY <1>1, <1>6 DEF Saves, SavesNothing, SavesTheAnswer, SavesTheStop, ClosesTheLost, ClosesTheLate
<1>12. st \in {"active", "stopping"} => meet[m].st = st \/ bot[cap].st \in Post
  BY <1>1, <1>6, <1>9 DEF Saves, SavesNothing, SavesTheAnswer, SavesTheStop, ClosesTheLost, ClosesTheLate, Post, Terminal
<1>13. leave'[m].end # leave[m].end => bot[cap].st # "joining"
  BY <1>1, <1>6, <1>7, <1>8, <1>9 DEF Saves, SavesNothing, SavesTheAnswer, SavesTheStop, ClosesTheLost,
     ClosesTheLate, Post, Terminal
<1> HIDE DEF cap, st, f
<1>14. RowFits(meet'[m], leave'[m].end, bot')
  BY <1>1, <1>2, <1>3, <1>4, <1>10, <1>11, <1>12, <1>13 DEF RowFits, Waits, Dead, st
<1>15. ASSUME NEW c \in Actor, c # a, Open(c), flow[c].m = m PROVE RequestFits(flow[c], meet'[m], bot)
  <2>1. RequestFits(flow[c], meet[m], bot) /\ flow[c].row.cap = cap
    BY <1>5, <1>15
  <2>2. bot[cap].st \in Post /\ meet[m].st \notin Waits => meet'[m].st \notin Waits
    BY <1>10, <1>11 DEF Waits, Post, st
  <2>3. AnswerFits(flow[c], meet[m], bot) => AnswerFits(flow[c], meet'[m], bot)
    BY <2>1, <2>2 DEF AnswerFits
  <2> QED  BY <1>4, <1>10, <2>1, <2>2, <2>3 DEF RequestFits, st
<1>16. ASSUME flow'[a].pc # "idle"
       PROVE  flow'[a].op # "join" /\ RequestFits(flow'[a], meet'[m], bot)
  <2>1. /\ flow'[a].pc = "asked" /\ flow'[a].row.cap = cap /\ flow'[a].row.st = Reported(a)
        /\ SavesTheAnswer(a, m) /\ Reported(a) \in InCall
        /\ (flow'[a].op = "transcript" /\ flow'[a].by = "watch") \/ (flow'[a].op = "stop" /\ flow'[a].by = "auto")
    BY <1>1, <1>16 DEF GoesOn, cap
  <2>2. st = "active" /\ bot[cap].st \in Post
    BY <1>6, <2>1 DEF SavesTheAnswer, InCall, Post, st, f
  <2> QED  BY <1>4, <2>1, <2>2 DEF RequestFits, Leaving, Waits, st
<1>17. ASSUME NEW c \in Actor, flow'[c].pc # "idle", flow'[c].m = m
       PROVE  FlowFits(flow'[c], meet'[m], leave'[m].end, bot')
  <2>1. CASE c = a
    BY <1>1, <1>16, <1>17, <2>1 DEF FlowFits
  <2>2. CASE c # a
    <3>1. flow'[c] = flow[c] /\ Open(c)
      BY <1>1, <1>17, <2>2 DEF Elsewhere, Open
    <3> QED  BY <1>1, <1>5, <1>15, <1>17, <2>2, <3>1 DEF FlowFits
  <2> QED  BY <2>1, <2>2
<1> QED  BY <1>14, <1>17 DEF MeetingFits, Open

LEMMA ContinuesSound ==
    ASSUME CaptureTypes, CaptureTypes', Sound, Marks, Steady, NEW a \in Actor, NEW m \in Meeting, Continues(a, m)
    PROVE  Sound'
<1>1. Forward(bot, bot') /\ SameLives /\ (\A n : KeepsFailed(n)) /\ bot' = bot
  BY BotsStay DEF Continues
<1>2. /\ \A n \in Meeting : n # m => meet'[n] = meet[n] /\ leave'[n] = leave[n]
      /\ \A c \in Actor : c # a => flow'[c] = flow[c]
      /\ Open(a) /\ flow[a].pc = "answered" /\ flow[a].m = m /\ flow[a].op # "join"
      /\ meet'[m].cap = meet[m].cap \/ meet'[m].cap = flow[a].row.cap
      /\ flow'[a].pc = "idle" \/ (flow'[a].pc = "asked" /\ flow'[a].m = m /\ flow'[a].row.cap = flow[a].row.cap)
  BY DEF Continues, Elsewhere, Open, Saves, SavesNothing, SavesTheAnswer, SavesTheStop, ClosesTheLost,
     ClosesTheLate, GoesOn
<1>3. CapturesAreOwned'
  <2>1. IsOf(flow[a].row.cap, m, bot)
    BY <1>2 DEF Sound, CapturesAreOwned
  <2>2. \A c \in Actor : flow'[c].pc # "idle" => OwnedFlow(c)
    BY <1>1, <1>2, <2>1 DEF OwnedFlow, JoinOk, Alike, Open
  <2>3. \A n \in Meeting : meet'[n].cap = meet[n].cap \/ IsOf(meet'[n].cap, n, bot')
    BY <1>1, <1>2, <2>1
  <2> QED  BY <1>1, <2>2, <2>3, OwnedKept DEF Sound
<1>4. RowsFit'
  <2>1. m \in Meeting \ crossed' => MeetingFits(m)'
    BY ContinuesFits DEF Sound, Marks
  <2>2. \A n \in Meeting : n # m => Undisturbed(n)
    <3>1. \A n \in Meeting : n # m => \A c \in Actor : flow'[c].pc # "idle" /\ flow'[c].m = n => flow'[c] = flow[c]
      BY <1>2
    <3> QED  BY <1>2, <3>1, LeftAlone
  <2> QED  BY <1>1, <2>1, <2>2, RowsKept DEF Sound
<1>5. LiveOnesAreKnown'
  <2>1. KeepsJoins
    BY <1>2 DEF KeepsJoins, Alike, JoinOk
  <2>2. ASSUME NEW b \in Bot, bot[b].m \notin crossed', meet[bot[b].m].cap = b PROVE meet'[bot[b].m].cap = b
    <3>1. bot[b].m \in Meeting
      BY DEF CaptureTypes
    <3>2. CASE bot[b].m # m
      BY <1>2, <2>2, <3>1, <3>2
    <3>3. CASE bot[b].m = m
      <4>1. FlowFits(flow[a], meet[m], leave[m].end, bot)
        BY <1>2, <2>2, <3>3 DEF Sound, RowsFit, Marks, MeetingFits
      <4> QED  BY <1>2, <2>2, <3>3, <4>1 DEF FlowFits, RequestFits
    <3> QED  BY <3>2, <3>3
  <2> QED  BY <1>1, <2>1, <2>2, KnownKept DEF Sound
<1> QED  BY <1>3, <1>4, <1>5 DEF Sound

-----------------------------------------------------------------------------
\* A join up to its await
Enters(a, m) ==
    /\ ~Open(a) /\ meet[m].st \in Waits /\ bot' = bot /\ Elsewhere(a, m) /\ text'[m] = text[m]
    /\ meet'[m].st = "requested" /\ meet'[m].cap \in {meet[m].cap, NoBot}
    /\ meet'[m].cap # meet[m].cap => meet[m].st = "none"
    /\ leave'[m].end = None \/ (meet[m].st = "none" /\ leave'[m].end = leave[m].end)
    /\ flow'[a].pc = "asked" /\ flow'[a].op = "join" /\ flow'[a].m = m
    /\ flow'[a].row.st = "requested" /\ flow'[a].row.cap = meet'[m].cap

LEMMA RowRequested ==
    ASSUME NEW row \in MeetingRow, NEW st \in {"requested", "created"}
    PROVE  [row EXCEPT !.st = st] \in MeetingRow /\ [row EXCEPT !.st = st].cap = row.cap
           /\ [row EXCEPT !.st = st].st = st
<1>1. PICK r : r = [row EXCEPT !.st = st]
  OBVIOUS
<1>2. r = [st |-> st, cap |-> row.cap, stop |-> row.stop, seen |-> row.seen]
  BY <1>1 DEF MeetingRow
<1>3. r \in MeetingRow
  BY <1>2 DEF MeetingRow, Joining
<1> QED  BY <1>1, <1>2, <1>3

LEMMA JoinAsked ==
    ASSUME CaptureTypes, NEW a \in Actor, NEW m \in Meeting, JoinAsk(a, m)
    PROVE  CaptureTypes' /\ Enters(a, m) /\ MayJoin(m)
<1>1. PICK row : row = [meet[m] EXCEPT !.st = "requested"]
  OBVIOUS
<1>2. row \in MeetingRow /\ row.cap = meet[m].cap /\ row.st = "requested"
  BY <1>1, RowRequested DEF CaptureTypes
<1>3. /\ Free(a) /\ MayJoin(m) /\ Save(m, row) /\ Asks(a, "join", m, row, None, 0)
      /\ Joins(m) /\ UNCHANGED <<text, bot>> /\ 0 \in 0..NotYet
  BY <1>1, CaptureAssumption DEF JoinAsk, NotYet
<1>4. /\ meet' \in [Meeting -> MeetingRow] /\ meet'[m] = row
      /\ \A n \in Meeting : n # m => meet'[n] = meet[n]
  BY <1>2, <1>3, SaveTyped DEF CaptureTypes
<1>5. /\ leave' \in [Meeting -> LeaveState] /\ leave'[m].end = None
      /\ \A n \in Meeting : n # m => leave'[n] = leave[n]
  BY <1>3, RowConstants DEF Joins, CaptureTypes
<1>6. /\ FlowsAreTyped'
      /\ flow'[a].pc = "asked" /\ flow'[a].op = "join" /\ flow'[a].m = m /\ flow'[a].row = row
      /\ \A c \in Actor : c # a => flow'[c] = flow[c]
  BY <1>2, <1>3, AsksTyped DEF CaptureTypes, None
<1> QED
  BY <1>2, <1>3, <1>4, <1>5, <1>6 DEF CaptureTypes, Enters, Elsewhere, Free, Open, MayJoin, Waits

LEMMA EntersSound ==
    ASSUME CaptureTypes, CaptureTypes', Sound, Marks, Steady, NEW a \in Actor, NEW m \in Meeting, Enters(a, m)
    PROVE  Sound'
<1>1. Forward(bot, bot') /\ SameLives /\ (\A n : KeepsFailed(n)) /\ bot' = bot
  BY BotsStay DEF Enters
<1>2. /\ \A n \in Meeting : n # m => meet'[n] = meet[n] /\ leave'[n] = leave[n]
      /\ \A c \in Actor : c # a => flow'[c] = flow[c]
      /\ ~Open(a) /\ flow'[a].pc = "asked" /\ flow'[a].op = "join" /\ flow'[a].m = m
      /\ meet'[m].st = "requested" /\ flow'[a].row.st = "requested" /\ flow'[a].row.cap = meet'[m].cap
      /\ meet'[m].cap = meet[m].cap \/ meet'[m].cap = NoBot
  BY DEF Enters, Elsewhere
<1>3. CapturesAreOwned'
  <2>1. IsOf(meet'[m].cap, m, bot')
    BY <1>1, <1>2 DEF Sound, CapturesAreOwned, IsOf
  <2>2. \A c \in Actor : flow'[c].pc # "idle" => OwnedFlow(c)
    BY <1>1, <1>2, <2>1 DEF OwnedFlow, JoinOk, Alike, Open
  <2> QED  BY <1>1, <1>2, <2>1, <2>2, OwnedKept DEF Sound
<1>4. ASSUME m \in Meeting \ crossed'
      PROVE  meet[m].cap # NoBot => bot[meet[m].cap].st \in Dead
  BY <1>4 DEF Sound, RowsFit, Marks, MeetingFits, RowFits, Enters
<1>5. RowsFit'
  <2>1. ASSUME m \in Meeting \ crossed' PROVE MeetingFits(m)'
    <3>1. RowFits(meet[m], leave[m].end, bot)
      BY <2>1 DEF Sound, RowsFit, Marks, MeetingFits
    <3>2. leave'[m].end = None
      BY <3>1 DEF RowFits, Enters
    <3>3. \A c \in Actor : c # a /\ flow'[c].pc # "idle" => flow'[c].m # m
      BY <1>2, <2>1, AloneNow
    <3>4. RowFits(meet'[m], leave'[m].end, bot')
      BY <1>2, <3>2 DEF RowFits, Waits
    <3>5. JoinFits(flow'[a], meet'[m], leave'[m].end, bot')
      BY <1>1, <1>2, <1>4, <2>1, <3>2 DEF JoinFits
    <3> QED  BY <1>2, <3>3, <3>4, <3>5 DEF MeetingFits, FlowFits, Open
  <2>2. \A n \in Meeting : n # m => Undisturbed(n)
    <3>1. \A n \in Meeting : n # m => \A c \in Actor : flow'[c].pc # "idle" /\ flow'[c].m = n => flow'[c] = flow[c]
      BY <1>2
    <3> QED  BY <1>2, <3>1, LeftAlone
  <2> QED  BY <1>1, <2>1, <2>2, RowsKept DEF Sound
<1>6. LiveOnesAreKnown'
  <2>1. KeepsJoins
    BY <1>2 DEF KeepsJoins, Alike, JoinOk, Open
  <2>2. ASSUME NEW b \in Bot, Lives(bot'[b].st), bot[b].m \notin crossed', meet[bot[b].m].cap = b
        PROVE  meet'[bot[b].m].cap = b
    <3>1. bot[b].m \in Meeting /\ b # NoBot
      BY CaptureAssumption DEF CaptureTypes
    <3> QED  BY <1>1, <1>2, <1>4, <2>2, <3>1 DEF Lives, Dead
  <2> QED  BY <1>1, <2>1, <2>2, KnownKept DEF Sound
<1> QED  BY <1>3, <1>5, <1>6 DEF Sound

-----------------------------------------------------------------------------
\* A meeting that was not there
Creates(m) ==
    /\ meet[m].st = "none" /\ flow' = flow /\ bot' = bot
    /\ \A n \in Meeting : n # m => meet'[n] = meet[n] /\ leave'[n] = leave[n] /\ text'[n] = text[n]
    /\ meet'[m].st = "created" /\ meet'[m].cap = NoBot /\ leave'[m].end = None
    /\ \A a \in Actor : flow[a].m # m

LEMMA Created ==
    ASSUME CaptureTypes, NEW m \in Meeting, Create(m)
    PROVE  CaptureTypes' /\ Creates(m)
<1>1. PICK row : row = [NoMeeting EXCEPT !.st = "created"]
  OBVIOUS
<1>2. row \in MeetingRow /\ row.cap = NoBot /\ row.st = "created"
  BY <1>1, RowRequested, RowConstants
<1>3. /\ meet' \in [Meeting -> MeetingRow] /\ meet'[m] = row
      /\ \A n \in Meeting : n # m => meet'[n] = meet[n]
  BY <1>1, <1>2, SaveTyped DEF Create, CaptureTypes
<1>4. flow' = flow /\ bot' = bot /\ (\A a \in Actor : flow[a].m # m) /\ meet[m].st = "none"
  BY DEF Create, Exists
<1>5. FlowsAreTyped'
  BY <1>4 DEF FlowsAreTyped, CaptureTypes, Open
<1>6. /\ leave' \in [Meeting -> LeaveState] /\ leave'[m].end = None
      /\ \A n \in Meeting : n # m => leave'[n] = leave[n]
  BY RowConstants DEF Create, CaptureTypes
<1>7. text' \in [Meeting -> 0..2] /\ \A n \in Meeting : n # m => text'[n] = text[n]
  BY DEF Create, CaptureTypes
<1> QED  BY <1>2, <1>3, <1>4, <1>5, <1>6, <1>7 DEF CaptureTypes, Creates

LEMMA CreatesSound ==
    ASSUME CaptureTypes, CaptureTypes', Sound, Marks, Steady, NEW m \in Meeting, Creates(m)
    PROVE  Sound'
<1>1. Forward(bot, bot') /\ SameLives /\ (\A n : KeepsFailed(n)) /\ bot' = bot /\ KeepsJoins
  BY BotsStay DEF Creates, KeepsJoins, Alike
<1>2. CapturesAreOwned'
  <2>1. \A c \in Actor : flow'[c].pc # "idle" => OwnedFlow(c)
    BY DEF OwnedFlow, Creates, Alike, Open
  <2>2. \A n \in Meeting : meet'[n].cap = meet[n].cap \/ IsOf(meet'[n].cap, n, bot')
    BY DEF Creates, IsOf
  <2> QED  BY <1>1, <2>1, <2>2, OwnedKept DEF Sound
<1>3. RowsFit'
  <2>1. MeetingFits(m)'
    <3>1. RowFits(meet'[m], leave'[m].end, bot')
      BY DEF Creates, RowFits
    <3> QED  BY <3>1 DEF Creates, MeetingFits
  <2>2. \A n \in Meeting : n # m => Undisturbed(n)
    BY LeftAlone DEF Creates
  <2> QED  BY <1>1, <2>1, <2>2, RowsKept DEF Sound
<1>4. LiveOnesAreKnown'
  <2>1. ASSUME NEW b \in Bot, bot[b].m \notin crossed', meet[bot[b].m].cap = b PROVE meet'[bot[b].m].cap = b
    <3>1. bot[b].m \in Meeting /\ b # NoBot
      BY CaptureAssumption DEF CaptureTypes
    <3>2. bot[b].m # m
      BY <2>1, <3>1 DEF Sound, RowsFit, Marks, MeetingFits, RowFits, Creates
    <3> QED  BY <2>1, <3>1, <3>2 DEF Creates
  <2> QED  BY <1>1, <2>1, KnownKept DEF Sound
<1> QED  BY <1>2, <1>3, <1>4 DEF Sound

-----------------------------------------------------------------------------
\* A meeting deleted, by a request that asked the service or at once
Erases(m) ==
    /\ bot' = bot /\ meet'[m].st = "none" /\ meet'[m].cap = NoBot /\ leave'[m].end = None
    /\ \A n \in Meeting : n # m => meet'[n] = meet[n] /\ leave'[n] = leave[n] /\ text'[n] = text[n]
    /\ \/ MayDelete(m) /\ meet[m].cap = NoBot /\ flow' = flow
       \/ \E a \in Actor : /\ flow[a].pc = "answered" /\ flow[a].op = "delete" /\ flow[a].ans.kind = "ok"
                           /\ flow[a].m = m /\ flow'[a].pc = "idle"
                           /\ \A c \in Actor : c # a => flow'[c] = flow[c]

LEMMA RowErased ==
    ASSUME CaptureTypes, NEW m \in Meeting, Erase(m)
    PROVE  /\ meet' \in [Meeting -> MeetingRow] /\ leave' \in [Meeting -> LeaveState] /\ text' \in [Meeting -> 0..2]
           /\ meet'[m].st = "none" /\ meet'[m].cap = NoBot /\ leave'[m].end = None
           /\ \A n \in Meeting : n # m => meet'[n] = meet[n] /\ leave'[n] = leave[n] /\ text'[n] = text[n]
<1>1. /\ meet' \in [Meeting -> MeetingRow] /\ meet'[m] = NoMeeting
      /\ \A n \in Meeting : n # m => meet'[n] = meet[n]
  BY RowConstants, SaveTyped DEF Erase, CaptureTypes
<1>2. /\ leave' \in [Meeting -> LeaveState] /\ leave'[m] = NO_STATE
      /\ \A n \in Meeting : n # m => leave'[n] = leave[n]
  BY RowConstants DEF Erase, CaptureTypes
<1>3. text' \in [Meeting -> 0..2] /\ \A n \in Meeting : n # m => text'[n] = text[n]
  BY DEF Erase, CaptureTypes
<1> QED  BY <1>1, <1>2, <1>3, RowConstants

LEMMA Erased ==
    ASSUME CaptureTypes, NEW m \in Meeting
    PROVE  /\ DeleteNow(m) => CaptureTypes' /\ Erases(m)
           /\ \A a \in Actor : flow[a].m = m /\ DeleteEnd(a) /\ flow[a].ans.kind = "ok" => CaptureTypes' /\ Erases(m)
<1>1. ASSUME DeleteNow(m) PROVE CaptureTypes' /\ Erases(m)
  <2>1. Erase(m) /\ flow' = flow /\ bot' = bot /\ MayDelete(m) /\ meet[m].cap = NoBot
    BY <1>1 DEF DeleteNow
  <2>2. FlowsAreTyped'
    BY <2>1 DEF FlowsAreTyped, CaptureTypes, Open
  <2> QED  BY <2>1, <2>2, RowErased DEF CaptureTypes, Erases
<1>2. ASSUME NEW a \in Actor, flow[a].m = m, DeleteEnd(a), flow[a].ans.kind = "ok" PROVE CaptureTypes' /\ Erases(m)
  <2>1. Erase(m) /\ Done(a) /\ bot' = bot /\ flow[a].pc = "answered" /\ flow[a].op = "delete"
    BY <1>2 DEF DeleteEnd, Answered
  <2>2. FlowsAreTyped' /\ flow'[a].pc = "idle" /\ \A c \in Actor : c # a => flow'[c] = flow[c]
    BY <2>1, DoneTyped DEF CaptureTypes
  <2> QED  BY <1>2, <2>1, <2>2, RowErased DEF CaptureTypes, Erases
<1> QED  BY <1>1, <1>2

LEMMA ErasesSound ==
    ASSUME CaptureTypes, CaptureTypes', Sound, Marks, Steady, NEW m \in Meeting, Erases(m)
    PROVE  Sound'
<1>1. Forward(bot, bot') /\ SameLives /\ (\A n : KeepsFailed(n)) /\ bot' = bot
  BY BotsStay DEF Erases
<1>2. /\ meet'[m].st = "none" /\ meet'[m].cap = NoBot /\ leave'[m].end = None
      /\ \A n \in Meeting : n # m => meet'[n] = meet[n] /\ leave'[n] = leave[n]
  BY DEF Erases
<1>3. \A c \in Actor : flow'[c].pc # "idle" => flow'[c] = flow[c] /\ Open(c)
  BY DEF Erases, Open
<1>4. KeepsJoins
  BY DEF Erases, KeepsJoins, JoinOk, Alike
<1>5. CapturesAreOwned'
  <2>1. \A c \in Actor : flow'[c].pc # "idle" => OwnedFlow(c)
    BY <1>3 DEF OwnedFlow, Alike
  <2>2. \A n \in Meeting : meet'[n].cap = meet[n].cap \/ IsOf(meet'[n].cap, n, bot')
    BY <1>2 DEF IsOf
  <2> QED  BY <1>1, <2>1, <2>2, OwnedKept DEF Sound
\* Nobody else holds a copy of the row, and no live assistant is in the call
<1>6. ASSUME m \in Meeting \ crossed'
      PROVE  /\ \A c \in Actor : flow'[c].pc # "idle" => flow'[c].m # m
             /\ meet[m].cap # NoBot => bot[meet[m].cap].st = "gone"
  <2>1. m \in Meeting \ crossed /\ MeetingFits(m)
    BY <1>6 DEF Sound, RowsFit, Marks
  <2>2. CASE MayDelete(m) /\ meet[m].cap = NoBot /\ flow' = flow
    <3>1. ASSUME NEW c \in Actor, Open(c), flow[c].m = m PROVE FALSE
      <4>1. FlowFits(flow[c], meet[m], leave[m].end, bot)
        BY <2>1, <3>1 DEF MeetingFits
      <4>2. flow[c].op # "join" => flow[c].row.cap # NoBot
        BY <3>1 DEF CaptureTypes, FlowsAreTyped
      <4> QED  BY <2>2, <4>1, <4>2 DEF FlowFits, JoinFits, RequestFits, MayDelete, Terminal
    <3> QED  BY <2>2, <3>1 DEF Open
  <2>3. ASSUME NEW a \in Actor, flow[a].pc = "answered", flow[a].op = "delete", flow[a].ans.kind = "ok",
               flow[a].m = m, flow'[a].pc = "idle", \A c \in Actor : c # a => flow'[c] = flow[c]
        PROVE  /\ \A c \in Actor : flow'[c].pc # "idle" => flow'[c].m # m
               /\ bot[meet[m].cap].st = "gone"
    <3>1. \A c \in Actor : c # a /\ Open(c) => flow[c].m # m
      BY <2>1, <2>3, Alone DEF Sound, Open
    <3>2. FlowFits(flow[a], meet[m], leave[m].end, bot)
      BY <2>1, <2>3 DEF MeetingFits, Open
    <3> QED  BY <2>3, <3>1, <3>2 DEF FlowFits, RequestFits, Open
  <2> QED  BY <2>2, <2>3 DEF Erases
<1>7. RowsFit'
  <2>1. ASSUME m \in Meeting \ crossed' PROVE MeetingFits(m)'
    <3>1. RowFits(meet'[m], leave'[m].end, bot')
      BY <1>2 DEF RowFits
    <3> QED  BY <1>6, <2>1, <3>1 DEF MeetingFits, Open
  <2>2. \A n \in Meeting : n # m => Undisturbed(n)
    BY <1>2, <1>3, LeftAlone
  <2> QED  BY <1>1, <2>1, <2>2, RowsKept DEF Sound
<1>8. LiveOnesAreKnown'
  <2>1. ASSUME NEW b \in Bot, Lives(bot'[b].st), bot[b].m \notin crossed', meet[bot[b].m].cap = b
        PROVE  meet'[bot[b].m].cap = b
    <3>1. bot[b].m \in Meeting /\ b # NoBot
      BY CaptureAssumption DEF CaptureTypes
    <3> QED  BY <1>1, <1>2, <1>6, <2>1, <3>1 DEF Lives
  <2> QED  BY <1>1, <1>4, <2>1, KnownKept DEF Sound
<1> QED  BY <1>5, <1>7, <1>8 DEF Sound

-----------------------------------------------------------------------------
\* A join after its await
HasJoined(a, m) ==
    /\ flow[a].pc = "answered" /\ flow[a].op = "join" /\ flow[a].m = m /\ flow'[a].pc = "idle"
    /\ bot' = bot /\ leave' = leave /\ text' = text /\ Elsewhere(a, m)
    /\ meet'[m].cap = IF flow[a].ans.kind = "ok" THEN flow[a].ans.cap ELSE flow[a].row.cap
    /\ meet'[m].st = IF flow[a].ans.kind = "ok" THEN "requested"
                     ELSE IF flow[a].ans.kind = "e429" THEN "created" ELSE "failed"

LEMMA JoinEnded ==
    ASSUME CaptureTypes, CapturesAreOwned, NEW a \in Actor, NEW m \in Meeting, flow[a].m = m, JoinEnd(a)
    PROVE  CaptureTypes' /\ HasJoined(a, m)
<1>1. /\ flow[a].pc = "answered" /\ flow[a].op = "join" /\ Open(a) /\ Done(a) /\ Save(m, JoinedRow(a))
      /\ UNCHANGED <<text, leave, bot>>
  BY DEF JoinEnd, Answered, Open
<1>2. FlowsAreTyped' /\ flow'[a].pc = "idle" /\ \A c \in Actor : c # a => flow'[c] = flow[c]
  BY <1>1, DoneTyped DEF CaptureTypes
<1>3. /\ JoinedRow(a) \in MeetingRow
      /\ JoinedRow(a).cap = IF flow[a].ans.kind = "ok" THEN flow[a].ans.cap ELSE flow[a].row.cap
      /\ JoinedRow(a).st = IF flow[a].ans.kind = "ok" THEN "requested"
                           ELSE IF flow[a].ans.kind = "e429" THEN "created" ELSE "failed"
  BY <1>1, RowJoined DEF CaptureTypes, CapturesAreOwned, JoinOk
<1>4. /\ meet' \in [Meeting -> MeetingRow] /\ meet'[m] = JoinedRow(a)
      /\ \A n \in Meeting : n # m => meet'[n] = meet[n]
  BY <1>1, <1>3, SaveTyped DEF CaptureTypes
<1> QED  BY <1>1, <1>2, <1>3, <1>4 DEF CaptureTypes, HasJoined, Elsewhere

LEMMA JoinEndSound ==
    ASSUME CaptureTypes, CaptureTypes', Sound, Marks, Steady, NEW a \in Actor, NEW m \in Meeting, HasJoined(a, m)
    PROVE  Sound'
<1>1. Forward(bot, bot') /\ SameLives /\ (\A n : KeepsFailed(n)) /\ bot' = bot
  BY BotsStay DEF HasJoined
<1>2. /\ \A n \in Meeting : n # m => meet'[n] = meet[n] /\ leave'[n] = leave[n]
      /\ \A c \in Actor : c # a => flow'[c] = flow[c]
      /\ Open(a) /\ flow[a].pc = "answered" /\ flow[a].op = "join" /\ flow[a].m = m /\ flow'[a].pc = "idle"
      /\ leave' = leave
      /\ flow[a].ans.kind = "ok" => meet'[m].cap = flow[a].ans.cap /\ meet'[m].st = "requested" /\ JoinOk(a)
      /\ flow[a].ans.kind # "ok" => meet'[m].cap = flow[a].row.cap /\ meet'[m].st \in {"created", "failed"}
  BY DEF HasJoined, Elsewhere, Open, JoinOk
<1>3. CapturesAreOwned'
  <2>1. IsOf(meet'[m].cap, m, bot')
    BY <1>1, <1>2 DEF Sound, CapturesAreOwned
  <2>2. \A c \in Actor : flow'[c].pc # "idle" => OwnedFlow(c)
    BY <1>2 DEF OwnedFlow, Alike, Open
  <2> QED  BY <1>1, <1>2, <2>1, <2>2, OwnedKept DEF Sound
<1>4. ASSUME m \in Meeting \ crossed'
      PROVE  /\ JoinFits(flow[a], meet[m], leave[m].end, bot)
             /\ \A c \in Actor : c # a /\ Open(c) => flow[c].m # m
  <2>1. m \in Meeting \ crossed /\ MeetingFits(m)
    BY <1>4 DEF Sound, RowsFit, Marks
  <2> QED  BY <1>2, <2>1, Alone DEF Sound, MeetingFits, FlowFits
<1>5. RowsFit'
  <2>1. ASSUME m \in Meeting \ crossed' PROVE MeetingFits(m)'
    <3>1. RowFits(meet'[m], leave'[m].end, bot')
      BY <1>1, <1>2, <1>4, <2>1 DEF RowFits, JoinFits, Waits
    <3>2. \A c \in Actor : flow'[c].pc # "idle" => flow'[c].m # m
      BY <1>2, <1>4, <2>1 DEF Open
    <3> QED  BY <3>1, <3>2 DEF MeetingFits, Open
  <2>2. \A n \in Meeting : n # m => Undisturbed(n)
    <3>1. \A n \in Meeting : n # m => \A c \in Actor : flow'[c].pc # "idle" /\ flow'[c].m = n => flow'[c] = flow[c]
      BY <1>2
    <3> QED  BY <1>2, <3>1, LeftAlone
  <2> QED  BY <1>1, <2>1, <2>2, RowsKept DEF Sound
<1>6. LiveOnesAreKnown'
  <2> SUFFICES ASSUME faults' = 0, NEW b \in Bot, bot'[b].st \in {"joining", "active"}, bot'[b].m \notin crossed'
               PROVE  \/ meet'[bot'[b].m].cap = b
                      \/ \E c \in Actor : JoinOk(c)' /\ flow'[c].m = bot'[b].m /\ flow'[c].ans.cap = b
    BY DEF LiveOnesAreKnown
  <2>1. bot[b].m \in Meeting \ crossed' /\ bot[b].m \notin crossed /\ b # NoBot /\ faults = 0
    BY <1>1, CaptureAssumption DEF CaptureTypes, Marks, Steady
  <2>2. CASE meet[bot[b].m].cap = b
    BY <1>1, <1>2, <1>4, <2>1, <2>2 DEF JoinFits, Dead
  <2>3. ASSUME NEW c \in Actor, JoinOk(c), flow[c].m = bot[b].m, flow[c].ans.cap = b
        PROVE  \/ meet'[bot'[b].m].cap = b
               \/ JoinOk(c)' /\ flow'[c].m = bot'[b].m /\ flow'[c].ans.cap = b
    BY <1>1, <1>2, <2>3 DEF JoinOk
  <2> QED  BY <1>1, <2>1, <2>2, <2>3 DEF Sound, LiveOnesAreKnown
<1> QED  BY <1>3, <1>5, <1>6 DEF Sound

-----------------------------------------------------------------------------
\* The service answers a request
Served(a) ==
    /\ flow[a].pc = "asked" /\ flow'[a].pc = "answered" /\ flow'[a].op = flow[a].op /\ flow'[a].m = flow[a].m
    /\ flow'[a].row = flow[a].row /\ flow'[a].by = flow[a].by
    /\ \A c \in Actor : c # a => flow'[c] = flow[c]
    /\ meet' = meet /\ leave' = leave /\ text' = text
Sent(a, b) == JoinOk(a)' /\ flow'[a].ans.cap = b /\ bot'[b].m = flow[a].m

LEMMA ServedSound ==
    ASSUME CaptureTypes, CaptureTypes', Sound, Marks, Steady, NEW a \in Actor, Served(a), Forward(bot, bot'),
           NEW m \in Meeting, flow[a].m = m, \A n \in Meeting : n # m => KeepsFailed(n),
           flow[a].op # "delete" => KeepsFailed(m),
           JoinOk(a)' => /\ flow'[a].ans.cap # NoBot /\ flow'[a].ans.st = "requested"
                         /\ IsOf(flow'[a].ans.cap, m, bot'),
           m \in Meeting \ crossed' /\ MeetingFits(m) => FlowFits(flow'[a], meet[m], leave[m].end, bot'),
           faults' = 0 => \A b \in Bot : Lives(bot'[b].st) => \/ Lives(bot[b].st) /\ bot'[b].m = bot[b].m
                                                              \/ Sent(a, b)
    PROVE  Sound'
<1>1. /\ Open(a) /\ flow[a].pc = "asked" /\ flow'[a].pc = "answered" /\ flow'[a].op = flow[a].op
      /\ flow'[a].m = m /\ flow'[a].row = flow[a].row
      /\ \A c \in Actor : c # a => flow'[c] = flow[c]
      /\ meet' = meet /\ leave' = leave
  BY DEF Served, Open
<1>2. CapturesAreOwned'
  <2>1. IsOf(flow'[a].row.cap, m, bot')
    BY <1>1, CaptureKept DEF Sound, CapturesAreOwned
  <2>2. \A c \in Actor : flow'[c].pc # "idle" => OwnedFlow(c)
    BY <1>1, <2>1 DEF OwnedFlow, Alike, Open
  <2> QED  BY <1>1, <2>2, OwnedKept DEF Sound
<1>3. RowsFit'
  <2>1. ASSUME m \in Meeting \ crossed', MeetingFits(m) PROVE MeetingFits(m)'
    <3>1. RowFits(meet'[m], leave'[m].end, bot')
      BY <1>1, <2>1, RowKept DEF Sound, MeetingFits
    <3>2. ASSUME NEW c \in Actor, c # a, flow'[c].pc # "idle", flow'[c].m = m
          PROVE  FlowFits(flow'[c], meet'[m], leave'[m].end, bot')
      <4>1. flow'[c] = flow[c] /\ Open(c) /\ flow[c].m = m /\ Alike(flow[c], flow'[c])
        BY <1>1, <3>2 DEF Open, Alike
      <4>2. flow[a].op # "delete"
        BY <1>1, <2>1, <3>2, AloneNow
      <4>3. FlowFits(flow[c], meet[m], leave[m].end, bot)
        BY <2>1, <4>1 DEF MeetingFits
      <4> QED  BY <1>1, <4>1, <4>2, <4>3, FlowKept DEF Sound, CaptureTypes
    <3>3. FlowFits(flow'[a], meet'[m], leave'[m].end, bot')
      BY <1>1, <2>1
    <3> QED  BY <3>1, <3>2, <3>3 DEF MeetingFits, Open
  <2>2. \A n \in Meeting : n # m => Undisturbed(n)
    <3>1. \A n \in Meeting : n # m => \A c \in Actor : flow'[c].pc # "idle" /\ flow'[c].m = n => flow'[c] = flow[c]
      BY <1>1
    <3> QED  BY <1>1, <3>1, LeftAlone
  <2> QED  BY <2>1, <2>2, RowsKept DEF Sound
<1>4. LiveOnesAreKnown'
  <2> SUFFICES ASSUME faults' = 0, NEW b \in Bot, bot'[b].st \in {"joining", "active"}, bot'[b].m \notin crossed'
               PROVE  \/ meet'[bot'[b].m].cap = b
                      \/ \E c \in Actor : JoinOk(c)' /\ flow'[c].m = bot'[b].m /\ flow'[c].ans.cap = b
    BY DEF LiveOnesAreKnown
  <2>1. CASE Sent(a, b)
    BY <1>1, <2>1 DEF Sent
  <2>2. CASE Lives(bot[b].st) /\ bot'[b].m = bot[b].m
    <3>1. bot[b].m \notin crossed /\ faults = 0
      BY <2>2 DEF Marks, Steady
    <3>2. \A c \in Actor : JoinOk(c) => c # a /\ flow'[c] = flow[c] /\ JoinOk(c)'
      BY <1>1 DEF JoinOk
    <3> QED  BY <1>1, <2>2, <3>1, <3>2 DEF Sound, LiveOnesAreKnown, Lives
  <2> QED  BY <2>1, <2>2 DEF Lives
<1> QED  BY <1>2, <1>3, <1>4 DEF Sound

LEMMA AnswerValues ==
    /\ \A k \in {"ok", "e404", "e409", "e429", "e5xx"} :
          /\ Err(k) \in Answer /\ Err(k).kind = k /\ Err(k).cap = NoBot
    /\ \A s \in {None} \union Joining \union InCall \union {"stopping"} \union Terminal :
         \A b \in Bot \union {NoBot} : \A w \in 0..2 :
          /\ Ok(s, b, w) \in Answer /\ Ok(s, b, w).kind = "ok" /\ Ok(s, b, w).st = s /\ Ok(s, b, w).cap = b
BY DEF Err, Ok, Answer, None

BotRow == [m : Meeting, st : {"none", "gone"} \union LiveBot \union Terminal, words : 0..2]

\* A new assistant
LEMMA BotSent ==
    ASSUME bot \in [Bot -> BotRow], NEW b \in Bot, bot[b].st = "none", NEW m \in Meeting,
           NEW st \in {"joining", "stopping"}, bot' = [bot EXCEPT ![b] = [m |-> m, st |-> st, words |-> 0]]
    PROVE  /\ bot' \in [Bot -> BotRow] /\ Forward(bot, bot') /\ \A n : KeepsFailed(n)
           /\ bot'[b].m = m /\ bot'[b].st = st /\ \A c \in Bot : c # b => bot'[c] = bot[c]
<1>1. PICK r : r = [m |-> m, st |-> st, words |-> 0]
  OBVIOUS
<1>2. r \in BotRow /\ r.m = m /\ r.st = st
  BY <1>1 DEF BotRow, LiveBot
<1>3. bot' = [bot EXCEPT ![b] = r]
  BY <1>1
<1>4. bot' \in [Bot -> BotRow] /\ bot'[b] = r /\ \A c \in Bot : c # b => bot'[c] = bot[c]
  BY <1>2, <1>3
<1> QED  BY <1>2, <1>4 DEF Forward, Goes, KeepsFailed

\* An assistant goes on
LEMMA BotGoes ==
    ASSUME bot \in [Bot -> BotRow], NEW b \in Bot, NEW st, Goes(bot[b].st, st),
           st \in {"gone"} \union LiveBot \union Terminal, bot' = [bot EXCEPT ![b].st = st]
    PROVE  /\ bot' \in [Bot -> BotRow] /\ Forward(bot, bot')
           /\ bot'[b].m = bot[b].m /\ bot'[b].st = st /\ \A c \in Bot : c # b => bot'[c] = bot[c]
<1>1. PICK r : r = [bot[b] EXCEPT !.st = st]
  OBVIOUS
<1>2. r = [m |-> bot[b].m, st |-> st, words |-> bot[b].words]
  BY <1>1 DEF BotRow
<1>3. r \in BotRow /\ r.m = bot[b].m /\ r.st = st
  BY <1>2 DEF BotRow
<1>4. bot' = [bot EXCEPT ![b] = r]
  BY <1>1
<1>5. bot' \in [Bot -> BotRow] /\ bot'[b] = r /\ \A c \in Bot : c # b => bot'[c] = bot[c]
  BY <1>3, <1>4
<1> QED  BY <1>3, <1>5 DEF Forward, Goes

\* The request that is answered
LEMMA AnswerServed ==
    ASSUME CaptureTypes, NEW a \in Actor, flow[a].pc = "asked", NEW ans \in Answer, Answers(a, ans),
           meet' = meet, leave' = leave, text' = text, bot' \in [Bot -> BotRow]
    PROVE  CaptureTypes' /\ Served(a) /\ flow'[a].ans = ans /\ flow[a].m \in Meeting
<1>1. Open(a) /\ flow[a].m \in Meeting
  BY DEF Open, CaptureTypes, FlowsAreTyped
<1>2. /\ FlowsAreTyped'
      /\ flow'[a].pc = "answered" /\ flow'[a].ans = ans /\ flow'[a].op = flow[a].op
      /\ flow'[a].m = flow[a].m /\ flow'[a].row = flow[a].row /\ flow'[a].by = flow[a].by
      /\ \A c \in Actor : c # a => flow'[c] = flow[c]
  BY <1>1, AnswersTyped DEF CaptureTypes
<1>3. /\ meet' \in [Meeting -> MeetingRow] /\ leave' \in [Meeting -> LeaveState]
      /\ text' \in [Meeting -> 0..2]
  BY DEF CaptureTypes
<1> QED  BY <1>1, <1>2, <1>3 DEF CaptureTypes, Served, BotRow

LEMMA JoinServed ==
    ASSUME CaptureTypes, Sound, Bounded, Marks, NEW a \in Actor, ServeJoin(a), meet' = meet, leave' = leave, text' = text
    PROVE  /\ CaptureTypes' /\ Sound' /\ Served(a) /\ Steady
           /\ bot' # bot => \E b \in Bot : /\ bot[b].st = "none" /\ bot'[b].m = flow[a].m
                                           /\ \A c \in Bot : c # b => bot'[c] = bot[c]
<1> DEFINE m == flow[a].m
<1>1. /\ flow[a].pc = "asked" /\ flow[a].op = "join" /\ bot \in [Bot -> BotRow] /\ Open(a) /\ m \in Meeting
  BY DEF ServeJoin, CaptureTypes, BotRow, Open, FlowsAreTyped
<1>2. \/ bot' = bot /\ faults' = faults /\ \E k \in {"e409", "e429"} : Answers(a, Err(k))
      \/ \E b \in Bot : \E st \in {"joining", "stopping"} :
            /\ bot[b].st = "none" /\ bot' = [bot EXCEPT ![b] = [m |-> m, st |-> st, words |-> 0]]
            /\ \/ Answers(a, Ok("requested", b, 0)) /\ faults' = faults
               \/ Answers(a, Err("e5xx")) /\ faults' = faults + 1
  <2>1. Unused # {} => (CHOOSE b \in Unused : TRUE) \in Unused
    OBVIOUS
  <2> QED  BY <2>1 DEF ServeJoin, Unused
<1>3. faults \in Nat
  BY CaptureAssumption DEF Bounded
<1>4. ASSUME bot' = bot, faults' = faults, NEW k \in {"e409", "e429"}, Answers(a, Err(k))
      PROVE  CaptureTypes' /\ Sound' /\ Served(a) /\ Steady
  <2>1. Err(k) \in Answer /\ Err(k).kind # "ok"
    BY AnswerValues
  <2>2. CaptureTypes' /\ Served(a) /\ flow'[a].ans.kind # "ok" /\ Steady
    BY <1>1, <1>4, <2>1, AnswerServed DEF Steady
  <2>3. Forward(bot, bot') /\ SameLives /\ \A n : KeepsFailed(n)
    BY <1>4, BotsStay
  <2>4. MeetingFits(m) => FlowFits(flow'[a], meet[m], leave[m].end, bot')
    BY <1>1, <1>4, <2>2 DEF MeetingFits, FlowFits, JoinFits, Served
  <2>5. Sound'
    BY <1>1, <2>2, <2>3, <2>4, ServedSound DEF SameLives, JoinOk
  <2> QED  BY <2>2, <2>5
<1>5. ASSUME NEW b \in Bot, NEW st \in {"joining", "stopping"}, bot[b].st = "none",
             bot' = [bot EXCEPT ![b] = [m |-> m, st |-> st, words |-> 0]],
             \/ Answers(a, Ok("requested", b, 0)) /\ faults' = faults
             \/ Answers(a, Err("e5xx")) /\ faults' = faults + 1
      PROVE  /\ CaptureTypes' /\ Sound' /\ Served(a) /\ Steady
             /\ bot'[b].m = m /\ \A c \in Bot : c # b => bot'[c] = bot[c]
  <2>1. /\ bot' \in [Bot -> BotRow] /\ Forward(bot, bot') /\ (\A n : KeepsFailed(n))
        /\ bot'[b].m = m /\ bot'[b].st = st /\ \A c \in Bot : c # b => bot'[c] = bot[c]
    BY <1>1, <1>5, BotSent
  <2>2. /\ CaptureTypes' /\ Served(a)
        /\ \/ flow'[a].ans.kind = "ok" /\ flow'[a].ans.cap = b /\ flow'[a].ans.st = "requested" /\ faults' = faults
           \/ flow'[a].ans.kind # "ok" /\ faults' = faults + 1
    <3>1. CASE Answers(a, Ok("requested", b, 0)) /\ faults' = faults
      <4>1. /\ Ok("requested", b, 0) \in Answer /\ Ok("requested", b, 0).kind = "ok"
            /\ Ok("requested", b, 0).cap = b /\ Ok("requested", b, 0).st = "requested"
        <5>1. /\ "requested" \in {None} \union Joining \union InCall \union {"stopping"} \union Terminal
              /\ b \in Bot \union {NoBot} /\ 0 \in 0..2
          BY DEF Joining
        <5> QED  BY <5>1, AnswerValues
      <4> QED  BY <1>1, <2>1, <3>1, <4>1, AnswerServed
    <3>2. CASE Answers(a, Err("e5xx")) /\ faults' = faults + 1
      <4>1. Err("e5xx") \in Answer /\ Err("e5xx").kind # "ok"
        BY AnswerValues
      <4> QED  BY <1>1, <2>1, <3>2, <4>1, AnswerServed
    <3> QED  BY <1>5, <3>1, <3>2
  <2>3. Steady
    BY <1>3, <2>2 DEF Steady
  <2>4. JoinOk(a)' => /\ flow'[a].ans.cap # NoBot /\ flow'[a].ans.st = "requested"
                      /\ IsOf(flow'[a].ans.cap, m, bot')
    BY <2>1, <2>2, CaptureAssumption DEF JoinOk, IsOf
  <2>5. MeetingFits(m) => FlowFits(flow'[a], meet[m], leave[m].end, bot')
    <3>1. IsOf(flow[a].row.cap, m, bot)
      BY <1>1 DEF Sound, CapturesAreOwned
    <3> QED  BY <1>1, <2>1, <2>2, <3>1, CaptureKept DEF MeetingFits, FlowFits, JoinFits, Served
  <2>6. faults' = 0 => Sent(a, b)
    BY <1>1, <1>3, <2>1, <2>2 DEF Sent, JoinOk, Served
  <2>7. Sound'
    BY <1>1, <2>1, <2>2, <2>3, <2>4, <2>5, <2>6, ServedSound
  <2> QED  BY <2>1, <2>2, <2>3, <2>7
<1>6. CASE bot' = bot /\ faults' = faults /\ \E k \in {"e409", "e429"} : Answers(a, Err(k))
  BY <1>4, <1>6
<1>7. CASE \E b \in Bot : \E st \in {"joining", "stopping"} :
            /\ bot[b].st = "none" /\ bot' = [bot EXCEPT ![b] = [m |-> m, st |-> st, words |-> 0]]
            /\ \/ Answers(a, Ok("requested", b, 0)) /\ faults' = faults
               \/ Answers(a, Err("e5xx")) /\ faults' = faults + 1
  BY <1>5, <1>7
<1> QED  BY <1>2, <1>6, <1>7

LEMMA StopServed ==
    ASSUME CaptureTypes, Sound, Bounded, Marks, NEW a \in Actor, ServeStop(a), meet' = meet, leave' = leave, text' = text
    PROVE  CaptureTypes' /\ Sound'
<1> DEFINE m == flow[a].m  cap == flow[a].row.cap
           there == {b \in OfLink(m) : bot[b].st # "stopping"}
<1>1. /\ flow[a].pc = "asked" /\ flow[a].op = "stop" /\ bot \in [Bot -> BotRow] /\ Open(a) /\ m \in Meeting
      /\ cap # NoBot
  BY DEF ServeStop, CaptureTypes, BotRow, Open, FlowsAreTyped
<1>2. /\ bot' \in [Bot -> BotRow]
      /\ \A b \in Bot : /\ bot'[b].m = bot[b].m
                        /\ \/ bot'[b] = bot[b]
                           \/ bot[b].st \in {"joining", "active"} /\ bot'[b].st = "stopping"
  <2>1. ASSUME NEW b \in Bot
        PROVE  [bot[b] EXCEPT !.st = "stopping"] \in BotRow /\ [bot[b] EXCEPT !.st = "stopping"].m = bot[b].m
               /\ [bot[b] EXCEPT !.st = "stopping"].st = "stopping"
    <3>1. PICK r : r = [bot[b] EXCEPT !.st = "stopping"]
      OBVIOUS
    <3>2. r = [m |-> bot[b].m, st |-> "stopping", words |-> bot[b].words]
      BY <1>1, <3>1 DEF BotRow
    <3>3. r \in BotRow /\ r.m = bot[b].m /\ r.st = "stopping"
      BY <1>1, <3>2 DEF BotRow, LiveBot
    <3> QED  BY <3>1, <3>3
  <2>2. bot' = [b \in Bot |-> IF b \in there THEN [bot[b] EXCEPT !.st = "stopping"] ELSE bot[b]]
    BY DEF ServeStop
  <2>3. \A b \in there : bot[b].st \in {"joining", "active"}
    BY DEF OfLink, LiveBot
  <2> HIDE DEF there
  <2> QED  BY <1>1, <2>1, <2>2, <2>3
<1>3. Forward(bot, bot') /\ (\A n : KeepsFailed(n)) /\ SameLives
  BY <1>2 DEF Forward, Goes, KeepsFailed, SameLives, Lives
<1>4. \E k \in {"ok", "e404", "e5xx"} : \E ans \in Answer :
          ans.kind = k /\ Answers(a, ans) /\ (faults' = faults \/ faults' = faults + 1)
  <2>1. Ok("stopping", NoBot, 0) \in Answer /\ Ok("stopping", NoBot, 0).kind = "ok"
    <3>1. /\ "stopping" \in {None} \union Joining \union InCall \union {"stopping"} \union Terminal
          /\ NoBot \in Bot \union {NoBot} /\ 0 \in 0..2
      OBVIOUS
    <3> QED  BY <3>1, AnswerValues
  <2>2. /\ Err("e404") \in Answer /\ Err("e404").kind = "e404"
        /\ Err("e5xx") \in Answer /\ Err("e5xx").kind = "e5xx"
    BY AnswerValues
  <2>3. CASE Answers(a, IF there = {} THEN Err("e404") ELSE Ok("stopping", NoBot, 0)) /\ faults' = faults
    BY <2>1, <2>2, <2>3
  <2>4. CASE Answers(a, Err("e5xx")) /\ faults' = faults + 1
    BY <2>2, <2>4
  <2> QED  BY <2>3, <2>4 DEF ServeStop
<1>5. CaptureTypes' /\ Served(a) /\ Steady
  <2>1. faults \in Nat
    BY CaptureAssumption DEF Bounded
  <2> QED  BY <1>1, <1>2, <1>4, <2>1, AnswerServed DEF Steady
<1>6. ASSUME m \in Meeting \ crossed', MeetingFits(m) PROVE FlowFits(flow'[a], meet[m], leave[m].end, bot')
  <2>1. RequestFits(flow[a], meet[m], bot) /\ RowFits(meet[m], leave[m].end, bot)
    BY <1>1, <1>6 DEF MeetingFits, FlowFits
  <2>2. IsOf(cap, m, bot)
    BY <1>1 DEF Sound, CapturesAreOwned
  <2>3. /\ bot[cap].st \in Post => bot'[cap].st \in Post
        /\ bot[cap].st \in Dead => bot'[cap].st \in Dead
        /\ bot[cap].st # "joining" => bot'[cap].st # "joining"
    BY <1>1, <1>3, <2>2, CaptureKept
  <2>4. flow'[a].ans.kind = "ok" => bot'[cap].st \in {"stopping", "completed"}
    BY <1>1, <1>5, <1>6 DEF Served, Marks, Crossing, Strayed, Answered
  <2>5. Leaving(flow'[a]) => bot'[cap].st \in Post /\ meet[m].st \notin Waits
    BY <1>1, <1>5, <2>1, <2>3, <2>4 DEF Served, Leaving, RequestFits, RowFits, Post, Dead
  <2> QED  BY <1>1, <1>5, <2>1, <2>3, <2>5 DEF Served, FlowFits, RequestFits
<1>7. Sound'
  <2>1. ~JoinOk(a)'
    BY <1>1, <1>5 DEF Served, JoinOk
  <2> QED  BY <1>1, <1>3, <1>5, <1>6, <2>1, ServedSound DEF SameLives
<1> QED  BY <1>5, <1>7

LEMMA ReadServed ==
    ASSUME CaptureTypes, Sound, Marks, NEW a \in Actor, ServeRead(a), meet' = meet, leave' = leave, text' = text
    PROVE  CaptureTypes' /\ Sound'
<1> DEFINE m == flow[a].m  cap == flow[a].row.cap
<1>1. /\ flow[a].pc = "asked" /\ flow[a].op \in {"refresh", "transcript"} /\ bot \in [Bot -> BotRow] /\ Open(a)
      /\ m \in Meeting /\ cap # NoBot /\ bot' = bot /\ Steady
  BY DEF ServeRead, CaptureTypes, BotRow, Open, FlowsAreTyped, Steady
<1>2. IsOf(cap, m, bot)
  BY <1>1 DEF Sound, CapturesAreOwned
<1>3. Forward(bot, bot') /\ SameLives /\ \A n : KeepsFailed(n)
  BY <1>1, BotsStay
<1>4. \E ans \in Answer : /\ Answers(a, ans)
                          /\ \/ /\ ans.kind = "ok" /\ ans.st = bot[cap].st
                                /\ bot[cap].st \in {"joining", "active", "stopping", "completed", "failed"}
                             \/ ans.kind = "e404" /\ bot[cap].st = "gone"
  <2>1. CASE Known(cap)
    <3>1. PICK w \in {0, bot[cap].words} : Answers(a, Ok(bot[cap].st, cap, w))
      BY <2>1 DEF ServeRead
    <3>2. bot[cap].st \in {"joining", "active", "stopping", "completed", "failed"} /\ cap \in Bot /\ w \in 0..2
      BY <1>1, <1>2, <2>1 DEF Known, BotRow, LiveBot, Terminal, IsOf
    <3>3. /\ bot[cap].st \in {None} \union Joining \union InCall \union {"stopping"} \union Terminal
          /\ cap \in Bot \union {NoBot}
      BY <3>2 DEF Joining, InCall, Terminal
    <3>4. Ok(bot[cap].st, cap, w) \in Answer /\ Ok(bot[cap].st, cap, w).kind = "ok"
          /\ Ok(bot[cap].st, cap, w).st = bot[cap].st
      BY <3>2, <3>3, AnswerValues
    <3> QED  BY <3>1, <3>2, <3>4
  <2>2. CASE ~Known(cap)
    <3>1. bot[cap].st = "gone"
      BY <1>1, <1>2, <2>2 DEF Known, IsOf
    <3> QED  BY <2>2, <3>1, AnswerValues DEF ServeRead
  <2> QED  BY <2>1, <2>2
<1>5. /\ CaptureTypes' /\ Served(a)
      /\ \/ /\ flow'[a].ans.kind = "ok" /\ flow'[a].ans.st = bot[cap].st
            /\ bot[cap].st \in {"joining", "active", "stopping", "completed", "failed"}
         \/ flow'[a].ans.kind = "e404" /\ bot[cap].st = "gone"
  BY <1>1, <1>4, AnswerServed
<1>6. ASSUME MeetingFits(m) PROVE FlowFits(flow'[a], meet[m], leave[m].end, bot')
  <2>1. RequestFits(flow[a], meet[m], bot) /\ RowFits(meet[m], leave[m].end, bot)
    BY <1>1, <1>6 DEF MeetingFits, FlowFits
  <2>2. bot[cap].st \in {"active", "stopping", "completed"} => meet[m].st \notin Waits
    BY <1>1, <2>1 DEF RequestFits, RowFits, Dead
  <2>3. AnswerFits(flow'[a], meet[m], bot)
    BY <1>1, <1>5, <2>1, <2>2 DEF AnswerFits, RequestFits, Served, Post
  <2> QED  BY <1>1, <1>5, <2>1, <2>3 DEF Served, FlowFits, RequestFits, Leaving
<1>7. Sound'
  <2>1. ~JoinOk(a)'
    BY <1>1, <1>5 DEF Served, JoinOk
  <2> QED  BY <1>1, <1>3, <1>5, <1>6, <2>1, ServedSound DEF SameLives
<1> QED  BY <1>5, <1>7

LEMMA DeleteServed ==
    ASSUME CaptureTypes, Sound, Marks, NEW a \in Actor, ServeDelete(a), meet' = meet, leave' = leave, text' = text
    PROVE  CaptureTypes' /\ Sound'
<1> DEFINE m == flow[a].m  cap == flow[a].row.cap
<1>1. /\ flow[a].pc = "asked" /\ flow[a].op = "delete" /\ bot \in [Bot -> BotRow] /\ Open(a)
      /\ m \in Meeting /\ cap # NoBot /\ Steady
  BY DEF ServeDelete, CaptureTypes, BotRow, Open, FlowsAreTyped, Steady
<1>2. IsOf(cap, m, bot)
  BY <1>1 DEF Sound, CapturesAreOwned
<1>3. /\ bot' \in [Bot -> BotRow] /\ Forward(bot, bot') /\ SameLives
      /\ \A n \in Meeting : n # m => KeepsFailed(n)
      /\ \E ans \in Answer : /\ Answers(a, ans) /\ (ans.kind = "ok" => bot'[cap].st = "gone")
  <2>1. CASE /\ bot[cap].st \in Terminal /\ bot' = [bot EXCEPT ![cap].st = "gone"]
             /\ Answers(a, Ok(None, NoBot, 0))
    <3>1. cap \in Bot /\ Goes(bot[cap].st, "gone")
      BY <1>1, <1>2 DEF IsOf, Goes
    <3>2. /\ bot' \in [Bot -> BotRow] /\ Forward(bot, bot')
          /\ bot'[cap].m = bot[cap].m /\ bot'[cap].st = "gone" /\ \A c \in Bot : c # cap => bot'[c] = bot[c]
      BY <1>1, <2>1, <3>1, BotGoes
    <3>3. Ok(None, NoBot, 0) \in Answer
      <4>1. /\ None \in {None} \union Joining \union InCall \union {"stopping"} \union Terminal
            /\ NoBot \in Bot \union {NoBot} /\ 0 \in 0..2
        OBVIOUS
      <4> QED  BY <4>1, AnswerValues
    <3>4. SameLives /\ \A n \in Meeting : n # m => KeepsFailed(n)
      BY <1>1, <1>2, <3>2 DEF SameLives, KeepsFailed, Lives, IsOf
    <3> QED  BY <2>1, <3>2, <3>3, <3>4
  <2>2. CASE bot' = bot /\ Answers(a, Err("e409"))
    <3>1. Err("e409") \in Answer /\ Err("e409").kind # "ok"
      BY AnswerValues
    <3> QED  BY <1>1, <2>2, <3>1, BotsStay
  <2> QED  BY <2>1, <2>2 DEF ServeDelete
<1>4. CaptureTypes' /\ Served(a) /\ (flow'[a].ans.kind = "ok" => bot'[cap].st = "gone")
  BY <1>1, <1>3, AnswerServed
<1>5. ASSUME MeetingFits(m) PROVE FlowFits(flow'[a], meet[m], leave[m].end, bot')
  <2>1. RequestFits(flow[a], meet[m], bot)
    BY <1>1, <1>5 DEF MeetingFits, FlowFits
  <2>2. bot[cap].st # "joining" => bot'[cap].st # "joining"
    BY <1>1, <1>2, <1>3, CaptureKept
  <2> QED  BY <1>1, <1>4, <2>1, <2>2 DEF Served, FlowFits, RequestFits, Leaving
<1>6. Sound'
  <2>1. ~JoinOk(a)'
    BY <1>1, <1>4 DEF Served, JoinOk
  <2> QED  BY <1>1, <1>3, <1>4, <1>5, <2>1, ServedSound DEF SameLives
<1> QED  BY <1>4, <1>6

LEMMA NotServed ==
    ASSUME CaptureTypes, Sound, Bounded, Marks, NEW a \in Actor, Unreachable(a), meet' = meet, leave' = leave, text' = text
    PROVE  CaptureTypes' /\ Sound'
<1> DEFINE m == flow[a].m  cap == flow[a].row.cap
<1>1. /\ flow[a].pc = "asked" /\ bot \in [Bot -> BotRow] /\ Open(a) /\ m \in Meeting /\ bot' = bot
      /\ faults' = faults + 1 /\ faults \in Nat /\ Answers(a, Err("e5xx"))
  BY CaptureAssumption DEF Unreachable, CaptureTypes, BotRow, Open, FlowsAreTyped, Bounded
<1>2. Forward(bot, bot') /\ SameLives /\ (\A n : KeepsFailed(n)) /\ Steady
  BY <1>1, BotsStay DEF Steady
<1>3. CaptureTypes' /\ Served(a) /\ flow'[a].ans.kind = "e5xx"
  BY <1>1, AnswerValues, AnswerServed
<1>4. ASSUME MeetingFits(m) PROVE FlowFits(flow'[a], meet[m], leave[m].end, bot')
  <2>1. FlowFits(flow[a], meet[m], leave[m].end, bot)
    BY <1>1, <1>4 DEF MeetingFits
  <2>2. CASE flow[a].op = "join"
    BY <1>1, <1>3, <2>1, <2>2 DEF Served, FlowFits, JoinFits
  <2>3. CASE flow[a].op # "join"
    BY <1>1, <1>3, <2>1, <2>3 DEF Served, FlowFits, RequestFits, AnswerFits, Leaving
  <2> QED  BY <2>2, <2>3
<1>5. Sound'
  <2>1. ~JoinOk(a)'
    BY <1>3 DEF JoinOk
  <2> QED  BY <1>1, <1>2, <1>3, <1>4, <2>1, ServedSound DEF SameLives
<1> QED  BY <1>3, <1>5

-----------------------------------------------------------------------------
\* Assistants go on by themselves
LEMMA BotsSound ==
    ASSUME CaptureTypes, Sound, Marks, Steady, meet' = meet, leave' = leave, text' = text, flow' = flow,
           bot' \in [Bot -> BotRow], Forward(bot, bot'), SameLives, \A n : KeepsFailed(n)
    PROVE  CaptureTypes' /\ Sound'
<1>1. CaptureTypes' /\ KeepsJoins
  <2>1. FlowsAreTyped'
    BY DEF FlowsAreTyped, CaptureTypes, Open
  <2> QED  BY <2>1 DEF CaptureTypes, BotRow, KeepsJoins, Alike
<1>2. CapturesAreOwned'
  BY OwnedKept DEF Sound, OwnedFlow, Open, Alike
<1>3. RowsFit'
  <2>1. Crossing' \subseteq crossed' /\ crossed \subseteq crossed'
    BY DEF Marks
  <2>2. ASSUME NEW m \in Meeting \ crossed' PROVE MeetingFits(m)'
    <3>1. Undisturbed(m)
      BY LeftAlone
    <3> QED  BY <2>1, <3>1, Framed DEF Sound, RowsFit, CaptureTypes
  <2> QED  BY <2>1, <2>2 DEF RowsFit
<1>4. LiveOnesAreKnown'
  BY <1>1, KnownKept DEF Sound
<1> QED  BY <1>1, <1>2, <1>3, <1>4 DEF Sound

LEMMA BotMoved ==
    ASSUME CaptureTypes, Sound, Bounded, Marks, NEW b \in Bot, BotMoves(b) \/ BotForgotten(b)
    PROVE  CaptureTypes' /\ Sound'
<1>1. /\ bot \in [Bot -> BotRow] /\ meet' = meet /\ leave' = leave /\ text' = text /\ flow' = flow /\ Steady
  BY CaptureAssumption DEF CaptureTypes, BotRow, BotMoves, BotForgotten, Bounded, Steady
<1>2. ASSUME NEW st, Goes(bot[b].st, st), st \in {"gone"} \union LiveBot \union Terminal, bot[b].st # "failed",
             Lives(st) => Lives(bot[b].st), bot' = [bot EXCEPT ![b].st = st]
      PROVE  CaptureTypes' /\ Sound'
  <2>1. /\ bot' \in [Bot -> BotRow] /\ Forward(bot, bot')
        /\ bot'[b].m = bot[b].m /\ bot'[b].st = st /\ \A c \in Bot : c # b => bot'[c] = bot[c]
    BY <1>1, <1>2, BotGoes
  <2>2. SameLives /\ \A n : KeepsFailed(n)
    BY <1>2, <2>1 DEF SameLives, KeepsFailed
  <2> QED  BY <1>1, <2>1, <2>2, BotsSound
<1>3. ASSUME NEW w \in 0..2, bot' = [bot EXCEPT ![b].words = w] PROVE CaptureTypes' /\ Sound'
  <2>1. PICK r : r = [bot[b] EXCEPT !.words = w]
    OBVIOUS
  <2>2. r = [m |-> bot[b].m, st |-> bot[b].st, words |-> w]
    BY <1>1, <2>1 DEF BotRow
  <2>3. r \in BotRow /\ r.m = bot[b].m /\ r.st = bot[b].st
    BY <1>1, <2>2 DEF BotRow
  <2>4. bot' = [bot EXCEPT ![b] = r]
    BY <1>3, <2>1
  <2>5. bot' \in [Bot -> BotRow] /\ \A c \in Bot : bot'[c].m = bot[c].m /\ bot'[c].st = bot[c].st
    BY <1>1, <2>3, <2>4
  <2>6. Forward(bot, bot') /\ SameLives /\ \A n : KeepsFailed(n)
    BY <2>5 DEF Forward, Goes, SameLives, KeepsFailed
  <2> QED  BY <1>1, <2>5, <2>6, BotsSound
<1>4. CASE BotForgotten(b)
  <2>1. bot[b].st \in LiveBot /\ bot' = [bot EXCEPT ![b].st = "gone"]
    BY <1>4 DEF BotForgotten
  <2> QED  BY <1>2, <2>1 DEF LiveBot, Goes, Lives
<1>5. CASE BotMoves(b)
  <2>1. ASSUME NEW s \in CASE bot[b].st = "joining"  -> {"active", "failed"}
                     [] bot[b].st = "active"   -> {"completed"}
                     [] bot[b].st = "stopping" -> {"completed"}
                     [] OTHER -> {}, bot' = [bot EXCEPT ![b].st = s]
        PROVE  CaptureTypes' /\ Sound'
    <3>1. \/ bot[b].st = "joining" /\ s \in {"active", "failed"}
          \/ bot[b].st \in {"active", "stopping"} /\ s = "completed"
      BY <2>1
    <3> QED  BY <1>2, <2>1, <3>1 DEF Goes, Lives, LiveBot, Terminal
  <2>2. ASSUME bot[b].words < 2, bot' = [bot EXCEPT ![b].words = @ + 1] PROVE CaptureTypes' /\ Sound'
    <3>1. bot[b].words + 1 \in 0..2
      BY <1>1, <2>2 DEF BotRow
    <3>2. bot' = [bot EXCEPT ![b].words = bot[b].words + 1]
      BY <1>1, <2>2
    <3> QED  BY <1>3, <3>1, <3>2
  <2> QED  BY <1>5, <2>1, <2>2 DEF BotMoves
<1> QED  BY <1>4, <1>5

-----------------------------------------------------------------------------
\* Time passes, the process ends
LEMMA RowAges ==
    ASSUME NEW row \in MeetingRow
    PROVE  OlderRow(row) \in MeetingRow /\ OlderRow(row).st = row.st /\ OlderRow(row).cap = row.cap
<1>1. \A n \in 0..NotYet : Older(n) \in 0..NotYet
  BY CaptureAssumption DEF Older, NotYet
<1>2. PICK stop, seen : stop = Older(row.stop) /\ seen = Older(row.seen)
  OBVIOUS
<1>3. PICK r : r = [row EXCEPT !.stop = stop, !.seen = seen]
  OBVIOUS
<1>4. r = [st |-> row.st, cap |-> row.cap, stop |-> stop, seen |-> seen]
  BY <1>3 DEF MeetingRow
<1>5. OlderRow(row) = r
  BY <1>2, <1>3 DEF OlderRow
<1>6. stop \in 0..NotYet /\ seen \in 0..NotYet
  BY <1>1, <1>2 DEF MeetingRow
<1> QED  BY <1>4, <1>5, <1>6 DEF MeetingRow

LEMMA Ticked ==
    ASSUME CaptureTypes, Tick
    PROVE  CaptureTypes' /\ Calm
<1>1. meet' \in [Meeting -> MeetingRow] /\ \A m \in Meeting : meet'[m].st = meet[m].st /\ meet'[m].cap = meet[m].cap
  BY RowAges DEF Tick, CaptureTypes
<1>2. leave' \in [Meeting -> LeaveState] /\ \A m \in Meeting : leave'[m].end = leave[m].end
  <2>1. \A n \in 0..NotYet : Older(n) \in 0..NotYet
    BY CaptureAssumption DEF Older, NotYet
  <2>2. ASSUME NEW m \in Meeting PROVE leave'[m] \in LeaveState /\ leave'[m].end = leave[m].end
    <3>1. leave'[m] = [leave[m] EXCEPT !.at = Older(leave[m].at), !.backoff = FALSE]
      BY DEF Tick
    <3>2. PICK at : at = Older(leave[m].at)
      OBVIOUS
    <3>3. PICK r : r = [leave[m] EXCEPT !.at = at, !.backoff = FALSE]
      OBVIOUS
    <3>4. r = [end |-> leave[m].end, at |-> at, backoff |-> FALSE, warned |-> leave[m].warned]
      BY <3>3 DEF LeaveState, CaptureTypes
    <3>5. at \in 0..NotYet
      BY <2>1, <3>2 DEF LeaveState, CaptureTypes
    <3>6. leave'[m] = r
      BY <3>1, <3>2, <3>3
    <3> QED  BY <3>4, <3>5, <3>6 DEF LeaveState, CaptureTypes
  <2>3. leave' = [m \in Meeting |-> leave'[m]]
    BY DEF Tick
  <2> QED  BY <2>2, <2>3
<1>3. ASSUME NEW a \in Actor
      PROVE  flow'[a] \in FlowRow /\ Alike(flow[a], flow'[a])
  <2>1. flow'[a] = [flow[a] EXCEPT !.row = OlderRow(flow[a].row)]
    BY <1>3 DEF Tick
  <2>2. PICK row : row = OlderRow(flow[a].row)
    OBVIOUS
  <2>3. PICK f : f = [flow[a] EXCEPT !.row = row]
    OBVIOUS
  <2>4. flow[a] \in FlowRow
    BY DEF CaptureTypes, FlowsAreTyped
  <2>5. f = [pc |-> flow[a].pc, op |-> flow[a].op, m |-> flow[a].m, row |-> row, ans |-> flow[a].ans,
             by |-> flow[a].by, waited |-> flow[a].waited]
    BY <2>3, <2>4 DEF FlowRow
  <2>6. row \in MeetingRow /\ row.st = flow[a].row.st /\ row.cap = flow[a].row.cap
    BY <2>2, <2>4, RowAges DEF FlowRow
  <2>7. f \in FlowRow
    BY <2>4, <2>5, <2>6 DEF FlowRow
  <2>8. flow'[a] = f
    BY <2>1, <2>2, <2>3
  <2> QED  BY <2>5, <2>6, <2>7, <2>8 DEF Alike
<1>4. FlowsAreTyped'
  <2>1. flow' \in [Actor -> FlowRow]
    BY <1>3 DEF Tick
  <2> QED  BY <1>3, <2>1 DEF FlowsAreTyped, CaptureTypes, Alike, Open
<1> QED
  BY <1>1, <1>2, <1>3, <1>4 DEF CaptureTypes, Calm, Undisturbed, KeepsJoins, Tick, Open, Alike

LEMMA Crashed ==
    ASSUME CaptureTypes, Bounded, Crash
    PROVE  CaptureTypes' /\ Calm /\ Steady
<1>1. flow' \in [Actor -> FlowRow] /\ \A a \in Actor : flow'[a].pc = "idle"
  BY RowConstants DEF Crash
<1>2. faults' = faults + 1 /\ faults \in Nat /\ UNCHANGED <<meet, text, leave, bot>>
  BY CaptureAssumption DEF Crash, Bounded
<1> QED  BY <1>1, <1>2 DEF CaptureTypes, FlowsAreTyped, Open, Calm, Undisturbed, Steady

-----------------------------------------------------------------------------
(***************************************************************************)
(* The end of a call                                                       *)
(***************************************************************************)
\* Nobody is told of a call that no join led to
NoCallByItself ==
    \A m \in Meeting \ crossed' : meet[m].st \in Waits => meet'[m].st \notin {"active", "stopping", "completed"}

LEMMA ContinuesLife ==
    ASSUME CaptureTypes, RowsFit, Marks, NEW a \in Actor, NEW m \in Meeting, Continues(a, m)
    PROVE  NoCallByItself
<1> SUFFICES ASSUME NEW n \in Meeting \ crossed', meet[n].st \in Waits
             PROVE  meet'[n].st \notin {"active", "stopping", "completed"}
  BY DEF NoCallByItself
<1>1. CASE n # m
  BY <1>1 DEF Continues, Elsewhere, Waits
<1>2. CASE n = m
  <2>1. /\ Open(a) /\ flow[a].pc = "answered" /\ flow[a].op \in {"refresh", "stop", "transcript"} /\ flow[a].m = m
        /\ Saves(a, m)
    BY DEF Continues, Open
  <2>2. RequestFits(flow[a], meet[m], bot)
    BY <1>2, <2>1 DEF RowsFit, Marks, MeetingFits, FlowFits
  <2>3. SavesTheAnswer(a, m) \/ ClosesTheLate(a, m) =>
          /\ Reported(a) = flow[a].ans.st
          /\ flow[a].ans.st \in {"joining", "active", "stopping", "completed", "failed"}
          /\ flow[a].ans.st = "joining" => flow[a].by # "settle"
          /\ flow[a].ans.st \in Post => meet[m].st \notin Waits
    BY <2>1, <2>2, RowsToSave DEF SavesTheAnswer, ClosesTheLate, RequestFits, AnswerFits, CaptureTypes
  <2>4. CASE SavesTheAnswer(a, m)
    BY <1>2, <2>3, <2>4 DEF SavesTheAnswer, Post
  <2>5. CASE ClosesTheLate(a, m)
    BY <1>2, <2>3, <2>5 DEF ClosesTheLate, Post, Terminal
  <2>6. CASE SavesTheStop(a, m)
    BY <1>2, <2>2, <2>6 DEF SavesTheStop, RequestFits
  <2>7. CASE ClosesTheLost(a, m)
    BY <1>2, <2>2, <2>7 DEF ClosesTheLost, RequestFits, Waits, Terminal, InCall
  <2>8. CASE SavesNothing(m)
    BY <1>2, <2>8 DEF SavesNothing, Waits
  <2> QED  BY <2>1, <2>4, <2>5, <2>6, <2>7, <2>8 DEF Saves
<1> QED  BY <1>1, <1>2

LEMMA CalmLife ==
    ASSUME \A m \in Meeting : meet'[m].st = meet[m].st
    PROVE  NoCallByItself
BY DEF NoCallByItself, Waits

\* What people ask for
LEMMA AskedSound ==
    ASSUME CaptureTypes, Sound, Marks, Steady, NEW a \in Actor, NEW m \in Meeting, Asked(a, m) \/ DeleteNow(m)
    PROVE  CaptureTypes' /\ Sound' /\ NoCallByItself
<1>1. CASE JoinAsk(a, m)
  <2>1. CaptureTypes' /\ Enters(a, m)
    BY <1>1, JoinAsked
  <2>2. NoCallByItself
    BY <2>1 DEF NoCallByItself, Enters, Elsewhere, Waits
  <2> QED  BY <2>1, <2>2, EntersSound
<1>2. ASSUME NEW op \in {"refresh", "stop", "transcript", "delete"}, NEW by, CaptureTypes', Reads(a, m, op, by)
      PROVE  CaptureTypes' /\ Sound' /\ NoCallByItself
  <2>1. NoCallByItself
    BY <1>2, CalmLife DEF Reads
  <2> QED  BY <1>2, <2>1, ReadsSound
<1>3. CASE StopAsk(a, m, "user") \/ TranscriptAsk(a, m) \/ DeleteAsk(a, m) \/ RefreshAsk(a, m)
  BY <1>2, <1>3, PeopleRead
<1>4. CASE DeleteNow(m)
  <2>1. CaptureTypes' /\ Erases(m)
    BY <1>4, Erased
  <2>2. NoCallByItself
    BY <2>1 DEF NoCallByItself, Erases, Waits
  <2> QED  BY <2>1, <2>2, ErasesSound
<1> QED  BY <1>1, <1>3, <1>4 DEF Asked

\* What they are answered
LEMMA EndsSound ==
    ASSUME CaptureTypes, Sound, Marks, Steady, NEW a \in Actor, JoinEnd(a) \/ Ends(a)
    PROVE  CaptureTypes' /\ Sound' /\ NoCallByItself
<1> DEFINE m == flow[a].m
<1>1. flow[a].pc = "answered" /\ m \in Meeting
  BY DEF JoinEnd, Ends, RefreshEnd, StopEnd, TranscriptEnd, DeleteEnd, Answered, CaptureTypes, FlowsAreTyped, Open
<1>2. CASE JoinEnd(a)
  <2>1. CaptureTypes' /\ HasJoined(a, m)
    BY <1>1, <1>2, JoinEnded DEF Sound
  <2>2. NoCallByItself
    BY <2>1 DEF NoCallByItself, HasJoined, Elsewhere, Waits
  <2> QED  BY <1>1, <2>1, <2>2, JoinEndSound
<1>3. CASE RefreshEnd(a) \/ StopEnd(a) \/ TranscriptEnd(a)
  <2>1. CaptureTypes' /\ Continues(a, m)
    BY <1>1, <1>3, Ended
  <2> QED  BY <1>1, <2>1, ContinuesSound, ContinuesLife DEF Sound
<1>4. CASE DeleteEnd(a) /\ flow[a].ans.kind = "ok"
  <2>1. CaptureTypes' /\ Erases(m)
    BY <1>1, <1>4, Erased
  <2>2. NoCallByItself
    BY <2>1 DEF NoCallByItself, Erases, Waits
  <2> QED  BY <1>1, <2>1, <2>2, ErasesSound
<1>5. CASE DeleteEnd(a) /\ flow[a].ans.kind # "ok"
  <2>1. Done(a) /\ UNCHANGED <<meet, leave, text, bot>> /\ flow[a].op = "delete"
    BY <1>5 DEF DeleteEnd, Answered
  <2>2. FlowsAreTyped' /\ flow'[a].pc = "idle" /\ \A c \in Actor : c # a => flow'[c] = flow[c]
    BY <2>1, DoneTyped DEF CaptureTypes
  <2>3. CaptureTypes'
    BY <2>1, <2>2 DEF CaptureTypes
  <2>4. Calm
    BY <2>1, <2>2 DEF Calm, Undisturbed, KeepsJoins, JoinOk, Alike, Open
  <2> QED  BY <2>1, <2>3, <2>4, CalmSound, CalmLife
<1> QED  BY <1>2, <1>3, <1>4, <1>5 DEF Ends

LEMMA UnchangedCalm ==
    ASSUME CaptureTypes, UNCHANGED <<meet, text, leave, bot, flow>>
    PROVE  CaptureTypes' /\ Calm
<1>1. FlowsAreTyped'
  BY DEF FlowsAreTyped, CaptureTypes, Open
<1> QED  BY <1>1 DEF CaptureTypes, Calm, Undisturbed, KeepsJoins, Alike, Open

LEMMA WatchdogSound ==
    ASSUME CaptureTypes, Sound, Marks, WatchdogStep, todo \subseteq Meeting
    PROVE  CaptureTypes' /\ Sound' /\ NoCallByItself /\ ops' = ops /\ faults' = faults /\ todo' \subseteq Meeting
<1>1. ops' = ops /\ faults' = faults /\ todo' \subseteq Meeting /\ Steady
  BY DEF WatchdogStep, PassStart, Candidates, WatchBegin, WatchRefreshed, WatchDecides, WatchWarns, WatchLeaves,
     WatchStopped, Settled, captureVars, Steady
<1>2. ASSUME Watchdog \in Actor, NEW m \in Meeting, CaptureTypes', Continues(Watchdog, m)
      PROVE  CaptureTypes' /\ Sound' /\ NoCallByItself
  BY <1>1, <1>2, ContinuesSound, ContinuesLife DEF Sound
<1>3. ASSUME UNCHANGED captureVars PROVE CaptureTypes' /\ Sound' /\ NoCallByItself
  BY <1>1, <1>3, UnchangedCalm, CalmSound, CalmLife DEF captureVars
<1>4. CASE PassStart
  <2>1. UNCHANGED captureVars
    BY <1>4 DEF PassStart
  <2> QED  BY <1>1, <1>3, <2>1
<1>5. ASSUME NEW m \in Meeting, WatchBegin(m) PROVE CaptureTypes' /\ Sound' /\ NoCallByItself
  <2>1. ASSUME NEW by, CaptureTypes', Reads(Watchdog, m, "refresh", by) PROVE CaptureTypes' /\ Sound' /\ NoCallByItself
    <3>1. NoCallByItself
      BY <2>1, CalmLife DEF Reads
    <3> QED  BY <1>1, <2>1, <3>1, LeaveAssumption, ReadsSound
  <2> QED  BY <1>3, <1>5, <2>1, WatchdogReads
<1>6. CASE WatchRefreshed \/ WatchDecides \/ WatchWarns \/ WatchLeaves \/ WatchStopped \/ Settled
  <2>1. Watchdog \in Actor /\ flow[Watchdog].m \in Meeting
    BY <1>6, LeaveAssumption DEF WatchRefreshed, WatchDecides, WatchWarns, WatchLeaves, WatchStopped, Settled,
       Answered, CaptureTypes, FlowsAreTyped, Open
  <2>2. PICK m \in Meeting : flow[Watchdog].m = m
    BY <2>1
  <2>3. CaptureTypes' /\ Continues(Watchdog, m)
    BY <1>6, <2>2, TranscriptSaved, WatchdogSaved, StopSaved, SettledSaved
  <2> QED  BY <1>1, <1>2, <2>1, <2>3
<1> QED  BY <1>1, <1>4, <1>5, <1>6 DEF WatchdogStep

LEMMA EndSteps ==
    ASSUME CaptureTypes, Sound, Bounded, todo \subseteq Meeting, Marks, EndNext
    PROVE  /\ CaptureTypes' /\ Sound' /\ NoCallByItself /\ Bounded' /\ todo' \subseteq Meeting
           /\ side = "end" /\ UNCHANGED <<schedVars, side>>
<1>0. faults \in Nat /\ ops \in Nat /\ MaxOps \in Nat /\ MaxFaults \in Nat
  BY CaptureAssumption DEF Bounded
<1>1. CASE PeopleAtTheEnd
  <2>1. PICK r \in Request, m \in Watched : Asked(r, m) \/ DeleteNow(m)
    BY <1>1 DEF PeopleAtTheEnd, EndOfCall, Act
  <2>2. ops < MaxOps /\ ops' = ops + 1 /\ faults' = faults /\ todo' = todo /\ Steady
    BY <1>1 DEF PeopleAtTheEnd, EndOfCall, Act, Steady
  <2>3. r \in Actor /\ m \in Meeting
    BY CallsAssumption
  <2>4. CaptureTypes' /\ Sound' /\ NoCallByItself
    BY <2>1, <2>2, <2>3, AskedSound
  <2>5. Bounded'
    BY <1>0, <2>2 DEF Bounded
  <2> QED  BY <1>1, <2>2, <2>4, <2>5 DEF PeopleAtTheEnd, EndOfCall
<1>2. CASE Watches
  <2>1. WatchdogStep /\ side = "end" /\ UNCHANGED <<schedVars, side>>
    BY <1>2 DEF Watches, EndOfCall
  <2> QED  BY <2>1, WatchdogSound DEF Bounded
<1>3. CASE Assistants
  <2>1. PICK b \in Bot : BotMoves(b) \/ BotForgotten(b)
    BY <1>3 DEF Assistants, EndOfCall
  <2>2. /\ ops' = ops /\ (faults' = faults \/ (faults < MaxFaults /\ faults' = faults + 1)) /\ todo' = todo
        /\ meet' = meet
    BY <1>3, <2>1 DEF Assistants, EndOfCall, BotMoves, BotForgotten
  <2>3. CaptureTypes' /\ Sound' /\ NoCallByItself
    BY <2>1, <2>2, BotMoved, CalmLife
  <2>4. Bounded'
    BY <1>0, <2>2 DEF Bounded
  <2> QED  BY <1>3, <2>2, <2>3, <2>4 DEF Assistants, EndOfCall
<1>4. CASE TimeAtTheEnd
  <2>1. Tick /\ ops' = ops /\ faults' = faults /\ todo' = todo /\ Steady
    BY <1>4 DEF TimeAtTheEnd, EndOfCall, Tick, Steady
  <2>2. CaptureTypes' /\ Sound' /\ NoCallByItself
    BY <2>1, Ticked, CalmSound, CalmLife DEF Calm, Undisturbed
  <2> QED  BY <1>4, <2>1, <2>2 DEF TimeAtTheEnd, EndOfCall, Bounded
<1>5. CASE Restart
  <2>1. Crash /\ ops' = ops /\ faults < MaxFaults /\ faults' = faults + 1 /\ todo' = {}
    BY <1>5 DEF Restart, EndOfCall, Crash
  <2>2. CaptureTypes' /\ Sound' /\ NoCallByItself
    BY <2>1, Crashed, CalmSound, CalmLife DEF Calm, Undisturbed
  <2>3. Bounded'
    BY <1>0, <2>1 DEF Bounded
  <2> QED  BY <1>5, <2>1, <2>2, <2>3 DEF Restart, EndOfCall
<1>6. ASSUME NEW a \in Actor, Serves(a) PROVE /\ CaptureTypes' /\ Sound' /\ NoCallByItself /\ Bounded'
                                              /\ todo' \subseteq Meeting /\ side = "end" /\ UNCHANGED <<schedVars, side>>
  <2>1. /\ ServeJoin(a) \/ ServeStop(a) \/ ServeRead(a) \/ ServeDelete(a) \/ Unreachable(a)
        /\ UNCHANGED <<meet, text, leave, ops>> /\ todo' = todo
        /\ side = "end" /\ UNCHANGED <<schedVars, side>>
    BY <1>6 DEF Serves, EndOfCall, Serve
  <2>2. CaptureTypes' /\ Sound' /\ NoCallByItself
    BY <2>1, JoinServed, StopServed, ReadServed, DeleteServed, NotServed, CalmLife
  <2>3. faults' = faults \/ (faults < MaxFaults /\ faults' = faults + 1)
    BY <2>1 DEF ServeJoin, ServeStop, ServeRead, ServeDelete, Unreachable
  <2>4. Bounded'
    BY <1>0, <2>1, <2>3 DEF Bounded
  <2> QED  BY <2>1, <2>2, <2>4
<1>7. ASSUME NEW a \in Request, Answers_(a) PROVE /\ CaptureTypes' /\ Sound' /\ NoCallByItself /\ Bounded'
                                                  /\ todo' \subseteq Meeting /\ side = "end" /\ UNCHANGED <<schedVars, side>>
  <2>1. (JoinEnd(a) \/ Ends(a)) /\ ops' = ops /\ faults' = faults /\ todo' = todo /\ Steady
    BY <1>7 DEF Answers_, EndOfCall, Steady
  <2>2. CaptureTypes' /\ Sound' /\ NoCallByItself
    BY <2>1, CallsAssumption, EndsSound
  <2> QED  BY <1>7, <2>1, <2>2 DEF Answers_, EndOfCall, Bounded
<1> QED  BY <1>1, <1>2, <1>3, <1>4, <1>5, <1>6, <1>7 DEF EndNext

-----------------------------------------------------------------------------
(***************************************************************************)
(* The start of a call: types                                              *)
(***************************************************************************)
\* A schedule row with another status or phase
LEMMA SchedSet ==
    ASSUME sched \in [Meeting -> ScheduleRow], NEW m,
           NEW st \in {None, "pending", "joining", "joined", "failed", "cancelled", "missed"},
           NEW s, s = [sched EXCEPT ![m].st = st]
    PROVE  /\ s \in [Meeting -> ScheduleRow] /\ (m \in Meeting => s[m].st = st)
           /\ \A n \in Meeting : n # m => s[n] = sched[n]
<1>1. CASE m \in Meeting
  <2>1. PICK r : r = [sched[m] EXCEPT !.st = st]
    OBVIOUS
  <2>2. r = [st |-> st, phase |-> sched[m].phase]
    BY <1>1, <2>1 DEF ScheduleRow
  <2>3. r \in ScheduleRow /\ r.st = st
    BY <1>1, <2>2 DEF ScheduleRow
  <2>4. s = [sched EXCEPT ![m] = r]
    BY <2>1
  <2> QED  BY <1>1, <2>3, <2>4
<1>2. CASE m \notin Meeting
  BY <1>2
<1> QED  BY <1>1, <1>2

LEMMA Claimed ==
    ASSUME sched \in [Meeting -> ScheduleRow], NEW m \in Meeting, sched' = [sched EXCEPT ![m].st = "joining"]
    PROVE  /\ sched' \in [Meeting -> ScheduleRow] /\ sched'[m].st = "joining"
           /\ \A n \in Meeting : n # m => sched'[n] = sched[n]
<1>1. PICK s, st : st = "joining" /\ s = [sched EXCEPT ![m].st = st]
  OBVIOUS
<1>2. st \in {None, "pending", "joining", "joined", "failed", "cancelled", "missed"}
  BY <1>1
<1>3. s \in [Meeting -> ScheduleRow] /\ s[m].st = st /\ \A n \in Meeting : n # m => s[n] = sched[n]
  BY <1>1, <1>2, SchedSet
<1> QED  BY <1>1, <1>3

LEMMA PhaseSet ==
    ASSUME sched \in [Meeting -> ScheduleRow], NEW m \in Meeting, NEW phase \in {"future", "due", "late"},
           NEW s, s = [sched EXCEPT ![m].phase = phase]
    PROVE  s \in [Meeting -> ScheduleRow] /\ \A n \in Meeting : s[n].st = sched[n].st
<1>1. PICK r : r = [sched[m] EXCEPT !.phase = phase]
  OBVIOUS
<1>2. r = [st |-> sched[m].st, phase |-> phase]
  BY <1>1 DEF ScheduleRow
<1>3. r \in ScheduleRow /\ r.st = sched[m].st
  BY <1>2 DEF ScheduleRow
<1>4. s = [sched EXCEPT ![m] = r]
  BY <1>1
<1> QED  BY <1>3, <1>4

\* Who owns a record, and who hands it over
LEMMA OwnerRecorded ==
    ASSUME cover \in [Meeting -> CoverageRow], NEW m \in Meeting, NEW p \in Person, NEW own \in BOOLEAN
    PROVE  /\ RecordOwner(m, p, own) \in [Meeting -> CoverageRow]
           /\ \A n \in Meeting : n # m => RecordOwner(m, p, own)[n] = cover[n]
           /\ RecordOwner(m, p, own)[m].owner # None
           /\ RecordOwner(m, p, own)[m].decision = "handed_over"
                 <=> cover[m].decision = "handed_over" /\ cover[m].owner # None
<1>1. None \notin Person
  BY SchedulingAssumption
<1>2. CASE cover[m].owner # None /\ own /\ cover[m].owner = p /\ cover[m].decision # "handed_over"
  <2>1. PICK r : r = [cover[m] EXCEPT !.decision = "own"]
    OBVIOUS
  <2>2. r = [owner |-> cover[m].owner, decision |-> "own", to |-> cover[m].to, sharers |-> cover[m].sharers]
    BY <2>1 DEF CoverageRow
  <2>3. r \in CoverageRow /\ r.decision = "own" /\ r.owner = p
    BY <1>2, <2>2 DEF CoverageRow
  <2>4. RecordOwner(m, p, own) = [cover EXCEPT ![m] = r]
    BY <1>2, <2>1 DEF RecordOwner
  <2> QED  BY <1>2, <1>1, <2>3, <2>4
<1>3. CASE cover[m].owner # None /\ ~(own /\ cover[m].owner = p /\ cover[m].decision # "handed_over")
  BY <1>3 DEF RecordOwner
<1>4. CASE cover[m].owner = None
  <2>1. PICK d, s : d = (IF own THEN "own" ELSE None) /\ s = cover[m].sharers \ {p}
    OBVIOUS
  <2>2. PICK r : r = [NoCoverage EXCEPT !.owner = p, !.decision = d, !.sharers = s]
    OBVIOUS
  <2>3. r = [owner |-> p, decision |-> d, to |-> None, sharers |-> s]
    BY <2>2 DEF NoCoverage
  <2>4. d \in {"own", None} /\ d # "handed_over" /\ s \in SUBSET Person
    BY <2>1 DEF CoverageRow, None
  <2>5. r \in CoverageRow /\ r.decision # "handed_over" /\ r.owner = p
    BY <2>3, <2>4 DEF CoverageRow
  <2>6. RecordOwner(m, p, own) = [cover EXCEPT ![m] = r]
    BY <1>4, <2>1, <2>2 DEF RecordOwner
  <2> QED  BY <1>1, <1>4, <2>5, <2>6
<1> QED  BY <1>2, <1>3, <1>4

-----------------------------------------------------------------------------
(***************************************************************************)
(* The start of a call: steps that touch no meeting                        *)
(***************************************************************************)
Quiet == UNCHANGED <<meet, text, leave, bot, flow>>

\* A row stays as it is, is given up, or is claimed
Plans == \A m \in Meeting : \/ sched'[m].st = sched[m].st
                            \/ sched[m].st # None /\ sched'[m].st \in {"cancelled", "missed", "failed"}
                            \/ sched[m].st = "pending" /\ sched'[m].st = "joining"
StaysHome == \A m \in Meeting : cover[m].decision = "handed_over" => cover'[m].decision = "handed_over"

LEMMA QuietParts ==
    ASSUME CaptureTypes, StartParts, Quiet, Plans, \A m \in due' : Exists(m),
           thread'.op = "cancel" => thread'.m \in Meeting /\ Exists(thread'.m),
           OwnersHandOver', VisitFits'
    PROVE  StartParts'
<1>1. JoinsApart' /\ CallsAreOver'
  BY DEF StartParts, JoinsApart, CallsAreOver, Quiet, Open
<1>2. RoutesWait'
  <2>1. \A a \in Actor : Open(a) => flow[a].m \in Meeting
    BY DEF CaptureTypes, FlowsAreTyped
  <2> QED  BY <2>1 DEF StartParts, RoutesWait, Quiet, Plans, Open
<1>3. RowsAreThere'
  BY DEF StartParts, RowsAreThere, Quiet, Plans, Exists, None
<1> QED  BY <1>1, <1>2, <1>3 DEF StartParts

LEMMA VisitStays ==
    ASSUME VisitFits, Quiet, visit' = visit,
           \A m \in Meeting : \/ sched'[m].st = sched[m].st
                              \/ sched'[m].st = "cancelled",
           \A m \in Meeting : cover'[m].decision = "handed_over" /\ sched'[m].st = "pending"
                                 => cover[m].decision = "handed_over"
    PROVE  VisitFits'
BY DEF VisitFits, Quiet, Exists, Open


LEMMA SchedParts ==
    ASSUME SchedTypeOK
    PROVE  /\ sched \in [Meeting -> ScheduleRow] /\ cover \in [Meeting -> CoverageRow]
           /\ visit.m \in Meeting \union {None} /\ due \subseteq Meeting
BY DEF SchedTypeOK

LEMMA DecisionKept ==
    ASSUME cover \in [Meeting -> CoverageRow], NEW m \in Meeting, NEW s \in SUBSET Person
    PROVE  /\ [cover EXCEPT ![m].sharers = s] \in [Meeting -> CoverageRow]
           /\ \A n \in Meeting : /\ [cover EXCEPT ![m].sharers = s][n].owner = cover[n].owner
                                 /\ [cover EXCEPT ![m].sharers = s][n].decision = cover[n].decision
<1>1. PICK r : r = [cover[m] EXCEPT !.sharers = s]
  OBVIOUS
<1>2. r = [owner |-> cover[m].owner, decision |-> cover[m].decision, to |-> cover[m].to, sharers |-> s]
  BY <1>1 DEF CoverageRow
<1>3. r \in CoverageRow /\ r.owner = cover[m].owner /\ r.decision = cover[m].decision
  BY <1>2 DEF CoverageRow
<1>4. PICK c : c = [cover EXCEPT ![m] = r]
  OBVIOUS
<1>5. [cover EXCEPT ![m].sharers = s] = c
  BY <1>1, <1>4
<1>6. c \in [Meeting -> CoverageRow] /\ c[m] = r /\ \A n \in Meeting : n # m => c[n] = cover[n]
  BY <1>3, <1>4
<1> QED  BY <1>3, <1>5, <1>6

\* Who relies on another record, and who brings one along
LEMMA Shared ==
    ASSUME NEW c \in [Meeting -> CoverageRow], NEW m, NEW p \in Person
    PROVE  /\ Sharing(c, m, p) \in [Meeting -> CoverageRow]
           /\ \A n \in Meeting : /\ Sharing(c, m, p)[n].owner = c[n].owner
                                 /\ Sharing(c, m, p)[n].decision = c[n].decision
<1>1. CASE m \notin Meeting \/ c[m].owner = p
  BY <1>1 DEF Sharing
<1>2. CASE m \in Meeting /\ c[m].owner # p
  <2>1. PICK s : s = c[m].sharers \union {p}
    OBVIOUS
  <2>2. PICK r : r = [c[m] EXCEPT !.sharers = s]
    OBVIOUS
  <2>3. r = [owner |-> c[m].owner, decision |-> c[m].decision, to |-> c[m].to, sharers |-> s]
    BY <1>2, <2>2 DEF CoverageRow
  <2>4. s \in SUBSET Person
    BY <1>2, <2>1 DEF CoverageRow
  <2>5. r \in CoverageRow /\ r.owner = c[m].owner /\ r.decision = c[m].decision
    BY <1>2, <2>3, <2>4 DEF CoverageRow
  <2>6. Sharing(c, m, p) = [c EXCEPT ![m] = r]
    BY <1>2, <2>1, <2>2 DEF Sharing
  <2> QED  BY <1>2, <2>5, <2>6
<1> QED  BY <1>1, <1>2

LEMMA Handed ==
    ASSUME NEW c \in [Meeting -> CoverageRow], NEW m \in Meeting, NEW n \in Meeting \union {None}, NEW p \in Person \union {None}
    PROVE  /\ HandsOver(c, m, n, p) \in [Meeting -> CoverageRow]
           /\ \A k \in Meeting : k # m => HandsOver(c, m, n, p)[k] = c[k]
           /\ HandsOver(c, m, n, p)[m].owner = c[m].owner
           /\ c[m].owner = p => HandsOver(c, m, n, p)[m].decision = "handed_over"
           /\ c[m].owner # p => HandsOver(c, m, n, p)[m].decision = c[m].decision
<1>1. CASE c[m].owner # p
  BY <1>1 DEF HandsOver
<1>2. CASE c[m].owner = p
  <2>1. PICK r : r = [c[m] EXCEPT !.decision = "handed_over", !.to = n]
    OBVIOUS
  <2>2. r = [owner |-> c[m].owner, decision |-> "handed_over", to |-> n, sharers |-> c[m].sharers]
    BY <2>1 DEF CoverageRow
  <2>3. r \in CoverageRow /\ r.owner = c[m].owner /\ r.decision = "handed_over"
    BY <2>2 DEF CoverageRow
  <2>4. HandsOver(c, m, n, p) = [c EXCEPT ![m] = r]
    BY <1>2, <2>1 DEF HandsOver
  <2> QED  BY <1>2, <2>3, <2>4
<1> QED  BY <1>1, <1>2

\* The routes and time
LEMMA RoutesQuiet ==
    ASSUME CaptureTypes, SchedTypeOK, StartParts,
           \/ \E m \in Meeting : CancelReads(m) \/ Revoke(m) \/ Moves(m) \/ TimePasses(m)
           \/ \E m \in Meeting, p \in Person : ShareReads(m, p) \/ StopSharing(m, p)
           \/ CancelWrites \/ ShareWrites
    PROVE  Quiet /\ SchedTypeOK' /\ StartParts' /\ StaysHome
<1>1. /\ sched \in [Meeting -> ScheduleRow] /\ cover \in [Meeting -> CoverageRow]
      /\ VisitFits /\ OwnersHandOver /\ RowsAreThere
  BY DEF SchedTypeOK, StartParts
<1>2. ASSUME Quiet, sched' = sched, cover' = cover, due' = due, visit' = visit, SchedTypeOK',
             thread'.op = "cancel" => thread'.m \in Meeting /\ Exists(thread'.m)
      PROVE  StartParts' /\ StaysHome
  <2>1. Plans /\ OwnersHandOver' /\ StaysHome
    BY <1>1, <1>2 DEF Plans, OwnersHandOver, StaysHome
  <2>2. VisitFits'
    BY <1>1, <1>2, VisitStays
  <2> QED  BY <1>1, <1>2, <2>1, <2>2, QuietParts DEF RowsAreThere
<1>3. ASSUME NEW m \in Meeting, CancelReads(m) PROVE Quiet /\ SchedTypeOK' /\ StartParts' /\ StaysHome
  <2>1. /\ Quiet /\ sched' = sched /\ cover' = cover /\ due' = due /\ visit' = visit /\ allowed' = allowed
        /\ thread' = [op |-> "cancel", m |-> m, mine |-> {}] /\ Exists(m)
    BY <1>1, <1>3 DEF CancelReads, Quiet, RowsAreThere, None
  <2>2. SchedTypeOK'
    BY <2>1 DEF SchedTypeOK
  <2> QED  BY <1>2, <2>1, <2>2
<1>4. ASSUME NEW m \in Meeting, Revoke(m) PROVE Quiet /\ SchedTypeOK' /\ StartParts' /\ StaysHome
  <2>1. /\ Quiet /\ sched' = sched /\ cover' = cover /\ due' = due /\ visit' = visit /\ thread' = thread
        /\ allowed' \in [Meeting -> BOOLEAN]
    BY <1>4 DEF Revoke, Quiet, SchedTypeOK
  <2>2. SchedTypeOK'
    BY <2>1 DEF SchedTypeOK
  <2> QED  BY <1>1, <1>2, <2>1, <2>2 DEF RowsAreThere
<1>5. ASSUME NEW m \in Meeting, Moves(m) \/ TimePasses(m) PROVE Quiet /\ SchedTypeOK' /\ StartParts' /\ StaysHome
  <2>1. /\ Quiet /\ cover' = cover /\ due' = due /\ visit' = visit /\ thread' = thread /\ allowed' = allowed
        /\ \E phase \in {"future", "due", "late"} : sched' = [sched EXCEPT ![m].phase = phase]
    BY <1>1, <1>5 DEF Moves, TimePasses, Quiet
  <2>2. sched' \in [Meeting -> ScheduleRow] /\ \A n \in Meeting : sched'[n].st = sched[n].st
    BY <1>1, <2>1, PhaseSet
  <2>3. SchedTypeOK' /\ Plans /\ OwnersHandOver' /\ StaysHome
    BY <1>1, <2>1, <2>2 DEF SchedTypeOK, Plans, OwnersHandOver, StaysHome
  <2>4. VisitFits'
    BY <1>1, <2>1, <2>2, VisitStays
  <2> QED  BY <1>1, <2>1, <2>3, <2>4, QuietParts DEF RowsAreThere
<1>6. ASSUME NEW m \in Meeting, NEW p \in Person, ShareReads(m, p)
      PROVE  Quiet /\ SchedTypeOK' /\ StartParts' /\ StaysHome
  <2>1. PICK mine : mine = {n \in SameCall(m) : Owner(n) = p /\ State(n) = "scheduled"}
    OBVIOUS
  <2>2. mine \in SUBSET Meeting
    BY <2>1 DEF SameCall
  <2>3. /\ Quiet /\ sched' = sched /\ cover' = cover /\ due' = due /\ visit' = visit /\ allowed' = allowed
        /\ thread' = [op |-> p, m |-> m, mine |-> mine] /\ Exists(m)
    BY <1>6, <2>1 DEF ShareReads, Quiet
  <2>4. SchedTypeOK'
    BY <2>2, <2>3 DEF SchedTypeOK
  <2> QED  BY <1>2, <2>3, <2>4
<1>7. ASSUME NEW m \in Meeting, NEW p \in Person, StopSharing(m, p)
      PROVE  Quiet /\ SchedTypeOK' /\ StartParts' /\ StaysHome
  <2>1. PICK s : s = cover[m].sharers \ {p}
    OBVIOUS
  <2>2. s \in SUBSET Person
    BY <1>1, <2>1 DEF CoverageRow
  <2>3. /\ Quiet /\ sched' = sched /\ due' = due /\ visit' = visit /\ allowed' = allowed /\ thread' = thread
        /\ cover' = [cover EXCEPT ![m].sharers = s]
    BY <1>7, <2>1 DEF StopSharing, Quiet
  <2>4. /\ cover' \in [Meeting -> CoverageRow]
        /\ \A n \in Meeting : cover'[n].owner = cover[n].owner /\ cover'[n].decision = cover[n].decision
    BY <1>1, <2>2, <2>3, DecisionKept
  <2>5. SchedTypeOK' /\ Plans /\ OwnersHandOver' /\ StaysHome
    BY <1>1, <2>3, <2>4 DEF SchedTypeOK, Plans, OwnersHandOver, StaysHome
  <2>6. VisitFits'
    BY <1>1, <2>3, <2>4, VisitStays
  <2> QED  BY <1>1, <2>3, <2>5, <2>6, QuietParts DEF RowsAreThere
<1>8. CASE CancelWrites
  <2>1. /\ Quiet /\ cover' = cover /\ due' = due /\ visit' = visit /\ allowed' = allowed
        /\ thread' = NoThread /\ sched' = [sched EXCEPT ![thread.m].st = "cancelled"]
        /\ thread.m \in Meeting /\ Exists(thread.m)
    BY <1>1, <1>8 DEF CancelWrites, Quiet, RowsAreThere
  <2>2. PICK m \in Meeting : m = thread.m /\ Exists(m)
    BY <2>1
  <2>3. /\ sched' \in [Meeting -> ScheduleRow] /\ sched'[m].st = "cancelled"
        /\ \A n \in Meeting : n # m => sched'[n] = sched[n]
    BY <1>1, <2>1, <2>2, SchedSet
  <2>4. SchedTypeOK' /\ OwnersHandOver' /\ StaysHome
    BY <1>1, <2>1, <2>3 DEF SchedTypeOK, OwnersHandOver, StaysHome, NoThread
  <2>5. VisitFits'
    BY <1>1, <2>1, <2>3, VisitStays
  <2>6. JoinsApart' /\ CallsAreOver' /\ RowsAreThere'
    BY <1>1, <2>1, <2>2, <2>3 DEF StartParts, JoinsApart, CallsAreOver, Quiet, Open, RowsAreThere, Exists, NoThread, None
  <2>7. RoutesWait'
    <3>1. \A a \in Actor : Open(a) => flow[a].m \in Meeting
      BY DEF CaptureTypes, FlowsAreTyped
    <3> QED  BY <2>1, <2>3, <3>1 DEF StartParts, RoutesWait, Quiet, Open
  <2> QED  BY <2>1, <2>4, <2>5, <2>6, <2>7 DEF StartParts
<1>9. CASE ShareWrites
  <2>0. PICK shared, mine, op, to : /\ shared = Sharing(cover, to, op) /\ mine = thread.mine
                                    /\ op = thread.op /\ to = thread.m
    OBVIOUS
  <2>1. /\ Quiet /\ due' = due /\ visit' = visit /\ allowed' = allowed /\ thread' = NoThread
        /\ op \in Person /\ to \in Meeting \union {None}
        /\ cover' = [n \in Meeting |-> IF n \in mine THEN HandsOver(shared, n, to, op)[n] ELSE shared[n]]
        /\ sched' = [n \in Meeting |-> IF n \in mine THEN Withdraws(sched, n)[n] ELSE sched[n]]
    BY <1>9, <2>0 DEF ShareWrites, Quiet, SchedTypeOK
  <2>2. /\ shared \in [Meeting -> CoverageRow]
        /\ \A n \in Meeting : shared[n].owner = cover[n].owner /\ shared[n].decision = cover[n].decision
    BY <1>1, <2>0, <2>1, Shared
  <2>3. ASSUME NEW n \in Meeting
        PROVE  /\ HandsOver(shared, n, to, op) \in [Meeting -> CoverageRow]
               /\ HandsOver(shared, n, to, op)[n].owner = cover[n].owner
               /\ cover[n].owner = op => HandsOver(shared, n, to, op)[n].decision = "handed_over"
               /\ cover[n].owner # op => HandsOver(shared, n, to, op)[n].decision = cover[n].decision
    <3>1. /\ op \in Person \union {None} /\ to \in Meeting \union {None} /\ shared \in [Meeting -> CoverageRow]
          /\ shared[n].owner = cover[n].owner /\ shared[n].decision = cover[n].decision
      BY <2>1, <2>2
    <3>2. /\ HandsOver(shared, n, to, op) \in [Meeting -> CoverageRow]
          /\ HandsOver(shared, n, to, op)[n].owner = shared[n].owner
          /\ shared[n].owner = op => HandsOver(shared, n, to, op)[n].decision = "handed_over"
          /\ shared[n].owner # op => HandsOver(shared, n, to, op)[n].decision = shared[n].decision
      BY <3>1, Handed
    <3> QED  BY <3>1, <3>2
  <2>4. ASSUME NEW n \in Meeting
        PROVE  Withdraws(sched, n)[n] \in ScheduleRow
               /\ Withdraws(sched, n)[n].st = IF sched[n].st = "pending" THEN "cancelled" ELSE sched[n].st
    <3>1. PICK s : s = [sched EXCEPT ![n].st = "cancelled"]
      OBVIOUS
    <3>2. s[n] \in ScheduleRow /\ s[n].st = "cancelled"
      BY <1>1, <3>1, SchedSet
    <3> QED  BY <1>1, <3>1, <3>2 DEF Withdraws
  <2>5. /\ cover' \in [Meeting -> CoverageRow] /\ sched' \in [Meeting -> ScheduleRow]
        /\ \A n \in Meeting : /\ cover'[n].owner = cover[n].owner
                              /\ cover'[n].decision = cover[n].decision
                                   \/ /\ cover'[n].decision = "handed_over" /\ cover[n].owner = op
                                      /\ sched'[n].st # "pending"
                              /\ sched'[n].st = sched[n].st \/ (sched[n].st = "pending" /\ sched'[n].st = "cancelled")
    <3>1. ASSUME NEW n \in Meeting
          PROVE  /\ cover'[n] \in CoverageRow /\ sched'[n] \in ScheduleRow
                 /\ cover'[n].owner = cover[n].owner
                 /\ cover'[n].decision = cover[n].decision
                      \/ /\ cover'[n].decision = "handed_over" /\ cover[n].owner = op
                         /\ sched'[n].st # "pending"
                 /\ sched'[n].st = sched[n].st \/ (sched[n].st = "pending" /\ sched'[n].st = "cancelled")
      BY <1>1, <2>1, <2>2, <2>3, <2>4
    <3> QED  BY <2>1, <3>1
  <2>6. SchedTypeOK' /\ StaysHome /\ Plans
    BY <1>1, <2>1, <2>5 DEF SchedTypeOK, StaysHome, Plans, NoThread, None
  <2>7. OwnersHandOver'
    BY <1>1, <2>1, <2>5, SchedulingAssumption DEF OwnersHandOver
  <2>8. VisitFits'
    BY <1>1, <2>1, <2>5, VisitStays
  <2> QED  BY <1>1, <2>1, <2>6, <2>7, <2>8, QuietParts DEF RowsAreThere, NoThread, None
<1> QED  BY <1>3, <1>4, <1>5, <1>6, <1>7, <1>8, <1>9

-----------------------------------------------------------------------------
(***************************************************************************)
(* The start of a call: the scheduler                                      *)
(***************************************************************************)
VisitRow == [pc : {"idle", "checking", "claiming", "claimed"}, m : Meeting \union {None}]

\* Rows that are given up, or revoked
LEMMA Given ==
    ASSUME sched \in [Meeting -> ScheduleRow], NEW m \in Meeting, NEW st \in {"missed", "cancelled", "failed"},
           \/ sched' = GivenUp(m, st)
           \/ sched' = [sched EXCEPT ![m].st = st] /\ sched[m].st # None
           \/ sched' = Revoked(m) /\ st = "cancelled"
    PROVE  sched' \in [Meeting -> ScheduleRow] /\ Plans
<1>1. PICK s : s = [sched EXCEPT ![m].st = st]
  OBVIOUS
<1>2. s \in [Meeting -> ScheduleRow] /\ s[m].st = st /\ \A n \in Meeting : n # m => s[n] = sched[n]
  BY <1>1, SchedSet
<1>3. sched' = sched \/ (sched' = s /\ sched[m].st # None)
  BY <1>1 DEF GivenUp, Revoked, None
<1> QED  BY <1>2, <1>3 DEF Plans

\* The end of a visit, or a claim in the same breath as the decision
LEMMA Decided ==
    ASSUME SchedTypeOK, NEW m \in Meeting, Exists(m), ~Open(Scheduler), Quiet, Decides(m), cover' = cover
    PROVE  sched' \in [Meeting -> ScheduleRow] /\ Plans /\ visit' \in VisitRow /\ VisitFits'
<1>1. sched \in [Meeting -> ScheduleRow]
  BY DEF SchedTypeOK
<1>2. NoVisit \in VisitRow /\ NoVisit.pc = "idle"
  BY DEF NoVisit, VisitRow, None
<1>3. CASE visit' = NoVisit /\ \E st \in {"missed", "cancelled"} : sched' = GivenUp(m, st)
  BY <1>1, <1>2, <1>3, Given DEF VisitFits
<1>4. CASE visit' = [pc |-> "claiming", m |-> m] /\ sched' = sched /\ ~StandsAside(m)
  <2>1. Plans /\ visit' \in VisitRow /\ visit'.m = m /\ visit'.pc = "claiming"
    BY <1>4 DEF Plans, VisitRow
  <2>2. cover[m].decision # "handed_over"
    BY <1>4 DEF StandsAside
  <2> QED  BY <1>1, <1>4, <2>1, <2>2 DEF VisitFits, Quiet, Exists, Open
<1> QED  BY <1>3, <1>4 DEF Decides

\* The scheduler asks for the assistant
Sends(m) == /\ m = visit.m /\ visit.pc \in {"claiming", "claimed"} /\ visit' = NoVisit
            /\ JoinAsk(Scheduler, m) /\ sched' = [sched EXCEPT ![m].st = "joining"]
            /\ sched[m].st # None
            /\ UNCHANGED <<cover, allowed, due, thread>>
Paces == Quiet /\ SchedTypeOK' /\ StartParts' /\ StaysHome

LEMMA Schedulers ==
    ASSUME CaptureTypes, SchedTypeOK, StartParts, SchedulerStep
    PROVE  ops' = ops /\ faults' = faults /\ (Paces \/ \E m \in Meeting : Sends(m))
<1>1. /\ sched \in [Meeting -> ScheduleRow] /\ cover \in [Meeting -> CoverageRow]
      /\ visit \in VisitRow /\ allowed \in [Meeting -> BOOLEAN] /\ due \subseteq Meeting
      /\ VisitFits /\ OwnersHandOver /\ RowsAreThere
  BY DEF SchedTypeOK, StartParts, VisitRow
<1>2. NoVisit \in VisitRow /\ NoVisit.pc = "idle"
  BY DEF NoVisit, VisitRow, None
<1>3. /\ UNCHANGED <<ops, faults, cover, allowed, thread>> /\ (due' = due \/ due' \subseteq DueRows \union due)
  BY DEF SchedulerStep, TickStart, VisitBegins, VisitChecked, VisitClaims, VisitJoins, captureVars
<1>4. due' \subseteq Meeting /\ \A m \in due' : Exists(m)
  BY <1>1, <1>3 DEF DueRows, RowsAreThere, None
<1>5. ASSUME Quiet, sched' \in [Meeting -> ScheduleRow], Plans, visit' \in VisitRow, VisitFits'
      PROVE  Paces
  <2>1. SchedTypeOK' /\ StaysHome /\ OwnersHandOver'
    BY <1>1, <1>3, <1>4, <1>5 DEF SchedTypeOK, VisitRow, StaysHome, OwnersHandOver
  <2> QED  BY <1>1, <1>3, <1>4, <1>5, <2>1, QuietParts DEF Paces, RowsAreThere
<1>6. ASSUME Quiet, sched' \in [Meeting -> ScheduleRow], Plans, visit' = NoVisit
      PROVE  Paces
  BY <1>2, <1>5, <1>6 DEF VisitFits
<1>7. ASSUME TickStart PROVE Paces
  <2>1. Quiet /\ sched' = sched /\ visit' = visit /\ visit = NoVisit
    BY <1>7 DEF TickStart, Quiet, captureVars
  <2> QED  BY <1>1, <1>3, <1>6, <2>1 DEF Plans
<1>8. ASSUME NEW m \in Meeting, VisitBegins(m) PROVE Paces
  <2>1. Quiet /\ Exists(m) /\ ~Open(Scheduler) /\ cover' = cover
    BY <1>1, <1>8 DEF VisitBegins, Quiet, captureVars, RowsAreThere, Free, Open
  <2>2. CASE m \in Automated
    <3>1. sched' = sched /\ visit' = [pc |-> "checking", m |-> m]
      BY <1>8, <2>2 DEF VisitBegins
    <3>2. Plans /\ visit' \in VisitRow /\ VisitFits'
      BY <2>1, <3>1 DEF Plans, VisitRow, VisitFits, Quiet, Exists, Open
    <3> QED  BY <1>1, <1>5, <2>1, <3>1, <3>2
  <2>3. CASE m \notin Automated
    <3>1. Decides(m)
      BY <1>8, <2>3 DEF VisitBegins
    <3> QED  BY <1>5, <2>1, <3>1, Decided
  <2> QED  BY <2>2, <2>3
<1>9. ASSUME VisitChecked PROVE Paces
  <2>1. Quiet /\ cover' = cover /\ visit.m \in Meeting /\ Exists(visit.m) /\ ~Open(Scheduler)
    BY <1>1, <1>9 DEF VisitChecked, Quiet, captureVars, VisitFits
  <2>2. PICK m \in Meeting : m = visit.m /\ Exists(m)
    BY <2>1
  <2>3. CASE sched' = Revoked(m) /\ visit' = NoVisit
    BY <1>1, <1>6, <2>1, <2>3, Given
  <2>4. CASE sched' = sched /\ visit' = NoVisit
    BY <1>1, <1>6, <2>1, <2>4 DEF Plans
  <2>5. CASE Decides(m)
    BY <1>5, <2>1, <2>2, <2>5, Decided
  <2> QED  BY <1>9, <2>2, <2>3, <2>4, <2>5 DEF VisitChecked
<1>10. ASSUME VisitClaims PROVE Paces \/ \E m \in Meeting : Sends(m)
  <2>1. visit.pc = "claiming" /\ visit.m \in Meeting /\ Exists(visit.m) /\ ~Open(Scheduler)
    BY <1>1, <1>10 DEF VisitClaims, VisitFits
  <2>2. PICK m \in Meeting : m = visit.m /\ Exists(m)
    BY <2>1
  <2>3. CASE ~MayClaim(m)
    <3>1. Quiet /\ sched' = sched /\ visit' = NoVisit
      BY <1>10, <2>2, <2>3 DEF VisitClaims, Quiet
    <3> QED  BY <1>1, <1>6, <3>1 DEF Plans
  <2>4. CASE MayClaim(m) /\ m \in Automated
    <3>1. Quiet /\ sched' = [sched EXCEPT ![m].st = "joining"] /\ visit' = [visit EXCEPT !.pc = "claimed"]
          /\ sched[m].st = "pending"
      BY <1>10, <2>2, <2>4 DEF VisitClaims, Quiet, MayClaim
    <3>2. /\ sched' \in [Meeting -> ScheduleRow] /\ sched'[m].st = "joining"
          /\ \A n \in Meeting : n # m => sched'[n] = sched[n]
      <4>1. sched' = [sched EXCEPT ![m].st = "joining"]
        BY <3>1
      <4> QED  BY <1>1, <4>1, Claimed
    <3>3. visit' \in VisitRow /\ visit'.pc = "claimed" /\ visit'.m = m
      <4>1. visit' = [pc |-> "claimed", m |-> m]
        BY <1>1, <2>2, <3>1 DEF VisitRow
      <4> QED  BY <4>1 DEF VisitRow
    <3>4. Plans /\ VisitFits'
      BY <2>1, <2>2, <3>1, <3>2, <3>3 DEF Plans, VisitFits, Quiet, Exists, Open
    <3> QED  BY <1>5, <3>1, <3>2, <3>3, <3>4
  <2>5. CASE MayClaim(m) /\ m \notin Automated
    <3>1. SendsIt(m) /\ visit' = NoVisit /\ sched[m].st # None /\ UNCHANGED <<cover, allowed, due, thread>>
      BY <1>10, <2>2, <2>5 DEF VisitClaims, MayClaim, None
    <3>2. CASE MayJoin(m)
      BY <2>1, <2>2, <3>1, <3>2 DEF SendsIt, Sends
    <3>3. CASE ~MayJoin(m)
      <4>1. Quiet /\ sched' = [sched EXCEPT ![m].st = "failed"]
        BY <3>1, <3>3 DEF SendsIt, Quiet
      <4> QED  BY <1>1, <1>6, <3>1, <4>1, Given
    <3> QED  BY <3>2, <3>3
  <2> QED  BY <2>3, <2>4, <2>5
<1>11. ASSUME VisitJoins PROVE Paces \/ \E m \in Meeting : Sends(m)
  <2>1. visit.pc = "claimed" /\ visit.m \in Meeting /\ Exists(visit.m) /\ sched[visit.m].st \in {"joining", "cancelled"}
        /\ visit' = NoVisit
    BY <1>1, <1>11 DEF VisitJoins, VisitFits
  <2>2. PICK m \in Meeting : m = visit.m /\ Exists(m)
    BY <2>1
  <2>3. CASE ~Allows(m)
    <3>1. Quiet /\ sched' = Revoked(m)
      BY <1>11, <2>2, <2>3 DEF VisitJoins, Quiet
    <3> QED  BY <1>1, <1>6, <2>1, <3>1, Given
  <2>4. CASE Allows(m)
    <3>1. SendsIt(m) /\ sched[m].st # None /\ UNCHANGED <<cover, allowed, due, thread>>
      BY <1>11, <2>1, <2>2, <2>4 DEF VisitJoins, None
    <3>2. CASE MayJoin(m)
      BY <2>1, <2>2, <3>1, <3>2 DEF SendsIt, Sends
    <3>3. CASE ~MayJoin(m)
      <4>1. Quiet /\ sched' = [sched EXCEPT ![m].st = "failed"]
        BY <3>1, <3>3 DEF SendsIt, Quiet
      <4> QED  BY <1>1, <1>6, <2>1, <3>1, <4>1, Given
    <3> QED  BY <3>2, <3>3
  <2> QED  BY <2>3, <2>4
<1> QED  BY <1>3, <1>7, <1>8, <1>9, <1>10, <1>11 DEF SchedulerStep

-----------------------------------------------------------------------------
(***************************************************************************)
(* The start of a call: joins begin                                        *)
(***************************************************************************)
\* Nobody is told of a call that no join led to, and no call is scheduled again
CallsGoOn == \A m \in Meeting :
    /\ meet[m].st \in Waits => meet'[m].st \notin {"active", "stopping", "completed"}
    /\ meet'[m].st \in {"created", "failed"} => meet[m].st \notin {"active", "stopping", "completed"}
StartGood == CaptureTypes' /\ Sound' /\ SchedTypeOK' /\ StartParts' /\ StaysHome /\ CallsGoOn

LEMMA PacesGood ==
    ASSUME CaptureTypes, Sound, Marks, Steady, Paces
    PROVE  StartGood
<1>1. UNCHANGED <<meet, text, leave, bot, flow>>
  BY DEF Paces, Quiet
<1>2. CaptureTypes' /\ Calm
  BY <1>1, UnchangedCalm
<1>3. Sound'
  BY <1>2, CalmSound
<1>4. CallsGoOn
  BY <1>1 DEF CallsGoOn, Waits
<1> QED  BY <1>2, <1>3, <1>4 DEF Paces, StartGood

\* A join that begins is the only request about its meeting
LEMMA JoinsBegin ==
    ASSUME CaptureTypes, CaptureTypes', Sound, StartParts, crossed = {}, due \subseteq Meeting,
           NEW a \in Actor, NEW m \in Meeting, Enters(a, m), \A n \in Meeting : n # m => sched'[n] = sched[n],
           a # Scheduler => sched'[m].st \notin {"pending", "joining"},
           due' = due, thread' = thread, OwnersHandOver', VisitFits'
    PROVE  StartParts' /\ CallsGoOn
<1>1. /\ ~Open(a) /\ meet[m].st \in Waits /\ bot' = bot /\ meet'[m].st = "requested"
      /\ flow'[a].pc = "asked" /\ flow'[a].op = "join" /\ flow'[a].m = m
      /\ \A n \in Meeting : n # m => meet'[n] = meet[n]
      /\ \A c \in Actor : c # a => flow'[c] = flow[c]
  BY DEF Enters, Elsewhere
<1>2. \A c \in Actor : Open(c) => flow[c].m \in Meeting /\ flow[c].op = "join"
  BY DEF CaptureTypes, FlowsAreTyped, StartParts, JoinsApart
<1>3. ASSUME NEW c \in Actor, Open(c) PROVE flow[c].m # m
  <2>1. FlowFits(flow[c], meet[m], leave[m].end, bot) \/ flow[c].m # m
    BY <1>3 DEF Sound, RowsFit, MeetingFits
  <2> QED  BY <1>1, <1>2, <1>3, <2>1 DEF FlowFits, JoinFits, Waits
<1>4. JoinsApart'
  BY <1>1, <1>2, <1>3 DEF StartParts, JoinsApart, Open
<1>5. RoutesWait'
  BY <1>1, <1>2, <1>3 DEF StartParts, RoutesWait, Open
<1>6. RowsAreThere'
  BY <1>1 DEF StartParts, RowsAreThere, Exists
<1>7. CallsAreOver'
  BY <1>1 DEF StartParts, CallsAreOver
<1>8. CallsGoOn
  BY <1>1 DEF CallsGoOn, Waits
<1> QED  BY <1>4, <1>5, <1>6, <1>7, <1>8 DEF StartParts

\* The scheduler's join
LEMMA SendsGood ==
    ASSUME CaptureTypes, SchedTypeOK, Sound, Marks, Steady, StartParts, crossed = {},
           NEW m \in Meeting, Sends(m)
    PROVE  StartGood
<1>1. /\ JoinAsk(Scheduler, m) /\ sched[m].st # None /\ Scheduler \in Actor /\ visit' = NoVisit
      /\ sched' = [sched EXCEPT ![m].st = "joining"]
      /\ UNCHANGED <<cover, allowed, due, thread>>
  BY SchedulingAssumption DEF Sends
<1>2. CaptureTypes' /\ Enters(Scheduler, m)
  BY <1>1, JoinAsked
<1>5. sched' \in [Meeting -> ScheduleRow] /\ \A n \in Meeting : n # m => sched'[n] = sched[n]
  BY <1>1, SchedParts, Claimed
<1>7. SchedTypeOK' /\ StaysHome
  BY <1>1, <1>5 DEF SchedTypeOK, StaysHome, NoVisit, None
<1>8. OwnersHandOver' /\ VisitFits'
  BY <1>1 DEF StartParts, OwnersHandOver, VisitFits, NoVisit
<1>9. Sound'
  BY <1>1, <1>2, EntersSound
<1>10. StartParts' /\ CallsGoOn
  BY <1>1, <1>2, <1>5, <1>8, SchedParts, JoinsBegin
<1> QED  BY <1>2, <1>7, <1>9, <1>10 DEF StartGood

\* The routes record whose assistant it is
LEMMA Records ==
    ASSUME SchedTypeOK, OwnersHandOver, NEW m \in Meeting, NEW own \in BOOLEAN,
           cover' = RecordOwner(m, OwnerOf[m], own)
    PROVE  /\ cover' \in [Meeting -> CoverageRow] /\ StaysHome /\ OwnersHandOver'
           /\ \A n \in Meeting : cover'[n].decision = "handed_over" => cover[n].decision = "handed_over"
<1>1. cover \in [Meeting -> CoverageRow] /\ OwnerOf[m] \in Person
  BY SchedParts, SchedulingAssumption
<1>2. PICK p : p = OwnerOf[m]
  OBVIOUS
<1>3. /\ RecordOwner(m, p, own) \in [Meeting -> CoverageRow]
      /\ \A n \in Meeting : n # m => RecordOwner(m, p, own)[n] = cover[n]
      /\ RecordOwner(m, p, own)[m].owner # None
      /\ RecordOwner(m, p, own)[m].decision = "handed_over"
            <=> cover[m].decision = "handed_over" /\ cover[m].owner # None
  BY <1>1, <1>2, OwnerRecorded
<1>4. cover' = RecordOwner(m, p, own)
  BY <1>2
<1> QED  BY <1>3, <1>4 DEF StaysHome, OwnersHandOver

\* create_now() up to its await
LEMMA SentNow ==
    ASSUME CaptureTypes, NEW a \in Actor, NEW m \in Meeting, NEW own \in BOOLEAN, SendNow(a, m, own)
    PROVE  CaptureTypes' /\ Enters(a, m)
<1>1. PICK row : row = [NoMeeting EXCEPT !.st = "requested"]
  OBVIOUS
<1>2. row \in MeetingRow /\ row.cap = NoBot /\ row.st = "requested"
  BY <1>1, RowRequested, RowConstants
<1>3. PICK by : by = IF own THEN "user" ELSE None
  OBVIOUS
<1>4. by \in {None, "user", "auto", "watch", "settle"} /\ 0 \in 0..NotYet
  BY <1>3, CaptureAssumption DEF NotYet
<1>5. /\ Free(a) /\ meet[m].st = "none" /\ Save(m, row) /\ Asks(a, "join", m, row, by, 0)
      /\ UNCHANGED <<text, leave, bot>>
  BY <1>1, <1>3 DEF SendNow, Exists
<1>6. /\ meet' \in [Meeting -> MeetingRow] /\ meet'[m] = row
      /\ \A n \in Meeting : n # m => meet'[n] = meet[n]
  BY <1>2, <1>5, SaveTyped DEF CaptureTypes
<1>7. /\ FlowsAreTyped'
      /\ flow'[a].pc = "asked" /\ flow'[a].op = "join" /\ flow'[a].m = m /\ flow'[a].row = row
      /\ \A c \in Actor : c # a => flow'[c] = flow[c]
  BY <1>2, <1>4, <1>5, AsksTyped DEF CaptureTypes
<1> QED
  BY <1>2, <1>5, <1>6, <1>7 DEF CaptureTypes, Enters, Elsewhere, Free, Open, Waits

LEMMA RoutesGood ==
    ASSUME CaptureTypes, SchedTypeOK, Sound, Marks, Steady, StartParts, crossed = {},
           NEW a \in Actor, a # Scheduler, NEW m \in Meeting, NEW own \in BOOLEAN,
           SendNow(a, m, own) \/ JoinRoute(a, m)
    PROVE  StartGood
<1>1. /\ LoopIsFree /\ UNCHANGED <<sched, allowed, due, visit, thread>>
      /\ \E o \in BOOLEAN : cover' = RecordOwner(m, OwnerOf[m], o)
  BY DEF SendNow, JoinRoute
<1>2. CaptureTypes' /\ Enters(a, m) /\ sched[m].st \notin {"pending", "joining"}
  <2>1. CASE SendNow(a, m, own)
    BY <2>1, SentNow DEF SendNow, StartParts, RowsAreThere, None
  <2>2. CASE JoinRoute(a, m)
    BY <2>2, JoinAsked DEF JoinRoute
  <2> QED  BY <2>1, <2>2
<1>3. cover' \in [Meeting -> CoverageRow] /\ StaysHome /\ OwnersHandOver'
  BY <1>1, Records DEF StartParts
<1>4. SchedTypeOK'
  BY <1>1, <1>3 DEF SchedTypeOK
<1>5. VisitFits'
  <2>1. /\ \A c \in Actor : c # a => flow'[c] = flow[c]
        /\ \A n \in Meeting : Exists(n) => meet'[n].st # "none"
    BY <1>2 DEF Enters, Elsewhere, Exists
  <2> QED  BY <1>1, <2>1, SchedulingAssumption DEF StartParts, VisitFits, Exists, Open, LoopIsFree
<1>6. Sound'
  BY <1>2, EntersSound
<1>7. StartParts' /\ CallsGoOn
  BY <1>1, <1>2, <1>3, <1>5, SchedParts, JoinsBegin
<1> QED  BY <1>2, <1>3, <1>4, <1>6, <1>7 DEF StartGood

\* A meeting that is scheduled
LEMMA ScheduleGood ==
    ASSUME CaptureTypes, SchedTypeOK, Sound, Marks, Steady, StartParts,
           NEW m \in Meeting, NEW own \in BOOLEAN, Schedule(m, own)
    PROVE  StartGood
<1>1. PICK r : r = [NoRow EXCEPT !.st = "pending"]
  OBVIOUS
<1>2. r \in ScheduleRow
  <2>1. r = [st |-> "pending", phase |-> "future"]
    BY <1>1 DEF NoRow
  <2> QED  BY <2>1 DEF ScheduleRow
<1>3. /\ Create(m) /\ sched' = [sched EXCEPT ![m] = r] /\ cover' = RecordOwner(m, OwnerOf[m], own)
      /\ allowed' = [allowed EXCEPT ![m] = TRUE] /\ UNCHANGED <<due, visit, thread>>
  BY <1>1 DEF Schedule
<1>4. CaptureTypes' /\ Creates(m)
  BY <1>3, Created
<1>5. cover' \in [Meeting -> CoverageRow] /\ StaysHome /\ OwnersHandOver'
  BY <1>3, Records DEF StartParts
<1>6. /\ sched' \in [Meeting -> ScheduleRow] /\ \A n \in Meeting : n # m => sched'[n] = sched[n]
  BY <1>2, <1>3, SchedParts
<1>7. SchedTypeOK'
  BY <1>3, <1>5, <1>6 DEF SchedTypeOK
<1>8. /\ meet[m].st = "none" /\ flow' = flow /\ bot' = bot /\ meet'[m].st = "created"
      /\ \A n \in Meeting : n # m => meet'[n] = meet[n]
      /\ \A a \in Actor : flow[a].m # m
  BY <1>4 DEF Creates
<1>9. JoinsApart' /\ CallsAreOver' /\ RowsAreThere'
  BY <1>3, <1>6, <1>8, SchedParts DEF StartParts, JoinsApart, CallsAreOver, RowsAreThere, Open, Exists
<1>10. RoutesWait'
  <2>1. \A a \in Actor : Open(a) => flow[a].m \in Meeting
    BY DEF CaptureTypes, FlowsAreTyped
  <2> QED  BY <1>6, <1>8, <2>1 DEF StartParts, RoutesWait, Open
<1>11. VisitFits'
  <2>1. visit.pc # "idle" => visit.m \in Meeting /\ visit.m # m
    BY <1>8 DEF StartParts, VisitFits, Exists
  <2>2. \A n \in Meeting : n # m => cover'[n] = cover[n]
    <3>1. OwnerOf[m] \in Person
      BY SchedulingAssumption
    <3> QED  BY <1>3, <3>1, OwnerRecorded, SchedParts
  <2> QED  BY <1>3, <1>6, <1>8, <2>1, <2>2 DEF StartParts, VisitFits, Exists, Open
<1>12. CallsGoOn
  BY <1>8 DEF CallsGoOn, Waits
<1>13. Sound'
  BY <1>4, CreatesSound
<1> QED  BY <1>4, <1>5, <1>7, <1>9, <1>10, <1>11, <1>12, <1>13 DEF StartGood, StartParts

-----------------------------------------------------------------------------
(***************************************************************************)
(* The start of a call: joins end                                          *)
(***************************************************************************)
LEMMA JoinsDone ==
    ASSUME CaptureTypes, CaptureTypes', Sound, StartParts, crossed = {}, due \subseteq Meeting,
           NEW a \in Actor, NEW m \in Meeting, HasJoined(a, m),
           \A n \in Meeting : n # m => sched'[n] = sched[n],
           due' = due, thread' = thread, OwnersHandOver', VisitFits'
    PROVE  StartParts' /\ CallsGoOn
<1>1. /\ Open(a) /\ flow[a].op = "join" /\ flow[a].m = m /\ flow'[a].pc = "idle" /\ bot' = bot
      /\ meet'[m].st \in {"requested", "created", "failed"}
      /\ \A n \in Meeting : n # m => meet'[n] = meet[n]
      /\ \A c \in Actor : c # a => flow'[c] = flow[c]
  BY DEF HasJoined, Elsewhere, Open
<1>2. \A c \in Actor : Open(c) => /\ flow[c].m \in Meeting /\ flow[c].op = "join"
                                  /\ c # a => flow[c].m # m
  BY <1>1 DEF CaptureTypes, FlowsAreTyped, StartParts, JoinsApart
<1>3. JoinsApart'
  BY <1>1 DEF StartParts, JoinsApart, Open
<1>4. RoutesWait'
  BY <1>1, <1>2 DEF StartParts, RoutesWait, Open
<1>5. RowsAreThere'
  BY <1>1 DEF StartParts, RowsAreThere, Exists
<1>6. CallsAreOver'
  BY <1>1 DEF StartParts, CallsAreOver
<1>7. meet[m].st = "requested"
  BY <1>1 DEF Sound, RowsFit, MeetingFits, FlowFits, JoinFits
<1>8. CallsGoOn
  BY <1>1, <1>7 DEF CallsGoOn, Waits
<1> QED  BY <1>3, <1>4, <1>5, <1>6, <1>8 DEF StartParts

\* What becomes of the row
LEMMA RowAfterwards ==
    ASSUME sched \in [Meeting -> ScheduleRow], NEW m \in Meeting,
           \/ sched' = sched
           \/ sched' = Row(m, "joined")
           \/ sched' = Row(m, "failed")
           \/ sched' = BackInLine(m)
           \/ sched' = Queued(m)
           \/ sched' = Withdraws(sched, m)
    PROVE  /\ sched' \in [Meeting -> ScheduleRow] /\ \A n \in Meeting : n # m => sched'[n] = sched[n]
           /\ sched' \in {sched, Queued(m), Withdraws(sched, m)} /\ sched[m].st = "cancelled"
                 => sched'[m].st = "cancelled"
<1>1. ASSUME NEW st \in {None, "pending", "joining", "joined", "failed", "cancelled", "missed"},
             sched' = [sched EXCEPT ![m].st = st]
      PROVE  /\ sched' \in [Meeting -> ScheduleRow] /\ sched'[m].st = st
             /\ \A n \in Meeting : n # m => sched'[n] = sched[n]
  BY <1>1, SchedSet
<1>2. CASE sched' = sched
  BY <1>2
<1>3. CASE \E st \in {"joined", "failed"} : sched' = Row(m, st)
  <2>1. PICK st \in {"joined", "failed"} : sched' = Row(m, st)
    BY <1>3
  <2>2. PICK x : x = IF sched[m].st = None THEN None ELSE st
    OBVIOUS
  <2>3. x \in {None, "pending", "joining", "joined", "failed", "cancelled", "missed"}
    BY <2>2
  <2>4. sched' = [sched EXCEPT ![m].st = x]
    BY <2>1, <2>2 DEF Row
  <2>5. sched' \in [Meeting -> ScheduleRow] /\ \A n \in Meeting : n # m => sched'[n] = sched[n]
    BY <1>1, <2>3, <2>4
  <2>6. sched' \in {sched, Queued(m), Withdraws(sched, m)} /\ sched[m].st = "cancelled" => sched'[m].st = "cancelled"
    <3>1. ASSUME sched[m].st = "cancelled", sched' = sched PROVE sched'[m].st = "cancelled"
      BY <3>1
    <3>2. ASSUME sched[m].st = "cancelled" PROVE Queued(m) = sched /\ Withdraws(sched, m) = sched
      BY <3>2 DEF Queued, Withdraws, None
    <3> QED  BY <3>1, <3>2
  <2> QED  BY <2>5, <2>6
<1>4. CASE sched' = BackInLine(m)
  <2>1. sched' = sched \/ (sched' = [sched EXCEPT ![m].st = "pending"] /\ sched[m].st # "cancelled")
    BY <1>4 DEF BackInLine
  <2> QED  BY <1>1, <2>1
<1>5. CASE sched' = Withdraws(sched, m)
  <2>1. sched' = sched \/ (sched' = [sched EXCEPT ![m].st = "cancelled"] /\ sched[m].st # "cancelled")
    BY <1>5 DEF Withdraws
  <2> QED  BY <1>1, <2>1
<1>6. CASE sched' = Queued(m)
  <2>1. CASE sched[m].st = None
    <3>1. PICK r : r = [st |-> "pending", phase |-> "due"]
      OBVIOUS
    <3>2. r \in ScheduleRow
      BY <3>1 DEF ScheduleRow
    <3>3. sched' = [sched EXCEPT ![m] = r]
      BY <1>6, <2>1, <3>1 DEF Queued, None
    <3> QED  BY <2>1, <3>2, <3>3 DEF None
  <2>2. CASE sched[m].st # None
    <3>1. sched' = sched \/ (sched' = [sched EXCEPT ![m].st = "pending"] /\ sched[m].st # "cancelled")
      BY <1>6, <2>2 DEF Queued
    <3> QED  BY <1>1, <3>1
  <2> QED  BY <2>1, <2>2
<1> QED  BY <1>2, <1>3, <1>4, <1>5, <1>6

\* Who relies on the assistant that is there
LEMMA StoodDown ==
    ASSUME SchedTypeOK, OwnersHandOver, NEW m \in Meeting, StandsDown(m)
    PROVE  cover' \in [Meeting -> CoverageRow] /\ StaysHome /\ OwnersHandOver'
<1>1. cover \in [Meeting -> CoverageRow]
  BY SchedParts
<1>2. CASE cover' = cover
  BY <1>1, <1>2 DEF StaysHome, OwnersHandOver
<1>3. ASSUME NEW n \in Live(m), Owner(m) # None,
             cover' = HandsOver(Sharing(cover, n, Owner(m)), m, n, Owner(m))
      PROVE  cover' \in [Meeting -> CoverageRow] /\ StaysHome /\ OwnersHandOver'
  <2>1. n \in Meeting /\ n \in Meeting \union {None}
    BY DEF Live, SameCall
  <2>2. PICK p : p = cover[m].owner
    OBVIOUS
  <2>3. p \in Person /\ p \in Person \union {None} /\ p = Owner(m) /\ p # None
    BY <1>1, <1>3, <2>2 DEF CoverageRow, Owner
  <2>4. PICK c : c = Sharing(cover, n, p)
    OBVIOUS
  <2>5. /\ c \in [Meeting -> CoverageRow]
        /\ \A k \in Meeting : c[k].owner = cover[k].owner /\ c[k].decision = cover[k].decision
    BY <1>1, <2>3, <2>4, Shared
  <2>6. /\ HandsOver(c, m, n, p) \in [Meeting -> CoverageRow]
        /\ \A k \in Meeting : k # m => HandsOver(c, m, n, p)[k] = c[k]
        /\ HandsOver(c, m, n, p)[m].owner = c[m].owner
        /\ c[m].owner = p => HandsOver(c, m, n, p)[m].decision = "handed_over"
    BY <2>1, <2>3, <2>5, Handed
  <2>7. cover' = HandsOver(c, m, n, p)
    BY <1>3, <2>3, <2>4
  <2> QED  BY <1>1, <2>2, <2>3, <2>5, <2>6, <2>7 DEF StaysHome, OwnersHandOver
<1> QED  BY <1>2, <1>3 DEF StandsDown

LEMMA ScheduledJoinGood ==
    ASSUME CaptureTypes, SchedTypeOK, Sound, Marks, Steady, StartParts, crossed = {}, ScheduledJoinEnd
    PROVE  StartGood
<1>1. Scheduler \in Actor /\ JoinEnd(Scheduler) /\ Open(Scheduler) /\ flow[Scheduler].m \in Meeting
  BY SchedulingAssumption DEF ScheduledJoinEnd, JoinEnd, Answered, Open, CaptureTypes, FlowsAreTyped
<1>2. PICK m \in Meeting : m = flow[Scheduler].m
  BY <1>1
<1>3. /\ sched' \in {Row(m, "joined"), Row(m, "failed"), BackInLine(m)}
      /\ StandsDown(m) \/ cover' = cover
      /\ UNCHANGED <<allowed, due, visit, thread>>
  BY <1>2 DEF ScheduledJoinEnd
<1>4. CaptureTypes' /\ HasJoined(Scheduler, m)
  BY <1>1, <1>2, JoinEnded DEF Sound
<1>5. /\ sched' \in [Meeting -> ScheduleRow] /\ \A n \in Meeting : n # m => sched'[n] = sched[n]
  BY <1>3, SchedParts, RowAfterwards
<1>6. cover' \in [Meeting -> CoverageRow] /\ StaysHome /\ OwnersHandOver'
  <2>1. CASE cover' = cover
    BY <2>1, SchedParts DEF StaysHome, StartParts, OwnersHandOver
  <2>2. CASE StandsDown(m)
    BY <2>2, StoodDown DEF StartParts
  <2> QED  BY <1>3, <2>1, <2>2
<1>7. SchedTypeOK'
  BY <1>3, <1>5, <1>6 DEF SchedTypeOK
<1>8. VisitFits'
  BY <1>1, <1>3 DEF StartParts, VisitFits
<1>9. Sound'
  BY <1>1, <1>4, JoinEndSound
<1>10. StartParts' /\ CallsGoOn
  BY <1>1, <1>3, <1>4, <1>5, <1>6, <1>8, SchedParts, JoinsDone
<1> QED  BY <1>4, <1>6, <1>7, <1>9, <1>10 DEF StartGood

LEMMA RequestedJoinGood ==
    ASSUME CaptureTypes, SchedTypeOK, Sound, Marks, Steady, StartParts, crossed = {},
           NEW a \in Actor, RequestedJoinEnd(a)
    PROVE  StartGood
<1>1. a # Scheduler /\ LoopIsFree /\ JoinEnd(a) /\ Open(a) /\ flow[a].m \in Meeting
  BY DEF RequestedJoinEnd, JoinEnd, Answered, Open, CaptureTypes, FlowsAreTyped
<1>2. PICK m \in Meeting : m = flow[a].m
  BY <1>1
<1>3. /\ sched' \in {sched, Queued(m), Withdraws(sched, m)}
      /\ \/ StandsDown(m) \/ cover' = cover
         \/ \E own \in BOOLEAN : cover' = RecordOwner(m, OwnerOf[m], own)
      /\ UNCHANGED <<allowed, due, visit, thread>>
  BY <1>2 DEF RequestedJoinEnd
<1>4. CaptureTypes' /\ HasJoined(a, m)
  BY <1>1, <1>2, JoinEnded DEF Sound
<1>5. /\ sched' \in [Meeting -> ScheduleRow] /\ \A n \in Meeting : n # m => sched'[n] = sched[n]
      /\ sched[m].st = "cancelled" => sched'[m].st = "cancelled"
  BY <1>3, SchedParts, RowAfterwards
<1>6. cover' \in [Meeting -> CoverageRow] /\ StaysHome /\ OwnersHandOver'
  <2>1. CASE cover' = cover
    BY <2>1, SchedParts DEF StaysHome, StartParts, OwnersHandOver
  <2>2. CASE StandsDown(m)
    BY <2>2, StoodDown DEF StartParts
  <2>3. CASE \E own \in BOOLEAN : cover' = RecordOwner(m, OwnerOf[m], own)
    BY <2>3, Records DEF StartParts
  <2> QED  BY <1>3, <2>1, <2>2, <2>3
<1>7. SchedTypeOK'
  BY <1>3, <1>5, <1>6 DEF SchedTypeOK
<1>8. VisitFits'
  <2>1. sched[m].st \notin {"pending", "joining"}
    BY <1>1, <1>2 DEF StartParts, RoutesWait
  <2>2. /\ \A n \in Meeting : Exists(n) => meet'[n].st # "none"
        /\ \A c \in Actor : c # a => flow'[c] = flow[c]
    BY <1>4 DEF HasJoined, Elsewhere, Exists
  <2>3. visit.pc = "claimed" => sched'[visit.m].st \in {"joining", "cancelled"}
    BY <1>5, <2>1 DEF StartParts, VisitFits
  <2> QED  BY <1>1, <1>3, <2>2, <2>3, SchedulingAssumption DEF StartParts, VisitFits, Exists, Open, LoopIsFree
<1>9. Sound'
  BY <1>1, <1>4, JoinEndSound
<1>10. StartParts' /\ CallsGoOn
  BY <1>1, <1>3, <1>4, <1>5, <1>6, <1>8, SchedParts, JoinsDone
<1> QED  BY <1>4, <1>6, <1>7, <1>9, <1>10 DEF StartGood

-----------------------------------------------------------------------------
(***************************************************************************)
(* The start of a call: the service answers, the call goes on              *)
(***************************************************************************)
LEMMA ServedGood ==
    ASSUME CaptureTypes, SchedTypeOK, Sound, Bounded, Marks, StartParts, NEW a \in Actor,
           ServeJoin(a), faults' = 0, UNCHANGED <<meet, text, leave, ops, schedVars>>
    PROVE  StartGood /\ Bounded'
<1>1. /\ CaptureTypes' /\ Sound' /\ Served(a)
      /\ bot' # bot => \E b \in Bot : /\ bot[b].st = "none" /\ bot'[b].m = flow[a].m
                                      /\ \A c \in Bot : c # b => bot'[c] = bot[c]
  BY JoinServed
<1>2. UNCHANGED <<sched, cover, allowed, due, visit, thread, meet>>
  BY DEF schedVars
<1>3. /\ Open(a) /\ flow'[a].pc # "idle" /\ flow'[a].op = flow[a].op /\ flow'[a].m = flow[a].m
      /\ \A c \in Actor : c # a => flow'[c] = flow[c]
  BY <1>1 DEF Served, Open
<1>4. SchedTypeOK' /\ StaysHome /\ CallsGoOn /\ OwnersHandOver'
  BY <1>2 DEF SchedTypeOK, StaysHome, CallsGoOn, Waits, StartParts, OwnersHandOver
<1>5. JoinsApart'
  BY <1>3 DEF StartParts, JoinsApart, Open
<1>6. RoutesWait'
  BY <1>2, <1>3 DEF StartParts, RoutesWait, Open
<1>7. RowsAreThere'
  BY <1>2 DEF StartParts, RowsAreThere, Exists
<1>8. VisitFits'
  BY <1>2, <1>3, SchedulingAssumption DEF StartParts, VisitFits, Exists, Open
<1>9. CallsAreOver'
  <2>1. \A m \in Meeting : meet[m].cap # NoBot => bot'[meet[m].cap] = bot[meet[m].cap]
    BY <1>1 DEF Sound, CapturesAreOwned, IsOf
  <2> QED  BY <1>2, <2>1 DEF StartParts, CallsAreOver
<1>10. Bounded'
  BY CaptureAssumption DEF Bounded
<1> QED  BY <1>1, <1>4, <1>5, <1>6, <1>7, <1>8, <1>9, <1>10 DEF StartGood, StartParts

LEMMA RowGoesOn ==
    ASSUME NEW row \in MeetingRow, NEW st \in {"active", "failed", "completed"}
    PROVE  [row EXCEPT !.st = st] \in MeetingRow /\ [row EXCEPT !.st = st].cap = row.cap
           /\ [row EXCEPT !.st = st].st = st
<1>1. PICK r : r = [row EXCEPT !.st = st]
  OBVIOUS
<1>2. r = [st |-> st, cap |-> row.cap, stop |-> row.stop, seen |-> row.seen]
  BY <1>1 DEF MeetingRow
<1>3. r \in MeetingRow
  BY <1>2 DEF MeetingRow, InCall, Terminal
<1> QED  BY <1>1, <1>2, <1>3

LEMMA CallGoesOnGood ==
    ASSUME CaptureTypes, SchedTypeOK, Sound, Marks, StartParts, crossed = {}, CallGoesOn
    PROVE  StartGood /\ ops' = ops /\ faults' = faults
<1>0. PICK m \in Meeting : \E b, st :
        /\ b = meet[m].cap /\ b # NoBot
        /\ \/ bot[b].st = "joining" /\ st \in {"active", "failed"}
           \/ bot[b].st = "active" /\ st = "completed"
        /\ bot' = [bot EXCEPT ![b].st = st] /\ meet' = [meet EXCEPT ![m].st = st]
        /\ leave' = Finished(m, st)
  BY DEF CallGoesOn, StartOfCall
<1>1. PICK b, st :
        /\ b = meet[m].cap /\ b # NoBot
        /\ \/ bot[b].st = "joining" /\ st \in {"active", "failed"}
           \/ bot[b].st = "active" /\ st = "completed"
        /\ bot' = [bot EXCEPT ![b].st = st] /\ meet' = [meet EXCEPT ![m].st = st]
        /\ leave' = Finished(m, st)
  BY <1>0
<1>2. UNCHANGED <<text, flow, ops, faults, sched, cover, allowed, due, visit, thread>>
  BY DEF CallGoesOn, StartOfCall, schedVars
<1>3. b \in Bot /\ bot[b].m = m /\ bot \in [Bot -> BotRow] /\ st \in {"active", "failed", "completed"}
  BY <1>1 DEF Sound, CapturesAreOwned, IsOf, CaptureTypes, BotRow
<1>4. /\ bot' \in [Bot -> BotRow] /\ Forward(bot, bot')
      /\ bot'[b].m = bot[b].m /\ bot'[b].st = st /\ \A c \in Bot : c # b => bot'[c] = bot[c]
  <2>1. Goes(bot[b].st, st) /\ st \in {"gone"} \union LiveBot \union Terminal
    BY <1>1 DEF Goes, LiveBot, Terminal
  <2> QED  BY <1>1, <1>3, <2>1, BotGoes
<1>5. /\ meet' \in [Meeting -> MeetingRow] /\ meet'[m].st = st /\ meet'[m].cap = b
      /\ \A n \in Meeting : n # m => meet'[n] = meet[n]
  <2>1. PICK row : row = [meet[m] EXCEPT !.st = st]
    OBVIOUS
  <2>2. row \in MeetingRow /\ row.cap = meet[m].cap /\ row.st = st
    <3>1. meet[m] \in MeetingRow
      BY DEF CaptureTypes
    <3> QED  BY <1>3, <2>1, <3>1, RowGoesOn
  <2>3. meet' = [meet EXCEPT ![m] = row]
    BY <1>1, <2>1
  <2> QED  BY <1>1, <2>2, <2>3 DEF CaptureTypes
<1>6. leave' \in [Meeting -> LeaveState] /\ \A n \in Meeting : n # m => leave'[n] = leave[n]
  BY <1>1, EndRecorded DEF Finished, CaptureTypes
<1>7. CaptureTypes'
  <2>1. FlowsAreTyped'
    BY <1>2 DEF CaptureTypes, FlowsAreTyped, Open
  <2>2. text' \in [Meeting -> 0..2]
    BY <1>2 DEF CaptureTypes
  <2> QED  BY <1>4, <1>5, <1>6, <2>1, <2>2 DEF CaptureTypes, BotRow
\* Nobody asks about the meeting, and it was joined
<1>8. RowFits(meet[m], leave[m].end, bot)
  BY DEF Sound, RowsFit, MeetingFits
<1>9. ASSUME NEW c \in Actor, Open(c) PROVE flow[c].m # m
  <2>1. flow[c].op = "join"
    BY <1>9 DEF StartParts, JoinsApart
  <2>2. FlowFits(flow[c], meet[m], leave[m].end, bot) \/ flow[c].m # m
    BY <1>9 DEF Sound, RowsFit, MeetingFits
  <2> QED  BY <1>1, <2>1, <2>2 DEF FlowFits, JoinFits, Dead
<1>10. CallsGoOn
  BY <1>1, <1>5, <1>8 DEF CallsGoOn, Waits, RowFits, Dead, Post, StartParts, CallsAreOver
<1>11. CapturesAreOwned'
  BY <1>2, <1>4, <1>5, <1>1, OwnedKept DEF Sound, OwnedFlow, Alike, Open
<1>12. RowsFit'
  <2>1. MeetingFits(m)'
    <3>1. RowFits(meet'[m], leave'[m].end, bot')
      <4>1. /\ meet'[m].st = st /\ meet'[m].cap = b /\ b # NoBot /\ bot'[b].st = st
            /\ st \in {"active", "failed", "completed"}
        BY <1>1, <1>3, <1>4, <1>5
      <4> QED  BY <4>1 DEF RowFits, Waits, Dead, Post
    <3> QED  BY <1>2, <1>9, <3>1 DEF MeetingFits, Open
  <2>2. \A n \in Meeting : n # m => Undisturbed(n) /\ KeepsFailed(n)
    <3>1. \A n \in Meeting : n # m => KeepsFailed(n)
      BY <1>1, <1>4 DEF KeepsFailed
    <3> QED  BY <1>2, <1>5, <1>6, <3>1, LeftAlone
  <2> QED  BY <1>4, <2>1, <2>2, RowsKept DEF Sound
<1>13. LiveOnesAreKnown'
  <2>1. KeepsJoins /\ Steady
    BY <1>2 DEF KeepsJoins, Alike, Steady
  <2>2. SameLives
    BY <1>1, <1>4 DEF SameLives, Lives
  <2>3. \A c \in Bot : meet[bot[c].m].cap = c => meet'[bot[c].m].cap = c
    <3>1. \A c \in Bot : bot[c].m \in Meeting
      BY DEF CaptureTypes
    <3> QED  BY <1>1, <1>5, <3>1
  <2> QED  BY <1>7, <2>1, <2>2, <2>3, KnownKept DEF Sound
<1>14. SchedTypeOK' /\ StaysHome /\ OwnersHandOver' /\ JoinsApart' /\ RoutesWait'
  BY <1>2 DEF SchedTypeOK, StaysHome, StartParts, OwnersHandOver, JoinsApart, RoutesWait, Open
<1>15. RowsAreThere' /\ VisitFits'
  <2>1. \A n \in Meeting : Exists(n) => meet'[n].st # "none"
    BY <1>3, <1>5 DEF Exists
  <2> QED  BY <1>2, <2>1, SchedParts DEF StartParts, RowsAreThere, VisitFits, Exists, Open
<1>16. CallsAreOver'
  <2>1. ASSUME NEW n \in Meeting, n # m, meet[n].cap # NoBot PROVE bot'[meet[n].cap] = bot[meet[n].cap]
    BY <1>3, <1>4, <2>1 DEF Sound, CapturesAreOwned, IsOf
  <2> QED  BY <1>1, <1>4, <1>5, <2>1 DEF StartParts, CallsAreOver
<1> QED  BY <1>2, <1>7, <1>10, <1>11, <1>12, <1>13, <1>14, <1>15, <1>16 DEF StartGood, StartParts, Sound

-----------------------------------------------------------------------------
(***************************************************************************)
(* The start of a call: every step                                         *)
(***************************************************************************)
LEMMA StartSteps ==
    ASSUME CaptureTypes, SchedTypeOK, Sound, Bounded, StartParts, crossed = {}, Marks, StartNext
    PROVE  StartGood /\ Bounded' /\ side = "start" /\ UNCHANGED <<todo, side>>
<1>0. ops \in Nat /\ StartOps \in 0..MaxOps /\ MaxOps \in Nat
  BY CaptureAssumption, CallsAssumption DEF Bounded
<1>1. side = "start" /\ UNCHANGED <<todo, side>>
  BY DEF StartNext, PeopleAtTheStart, Threads, Schedules, ScheduleJoined, Requests, CallGoesOn, ServesAJoin,
     TimeAtTheStart, StartOfCall
<1>2. ASSUME ops' = ops, faults' = faults PROVE Steady /\ Bounded'
  BY <1>2 DEF Steady, Bounded
<1>3. ASSUME Steady, \/ \E m \in Meeting : CancelReads(m) \/ Revoke(m) \/ Moves(m) \/ TimePasses(m)
                     \/ \E m \in Meeting, p \in Person : ShareReads(m, p) \/ StopSharing(m, p)
                     \/ CancelWrites \/ ShareWrites
      PROVE  StartGood
  BY <1>3, RoutesQuiet, PacesGood DEF Paces
<1>4. CASE PeopleAtTheStart
  <2>1. ops < StartOps /\ ops' = ops + 1 /\ faults' = faults
    BY <1>4 DEF PeopleAtTheStart, StartOfCall, Act
  <2>2. Steady /\ Bounded'
    BY <1>0, <2>1 DEF Steady, Bounded
  <2>3. \/ \E m \in Meeting, own \in BOOLEAN : Schedule(m, own)
        \/ \E r \in Request, m \in Meeting, own \in BOOLEAN : SendNow(r, m, own)
        \/ \E r \in Request, m \in Meeting : JoinRoute(r, m)
        \/ \E m \in Meeting : CancelReads(m) \/ Revoke(m) \/ Moves(m)
        \/ \E m \in Meeting, p \in Person : ShareReads(m, p) \/ StopSharing(m, p)
    BY <1>4 DEF PeopleAtTheStart, StartOfCall, Act
  <2>4. \A r \in Request : r \in Actor /\ r # Scheduler
    BY CallsAssumption
  <2>5. StartGood
    BY <1>3, <2>2, <2>3, <2>4, ScheduleGood, RoutesGood
  <2> QED  BY <1>1, <2>2, <2>5
<1>5. CASE Threads
  <2>1. (CancelWrites \/ ShareWrites) /\ ops' = ops /\ faults' = faults
    BY <1>5 DEF Threads, StartOfCall, CancelWrites, ShareWrites
  <2> QED  BY <1>1, <1>2, <1>3, <2>1
<1>6. CASE Schedules
  <2>1. ops' = ops /\ faults' = faults /\ (Paces \/ \E m \in Meeting : Sends(m))
    BY <1>6, Schedulers DEF Schedules, StartOfCall
  <2> QED  BY <1>1, <1>2, <2>1, PacesGood, SendsGood
<1>7. CASE ScheduleJoined
  <2>1. ScheduledJoinEnd /\ ops' = ops /\ faults' = faults
    BY <1>7 DEF ScheduleJoined, StartOfCall, ScheduledJoinEnd
  <2> QED  BY <1>1, <1>2, <2>1, ScheduledJoinGood
<1>8. CASE Requests
  <2>1. PICK r \in Request : RequestedJoinEnd(r)
    BY <1>8 DEF Requests, StartOfCall
  <2>2. r \in Actor /\ ops' = ops /\ faults' = faults
    BY <2>1, CallsAssumption DEF RequestedJoinEnd
  <2> QED  BY <1>1, <1>2, <2>1, <2>2, RequestedJoinGood
<1>9. CASE CallGoesOn
  BY <1>1, <1>2, <1>9, CallGoesOnGood
<1>10. ASSUME NEW a \in Actor, ServesAJoin(a) PROVE StartGood /\ Bounded'
  <2>1. ServeJoin(a) /\ faults' = 0 /\ UNCHANGED <<meet, text, leave, ops, schedVars>>
    BY <1>10 DEF ServesAJoin, StartOfCall
  <2> QED  BY <2>1, ServedGood
<1>11. ASSUME NEW m \in Meeting, TimeAtTheStart(m) PROVE StartGood /\ Bounded'
  <2>1. TimePasses(m) /\ ops' = ops /\ faults' = faults
    BY <1>11 DEF TimeAtTheStart, StartOfCall, TimePasses
  <2> QED  BY <1>2, <1>3, <2>1
<1> QED  BY <1>1, <1>4, <1>5, <1>6, <1>7, <1>8, <1>9, <1>10, <1>11 DEF StartNext

-----------------------------------------------------------------------------
(***************************************************************************)
(* The invariant                                                           *)
(***************************************************************************)
LEMMA SchedulesBegin ==
    ASSUME NEW T \in SUBSET Meeting, SchedInit(T)
    PROVE  /\ SchedTypeOK
           /\ \A m \in Meeting : sched[m].st = IF m \in T THEN "pending" ELSE None
           /\ \A m \in Meeting : cover[m].decision = None
           /\ due = {} /\ visit.pc = "idle" /\ thread.op = None
<1>1. ASSUME NEW m \in Meeting
      PROVE  /\ sched[m] \in ScheduleRow /\ sched[m].st = IF m \in T THEN "pending" ELSE None
             /\ cover[m] \in CoverageRow /\ cover[m].decision = None
  <2>1. PICK st, own : st = (IF m \in T THEN "pending" ELSE None) /\ own = (IF m \in T THEN OwnerOf[m] ELSE None)
    OBVIOUS
  <2>2. st \in {None, "pending"} /\ own \in Person \union {None}
    BY <2>1, SchedulingAssumption
  <2>3. PICK r, c : r = [NoRow EXCEPT !.st = st] /\ c = [NoCoverage EXCEPT !.owner = own]
    OBVIOUS
  <2>4. r = [st |-> st, phase |-> "future"] /\ c = [owner |-> own, decision |-> None, to |-> None, sharers |-> {}]
    BY <2>3 DEF NoRow, NoCoverage
  <2>5. r \in ScheduleRow /\ r.st = st
    BY <2>2, <2>4 DEF ScheduleRow
  <2>6. c \in CoverageRow /\ c.decision = None
    BY <2>2, <2>4 DEF CoverageRow
  <2>7. sched[m] = r /\ cover[m] = c
    BY <2>1, <2>3 DEF SchedInit
  <2> QED  BY <2>1, <2>5, <2>6, <2>7
<1>2. sched \in [Meeting -> ScheduleRow] /\ cover \in [Meeting -> CoverageRow]
  <2>1. /\ sched = [m \in Meeting |-> sched[m]] /\ cover = [m \in Meeting |-> cover[m]]
    BY DEF SchedInit
  <2> QED  BY <1>1, <2>1
<1>3. allowed \in [Meeting -> BOOLEAN] /\ due = {} /\ visit = NoVisit /\ thread = NoThread
  BY DEF SchedInit
<1> QED  BY <1>1, <1>2, <1>3 DEF SchedTypeOK, NoVisit, NoThread, None

LEMMA CapturesBegin ==
    ASSUME NEW there \in SUBSET Meeting, CaptureInit(there), crossed = {}
    PROVE  /\ CaptureTypes /\ Bounded /\ Sound
           /\ \A m \in Meeting : meet[m].st = IF m \in there THEN "created" ELSE "none"
           /\ \A a \in Actor : ~Open(a)
<1>1. PICK row : row = [NoMeeting EXCEPT !.st = "created"]
  OBVIOUS
<1>2. row \in MeetingRow /\ row.cap = NoBot /\ row.st = "created"
  BY <1>1, RowRequested, RowConstants
<1>3. meet = [m \in Meeting |-> IF m \in there THEN row ELSE NoMeeting]
  BY <1>1 DEF CaptureInit
<1>4. /\ meet \in [Meeting -> MeetingRow]
      /\ \A m \in Meeting : meet[m].st = (IF m \in there THEN "created" ELSE "none") /\ meet[m].cap = NoBot
  BY <1>2, <1>3, RowConstants
<1>5. /\ text \in [Meeting -> 0..2] /\ leave \in [Meeting -> LeaveState] /\ \A m \in Meeting : leave[m].end = None
  BY RowConstants DEF CaptureInit
<1>6. bot \in [Bot -> BotRow] /\ \A b \in Bot : bot[b].st = "none"
  <2>1. (CHOOSE m \in Meeting : TRUE) \in Meeting
    BY CaptureAssumption
  <2>2. PICK n \in Meeting : n = CHOOSE m \in Meeting : TRUE
    BY <2>1
  <2>3. bot = [b \in Bot |-> [m |-> n, st |-> "none", words |-> 0]]
    BY <2>2 DEF CaptureInit
  <2> QED  BY <2>3 DEF BotRow
<1>7. FlowsAreTyped /\ \A a \in Actor : flow[a].pc = "idle"
  BY RowConstants DEF CaptureInit, FlowsAreTyped, Open
<1>8. CaptureTypes /\ Bounded
  <2>1. CaptureTypes
    BY <1>4, <1>5, <1>6, <1>7 DEF CaptureTypes, BotRow
  <2>2. ops = 0 /\ faults = 0
    BY DEF CaptureInit
  <2> QED  BY <2>1, <2>2, CaptureAssumption DEF Bounded
<1>9. CapturesAreOwned /\ LiveOnesAreKnown
  BY <1>4, <1>6, <1>7 DEF CapturesAreOwned, LiveOnesAreKnown, IsOf, Open, CaptureTypes
<1>10. Crossing = {}
  BY <1>7 DEF Crossing, Overlapping, About, Free, Strayed, Answered
<1>11. RowsFit
  BY <1>4, <1>5, <1>7, <1>10 DEF RowsFit, MeetingFits, RowFits, Open
<1> QED  BY <1>4, <1>7, <1>8, <1>9, <1>11 DEF Sound, Open

LEMMA CallsBegin == CallsInit => CallsInv
<1> SUFFICES ASSUME CallsInit PROVE CallsInv
  OBVIOUS
<1>1. PICK there \in SUBSET Meeting : /\ CaptureInit(there) /\ SchedInit(IF side = "end" THEN {} ELSE there)
  BY CallsAssumption DEF CallsInit
<1>2. PICK T : T = IF side = "end" THEN {} ELSE there
  OBVIOUS
<1>3. T \in SUBSET Meeting /\ SchedInit(T)
  BY <1>1, <1>2
<1>4. side \in {"end", "start"} /\ crossed = {} /\ todo = {}
  BY DEF CallsInit, LeaveInit
<1>5. /\ SchedTypeOK
      /\ \A m \in Meeting : sched[m].st = IF m \in T THEN "pending" ELSE None
      /\ \A m \in Meeting : cover[m].decision = None
      /\ due = {} /\ visit.pc = "idle" /\ thread.op = None
  BY <1>3, SchedulesBegin
<1>6. /\ CaptureTypes /\ Bounded /\ Sound
      /\ \A m \in Meeting : meet[m].st = IF m \in there THEN "created" ELSE "none"
      /\ \A a \in Actor : ~Open(a)
  BY <1>1, <1>4, CapturesBegin
<1>7. TypeInv
  BY <1>4, <1>5, <1>6, TypeParts DEF Sides
<1>8. StartInv
  <2> SUFFICES ASSUME side = "start" PROVE StartParts
    BY <1>4 DEF StartInv
  <2>1. T = there
    BY <1>2
  <2>2. JoinsApart /\ RoutesWait /\ OwnersHandOver /\ CallsAreOver /\ VisitFits
    BY <1>5, <1>6 DEF JoinsApart, RoutesWait, OwnersHandOver, CallsAreOver, VisitFits, None
  <2>3. RowsAreThere
    BY <1>5, <1>6, <2>1 DEF RowsAreThere, Exists, None
  <2> QED  BY <2>2, <2>3 DEF StartParts
<1>9. EndInv
  BY <1>2, <1>5 DEF EndInv
<1> QED  BY <1>6, <1>7, <1>8, <1>9 DEF CallsInv, Sound

LEMMA StepsMark ==
    ASSUME CallsNext PROVE Marks
BY DEF CallsNext, EndNext, StartNext, PeopleAtTheEnd, Watches, Assistants, TimeAtTheEnd, Restart, Serves, Answers_,
   PeopleAtTheStart, Threads, Schedules, ScheduleJoined, Requests, CallGoesOn, ServesAJoin, TimeAtTheStart,
   EndOfCall, StartOfCall, Marks

LEMMA InvParts ==
    ASSUME CallsInv
    PROVE  /\ CaptureTypes /\ Bounded /\ SchedTypeOK /\ Sides /\ Sound /\ EndInv
           /\ side = "start" => crossed = {} /\ StartParts
BY TypeParts DEF CallsInv, Sound, StartInv

\* What each step does, on either side
LEMMA Steps ==
    ASSUME CallsInv, CallsNext
    PROVE  /\ CallsInv'
           /\ side = "end" => NoCallByItself /\ UNCHANGED schedVars
           /\ side = "start" => StaysHome /\ CallsGoOn
           /\ side' = side /\ crossed \subseteq crossed'
<1>1. Marks
  BY StepsMark
<1>2. /\ CaptureTypes /\ Bounded /\ SchedTypeOK /\ Sides /\ Sound /\ EndInv
      /\ side = "start" => crossed = {} /\ StartParts
  BY InvParts
<1>3. CASE EndNext
  <2>1. /\ CaptureTypes' /\ Sound' /\ NoCallByItself /\ Bounded' /\ todo' \subseteq Meeting
        /\ side = "end" /\ UNCHANGED <<schedVars, side>>
    BY <1>1, <1>2, <1>3, EndSteps DEF Sides
  <2>2. Sides'
    BY <1>1, <1>2, <2>1 DEF Sides, Marks, Crossing
  <2>3. UNCHANGED <<sched, cover, allowed, due, visit, thread>>
    BY <2>1 DEF schedVars
  <2>4. SchedTypeOK' /\ EndInv'
    BY <1>2, <2>1, <2>3 DEF SchedTypeOK, EndInv
  <2>5. CallsTypeOK' /\ FlowsAreTyped'
    BY <2>1, <2>2, <2>4 DEF CallsTypeOK, CaptureTypeOK, CaptureTypes, Bounded, Sides, FlowsAreTyped, FlowRow
  <2> QED  BY <1>1, <2>1, <2>4, <2>5 DEF CallsInv, TypeInv, Sound, StartInv, Marks
<1>4. CASE StartNext
  <2>1. side = "start"
    BY <1>4 DEF StartNext, PeopleAtTheStart, Threads, Schedules, ScheduleJoined, Requests, CallGoesOn, ServesAJoin,
       TimeAtTheStart, StartOfCall
  <2>2. StartGood /\ Bounded' /\ UNCHANGED <<todo, side>>
    BY <1>1, <1>2, <1>4, <2>1, StartSteps
  <2>3. CaptureTypes' /\ Sound' /\ SchedTypeOK' /\ StartParts' /\ StaysHome /\ CallsGoOn
    BY <2>2 DEF StartGood
  <2>4. \A m \in Meeting : ~Overlapping(m)' /\ ~Strayed(m)'
    BY <2>3 DEF StartParts, JoinsApart, Open, Overlapping, Strayed, About, Free, Answered
  <2>5. Crossing' = {}
    BY <2>4 DEF Crossing
  <2>6. crossed' = {}
    BY <1>1, <1>2, <2>1, <2>5 DEF Marks
  <2>7. Sides'
    BY <1>2, <2>2, <2>6 DEF Sides
  <2>8. CallsTypeOK' /\ FlowsAreTyped'
    BY <2>2, <2>3, <2>7 DEF CallsTypeOK, CaptureTypeOK, CaptureTypes, Bounded, Sides, FlowsAreTyped, FlowRow
  <2>9. EndInv' /\ StartInv'
    BY <2>1, <2>2, <2>3, <2>6 DEF EndInv, StartInv
  <2> QED  BY <1>1, <2>1, <2>2, <2>3, <2>8, <2>9 DEF CallsInv, TypeInv, Sound, Marks
<1> QED  BY <1>3, <1>4 DEF CallsNext

LEMMA CallsInductive == CallsInv /\ [CallsNext]_callVars => CallsInv'
<1>1. CallsInv /\ UNCHANGED callVars => CallsInv'
  <2> SUFFICES ASSUME CallsInv, UNCHANGED callVars PROVE CallsInv'
    OBVIOUS
  <2>1. UNCHANGED <<meet, text, leave, bot, flow, ops, faults, todo, sched, cover, allowed, due, visit, thread,
                    side, crossed>>
    BY DEF callVars, captureVars, schedVars
  <2>2. TypeInv'
    BY <2>1 DEF CallsInv, TypeInv, CallsTypeOK, CaptureTypeOK, SchedTypeOK, FlowsAreTyped, Open
  <2>3. CapturesAreOwned' /\ LiveOnesAreKnown'
    BY <2>1 DEF CallsInv, CapturesAreOwned, LiveOnesAreKnown, Open, JoinOk
  <2>4. RowsFit'
    BY <2>1 DEF CallsInv, RowsFit, MeetingFits, Crossing, Overlapping, About, Free, Strayed, Answered, Open
  <2>5. StartInv' /\ EndInv'
    BY <2>1 DEF CallsInv, StartInv, EndInv, StartParts, JoinsApart, RoutesWait, RowsAreThere, Exists, OwnersHandOver,
       CallsAreOver, VisitFits, Open
  <2> QED  BY <2>2, <2>3, <2>4, <2>5 DEF CallsInv
<1> QED  BY <1>1, Steps

-----------------------------------------------------------------------------
(***************************************************************************)
(* What the invariant gives                                                *)
(***************************************************************************)
LEMMA LiveOnesShow == CallsInv => ListensOpenly
<1> SUFFICES ASSUME CallsInv, NEW b \in Bot, bot[b].st \in {"joining", "active"}, faults = 0, bot[b].m \notin crossed
             PROVE  meet[bot[b].m].st \notin {"none", "created"}
  BY DEF ListensOpenly
<1>1. /\ CaptureTypes /\ Sound /\ bot[b].m \in Meeting /\ b # NoBot
  BY InvParts, CaptureAssumption DEF CaptureTypes
<1>2. MeetingFits(bot[b].m)
  BY <1>1 DEF Sound, RowsFit
<1>3. CASE meet[bot[b].m].cap = b
  BY <1>1, <1>2, <1>3 DEF MeetingFits, RowFits, Waits, Dead
<1>4. ASSUME NEW a \in Actor, JoinOk(a), flow[a].m = bot[b].m PROVE meet[bot[b].m].st = "requested"
  <2>1. FlowFits(flow[a], meet[bot[b].m], leave[bot[b].m].end, bot)
    BY <1>2, <1>4 DEF MeetingFits, JoinOk, Open
  <2> QED  BY <1>4, <2>1 DEF FlowFits, JoinFits, JoinOk
<1> QED  BY <1>1, <1>3, <1>4 DEF Sound, LiveOnesAreKnown

\* Claims: a row with another status is not one
LEMMA NoClaim ==
    ASSUME sched \in [Meeting -> ScheduleRow], NEW m,
           NEW st \in {None, "pending", "joined", "failed", "cancelled", "missed"},
           sched' = [sched EXCEPT ![m].st = st], NEW n \in Meeting, sched[n].st = "pending"
    PROVE  sched'[n].st # "joining"
<1>1. PICK s : s = [sched EXCEPT ![m].st = st]
  OBVIOUS
<1>2. (m \in Meeting => s[m].st = st) /\ \A k \in Meeting : k # m => s[k] = sched[k]
  BY <1>1, SchedSet
<1> QED  BY <1>1, <1>2 DEF None

\* The steps that claim a row: the scheduler's, of the row it decided to join
LEMMA OnlyClaims ==
    ASSUME SchedTypeOK, VisitFits, StartNext, NEW m \in Meeting, sched[m].st = "pending", sched'[m].st = "joining"
    PROVE  visit.pc = "claiming" /\ visit.m = m
<1>1. sched \in [Meeting -> ScheduleRow]
  BY SchedParts
<1>2. sched' # sched
  OBVIOUS
<1>3. ASSUME NEW n, NEW st \in {None, "pending", "joined", "failed", "cancelled", "missed"},
             sched' = [sched EXCEPT ![n].st = st]
      PROVE  FALSE
  BY <1>1, <1>3, NoClaim
<1>4. ASSUME NEW n \in Meeting, NEW phase \in {"future", "due", "late"}, sched' = [sched EXCEPT ![n].phase = phase]
      PROVE  FALSE
  BY <1>1, <1>4, PhaseSet
<1>5. CASE PeopleAtTheStart
  <2>1. ASSUME NEW n \in Meeting, NEW own \in BOOLEAN, Schedule(n, own) PROVE FALSE
    <3>1. PICK r : r = [NoRow EXCEPT !.st = "pending"]
      OBVIOUS
    <3>2. r = [st |-> "pending", phase |-> "future"]
      BY <3>1 DEF NoRow
    <3>3. sched' = [sched EXCEPT ![n] = r]
      BY <2>1, <3>1 DEF Schedule
    <3> QED  BY <1>1, <3>2, <3>3
  <2>2. ASSUME NEW n \in Meeting, Moves(n) PROVE FALSE
    <3>1. \E phase \in {"future", "due", "late"} : sched' = [sched EXCEPT ![n].phase = phase]
      BY <2>2 DEF Moves
    <3> QED  BY <1>4, <3>1
  <2> QED  BY <1>2, <1>5, <2>1, <2>2 DEF PeopleAtTheStart, StartOfCall, Act, SendNow, JoinRoute, CancelReads, Revoke,
           ShareReads, StopSharing
<1>6. CASE Threads
  <2>1. CASE CancelWrites
    <3>1. sched' = [sched EXCEPT ![thread.m].st = "cancelled"]
      BY <2>1 DEF CancelWrites
    <3> QED  BY <1>3, <3>1
  <2>2. CASE ShareWrites
    <3>1. sched'[m] = sched[m] \/ sched'[m] = Withdraws(sched, m)[m]
      BY <2>2 DEF ShareWrites
    <3>2. PICK s : s = [sched EXCEPT ![m].st = "cancelled"]
      OBVIOUS
    <3>3. s[m].st = "cancelled"
      BY <1>1, <3>2, SchedSet
    <3> QED  BY <3>1, <3>2, <3>3 DEF Withdraws
  <2> QED  BY <1>6, <2>1, <2>2 DEF Threads, StartOfCall
<1>7. CASE Schedules
  <2>1. ASSUME NEW n, NEW st \in {"missed", "cancelled"}, sched' = GivenUp(n, st) PROVE FALSE
    BY <1>2, <1>3, <2>1 DEF GivenUp
  <2>2. ASSUME NEW n, sched' = Revoked(n) PROVE FALSE
    BY <1>2, <1>3, <2>2 DEF Revoked
  <2>3. ASSUME NEW n \in Meeting, VisitBegins(n) PROVE FALSE
    BY <1>2, <2>1, <2>3 DEF VisitBegins, Decides
  <2>4. ASSUME VisitChecked PROVE FALSE
    BY <1>2, <2>1, <2>2, <2>4 DEF VisitChecked, Decides
  <2>5. CASE VisitJoins
    <3>1. visit.pc = "claimed" /\ visit.m \in Meeting /\ sched[visit.m].st \in {"joining", "cancelled"}
      BY <2>5 DEF VisitJoins, VisitFits
    <3>2. sched' = Revoked(visit.m) \/ sched' = [sched EXCEPT ![visit.m].st = "failed"]
          \/ sched' = [sched EXCEPT ![visit.m].st = "joining"]
      BY <2>5 DEF VisitJoins, SendsIt
    <3>3. sched' = [sched EXCEPT ![visit.m].st = "joining"]
      BY <1>3, <2>2, <3>2
    <3>4. \A n \in Meeting : n # visit.m => sched'[n] = sched[n]
      BY <1>1, <3>1, <3>3, Claimed
    <3> QED  BY <3>1, <3>4
  <2>6. CASE VisitClaims
    <3>1. visit.pc = "claiming" /\ visit.m \in Meeting
      BY <2>6 DEF VisitClaims, VisitFits
    <3>2. sched' = [sched EXCEPT ![visit.m].st = "failed"] \/ sched' = [sched EXCEPT ![visit.m].st = "joining"]
      BY <1>2, <2>6 DEF VisitClaims, SendsIt
    <3>3. sched' = [sched EXCEPT ![visit.m].st = "joining"]
      BY <1>3, <3>2
    <3>4. \A n \in Meeting : n # visit.m => sched'[n] = sched[n]
      BY <1>1, <3>1, <3>3, Claimed
    <3> QED  BY <3>1, <3>4
  <2> QED  BY <1>2, <1>7, <2>3, <2>4, <2>5, <2>6 DEF Schedules, StartOfCall, SchedulerStep, TickStart
<1>8. CASE ScheduleJoined \/ Requests
  <2>1. PICK n : sched' \in {Row(n, "joined"), Row(n, "failed"), BackInLine(n), Queued(n), Withdraws(sched, n)}
    BY <1>2, <1>8 DEF ScheduleJoined, Requests, StartOfCall, ScheduledJoinEnd, RequestedJoinEnd
  <2>2. ASSUME NEW st \in {"joined", "failed"}, sched' = Row(n, st) PROVE FALSE
    <3>1. PICK x : x = IF sched[n].st = None THEN None ELSE st
      OBVIOUS
    <3>2. x \in {None, "pending", "joined", "failed", "cancelled", "missed"}
      BY <3>1
    <3>3. sched' = [sched EXCEPT ![n].st = x]
      BY <2>2, <3>1 DEF Row
    <3> QED  BY <1>3, <3>2, <3>3
  <2>3. ASSUME sched' = BackInLine(n) \/ sched' = Withdraws(sched, n) PROVE FALSE
    BY <1>2, <1>3, <2>3 DEF BackInLine, Withdraws
  <2>4. ASSUME sched' = Queued(n) PROVE FALSE
    <3>1. \/ sched' = sched \/ sched' = [sched EXCEPT ![n].st = "pending"]
          \/ sched' = [sched EXCEPT ![n] = [st |-> "pending", phase |-> "due"]]
      BY <2>4 DEF Queued, None
    <3> QED  BY <1>1, <1>2, <1>3, <3>1
  <2> QED  BY <2>1, <2>2, <2>3, <2>4
<1>9. CASE CallGoesOn \/ \E a \in Actor : ServesAJoin(a)
  BY <1>2, <1>9 DEF CallGoesOn, ServesAJoin, StartOfCall, schedVars
<1>10. ASSUME NEW n \in Meeting, TimeAtTheStart(n) PROVE FALSE
  <2>1. \E phase \in {"future", "due", "late"} : sched' = [sched EXCEPT ![n].phase = phase]
    BY <1>10 DEF TimeAtTheStart, StartOfCall, TimePasses
  <2> QED  BY <1>4, <2>1
<1> QED  BY <1>5, <1>6, <1>7, <1>8, <1>9, <1>10 DEF StartNext

\* An empty answer takes no words away while the call goes on
LEMMA WordsStored ==
    ASSUME CaptureTypes, NEW a \in Actor, flow[a].pc = "answered", StoresText(a),
           flow[a].ans.kind = "ok" => Save(flow[a].m, Refreshed(a)),
           NEW m \in Meeting, text[m] > 0, meet'[m].st \in InCall
    PROVE  text'[m] > 0
<1>1. flow[a].m \in Meeting /\ flow[a].ans.words \in 0..2 /\ Open(a)
  BY DEF CaptureTypes, FlowsAreTyped, FlowRow, Answer, Open
<1>2. CASE text' = text \/ flow[a].m # m
  BY <1>2 DEF StoresText, CaptureTypes
<1>3. CASE text' # text /\ flow[a].m = m
  <2>1. /\ flow[a].ans.kind = "ok" /\ Replaces(m, Refreshed(a), flow[a].ans.words)
        /\ text' = [text EXCEPT ![m] = flow[a].ans.words]
    BY <1>3 DEF StoresText
  <2>2. meet'[m] = Refreshed(a)
    BY <1>3, <2>1 DEF Save, CaptureTypes
  <2>3. flow[a].ans.words > 0
    BY <2>1, <2>2 DEF Replaces, Keeps
  <2>4. text'[m] = flow[a].ans.words
    BY <2>1 DEF CaptureTypes
  <2> QED  BY <2>3, <2>4
<1> QED  BY <1>2, <1>3

LEMMA WordsKept ==
    ASSUME CaptureTypes, CallsNext, NEW m \in Meeting, text[m] > 0, meet'[m].st \in InCall
    PROVE  text'[m] > 0
<1>1. CASE text' = text
  BY <1>1
<1>2. ASSUME NEW n \in Meeting, Erase(n) PROVE text'[m] > 0
  <2>1. /\ meet'[n].st = "none" /\ \A k \in Meeting : k # n => text'[k] = text[k]
    BY <1>2, RowErased
  <2> QED  BY <2>1 DEF InCall
<1>3. ASSUME NEW n \in Meeting, NEW own, Schedule(n, own) PROVE text'[m] > 0
  <2>1. Creates(n)
    BY <1>3, Created DEF Schedule
  <2>2. meet'[n].st = "created" /\ \A k \in Meeting : k # n => text'[k] = text[k]
    BY <2>1 DEF Creates
  <2> QED  BY <2>2 DEF InCall
<1>4. ASSUME NEW a \in Actor, DeleteEnd(a) PROVE text'[m] > 0
  <2>1. flow[a].m \in Meeting
    BY <1>4 DEF DeleteEnd, Answered, CaptureTypes, FlowsAreTyped, Open
  <2>2. Erase(flow[a].m) \/ text' = text
    BY <1>4 DEF DeleteEnd
  <2> QED  BY <1>1, <1>2, <2>1, <2>2
<1>5. ASSUME NEW a \in Actor, TranscriptEnd(a) PROVE text'[m] > 0
  BY <1>5, WordsStored DEF TranscriptEnd, RefreshSaves, Answered
<1>6. ASSUME WatchdogStep PROVE text'[m] > 0
  <2>1. CASE WatchDecides \/ WatchWarns \/ WatchLeaves
    BY <2>1, LeaveAssumption, WordsStored DEF WatchDecides, WatchWarns, WatchLeaves, RefreshSaves, Answered
  <2>2. CASE PassStart \/ (\E n \in Meeting : WatchBegin(n)) \/ WatchRefreshed \/ WatchStopped \/ Settled
    <3>1. text' = text
      BY <2>2 DEF PassStart, WatchBegin, WatchRefreshed, WatchStopped, Settled, captureVars
    <3> QED  BY <1>1, <3>1
  <2> QED  BY <1>6, <2>1, <2>2 DEF WatchdogStep
<1>7. CASE EndNext
  <2>1. CASE PeopleAtTheEnd
    <3>1. PICK r \in Request, n \in Watched : Asked(r, n) \/ DeleteNow(n)
      BY <2>1 DEF PeopleAtTheEnd, EndOfCall, Act
    <3>2. n \in Meeting /\ (Erase(n) \/ text' = text)
      BY <3>1, CallsAssumption DEF Asked, DeleteNow, JoinAsk, StopAsk, TranscriptAsk, DeleteAsk, RefreshAsk
    <3> QED  BY <1>1, <1>2, <3>2
  <2>2. CASE Watches
    BY <1>6, <2>2 DEF Watches, EndOfCall
  <2>3. ASSUME NEW a \in Request, Answers_(a) PROVE text'[m] > 0
    <3>1. a \in Actor /\ (JoinEnd(a) \/ RefreshEnd(a) \/ StopEnd(a) \/ TranscriptEnd(a) \/ DeleteEnd(a))
      BY <2>3, CallsAssumption DEF Answers_, EndOfCall, Ends
    <3>2. JoinEnd(a) \/ RefreshEnd(a) \/ StopEnd(a) => text' = text
      BY DEF JoinEnd, RefreshEnd, StopEnd
    <3> QED  BY <1>1, <1>4, <1>5, <3>1, <3>2
  <2>4. CASE Assistants \/ TimeAtTheEnd \/ Restart \/ \E a \in Actor : Serves(a)
    <3>1. text' = text
      BY <2>4 DEF Assistants, TimeAtTheEnd, Restart, Serves, EndOfCall, BotMoves, BotForgotten, Tick, Crash, Serve
    <3> QED  BY <1>1, <3>1
  <2> QED  BY <1>7, <2>1, <2>2, <2>3, <2>4 DEF EndNext
<1>8. CASE StartNext
  <2>1. CASE PeopleAtTheStart
    BY <1>1, <1>3, <2>1 DEF PeopleAtTheStart, StartOfCall, Act, SendNow, JoinRoute, JoinAsk, CancelReads, Revoke, Moves,
       ShareReads, StopSharing
  <2>2. CASE Threads \/ Schedules \/ ScheduleJoined \/ Requests \/ CallGoesOn
    <3>1. text' = text
      BY <2>2 DEF Threads, StartOfCall, CancelWrites, ShareWrites, Schedules, SchedulerStep, TickStart, VisitBegins,
         VisitChecked, VisitClaims, VisitJoins, SendsIt, JoinAsk, captureVars, ScheduleJoined, ScheduledJoinEnd,
         Requests, RequestedJoinEnd, JoinEnd, CallGoesOn
    <3> QED  BY <1>1, <3>1
  <2>3. CASE (\E a \in Actor : ServesAJoin(a)) \/ \E n \in Meeting : TimeAtTheStart(n)
    <3>1. text' = text
      BY <2>3 DEF ServesAJoin, TimeAtTheStart, TimePasses, StartOfCall
    <3> QED  BY <1>1, <3>1
  <2> QED  BY <1>8, <2>1, <2>2, <2>3 DEF StartNext
<1> QED  BY <1>7, <1>8 DEF CallsNext

-----------------------------------------------------------------------------
(***************************************************************************)
(* What is told of an assistant follows its published life                 *)
(***************************************************************************)
LEMMA SeenParts ==
    ASSUME NEW s, NEW row, NEW c
    PROVE  /\ Seen(s, row, c) \in {"idle", "scheduled", "joining", "in_call", "ended"}
           /\ c.decision = "handed_over" => Seen(s, row, c) = "idle"
           /\ Seen(s, row, c) = "scheduled" => s \in {"created", "failed"} /\ row.st = "pending"
           /\ Seen(s, row, c) \in {"in_call", "ended"} => s \in {"active", "stopping", "completed"}
           /\ Seen(s, row, c) \in {"idle", "scheduled"} /\ c.decision # "handed_over"
                => s \notin {"requested", "joining", "active", "stopping", "completed"}
<1>1. CASE c.decision = "handed_over"
  <2>1. Seen(s, row, c) = "idle"
    BY <1>1 DEF Seen
  <2> QED  BY <1>1, <2>1
<1>2. CASE c.decision # "handed_over" /\ s = "active"
  <2>1. Seen(s, row, c) = "in_call"
    BY <1>2 DEF Seen, InCall
  <2> QED  BY <1>2, <2>1
<1>3. CASE c.decision # "handed_over" /\ s # "active" /\ (s \in {"requested", "joining"} \/ row.st = "joining")
  <2>1. Seen(s, row, c) = "joining"
    BY <1>3 DEF Seen, InCall, Joining
  <2> QED  BY <1>3, <2>1
<1>4. CASE c.decision # "handed_over" /\ s \notin {"active", "requested", "joining"} /\ row.st # "joining"
  <2>1. Seen(s, row, c) = IF row.st = "pending" /\ s \in {"created", "failed"} THEN "scheduled"
                          ELSE IF s \in {"stopping", "completed"} THEN "ended" ELSE "idle"
    BY <1>4 DEF Seen, InCall, Joining
  <2> QED  BY <1>4, <2>1
<1> QED  BY <1>1, <1>2, <1>3, <1>4

\* The steps AssistantRecord allows
LEMMA Leading ==
    LET Phases == {"idle", "scheduled", "joining", "in_call", "ended"} IN
    /\ Told!Phase = Phases
    /\ \A p, q \in Phases :
          /\ ~(p \in {"idle", "scheduled"} /\ q \in {"in_call", "ended"})
          /\ ~(p \in {"in_call", "ended"} /\ q = "scheduled")
          => q \in {p} \union Told!Leads[p]
BY DEF Told!Phase, Told!Leads

LEMMA ShownInit == CallsInit => Told!Init
<1> SUFFICES ASSUME CallsInit, NEW m \in Meeting
             PROVE  (IF m \in crossed THEN "idle" ELSE State(m)) \in {"idle", "scheduled"}
  BY DEF Told!Init
<1>1. PICK there \in SUBSET Meeting : CaptureInit(there) /\ crossed = {}
  BY CallsAssumption DEF CallsInit
<1>2. meet[m].st \in {"created", "none"}
  BY <1>1, CapturesBegin
<1>3. PICK T \in SUBSET Meeting : SchedInit(T)
  BY CallsAssumption DEF CallsInit
<1>4. sched[m].st \in {"pending", None}
  BY <1>3, SchedulesBegin
<1> QED  BY <1>1, <1>2, <1>4 DEF State, Seen, InCall, Joining, None

LEMMA ShownSteps ==
    ASSUME CallsInv, CallsNext, NEW m \in Meeting
    PROVE  LET p == IF m \in crossed THEN "idle" ELSE State(m)
               q == IF m \in crossed' THEN "idle" ELSE State(m)'
           IN  q \in {p} \union Told!Leads[p] /\ q \in Told!Phase
<1> DEFINE p == IF m \in crossed THEN "idle" ELSE State(m)
           q == IF m \in crossed' THEN "idle" ELSE State(m)'
<1>1. /\ CallsInv' /\ side' = side /\ crossed \subseteq crossed'
      /\ side = "end" => NoCallByItself /\ UNCHANGED schedVars
      /\ side = "start" => StaysHome /\ CallsGoOn
  BY Steps
<1>2. CaptureTypes /\ Sides /\ EndInv
  BY InvParts
<1>3. EndInv'
  BY <1>1 DEF CallsInv
<1>4. /\ State(m) = Seen(meet[m].st, sched[m], cover[m])
      /\ State(m)' = Seen(meet'[m].st, sched'[m], cover'[m])
  BY DEF State
<1>5. State(m) \in {"idle", "scheduled", "joining", "in_call", "ended"}
      /\ State(m)' \in {"idle", "scheduled", "joining", "in_call", "ended"}
  BY <1>4, SeenParts
<1>6. meet[m].st \in Waits \union {"requested", "joining", "active", "stopping", "completed"}
  BY <1>2 DEF CaptureTypes, MeetingRow, Waits, Joining, InCall, Terminal
<1>7. ASSUME m \notin crossed', side = "end"
      PROVE  /\ ~(State(m) \in {"idle", "scheduled"} /\ State(m)' \in {"in_call", "ended"})
             /\ State(m)' # "scheduled"
  <2>1. sched'[m].st = None /\ cover[m].decision = None
    BY <1>1, <1>2, <1>3, <1>7 DEF EndInv
  <2>2. State(m) \in {"idle", "scheduled"} => meet[m].st \in Waits
    BY <1>4, <1>6, <2>1, SeenParts DEF None
  <2>3. meet[m].st \in Waits => meet'[m].st \notin {"active", "stopping", "completed"}
    BY <1>1, <1>7 DEF NoCallByItself
  <2> QED  BY <1>4, <2>1, <2>2, <2>3, SeenParts DEF None
<1>8. ASSUME m \notin crossed', side = "start"
      PROVE  /\ ~(State(m) \in {"idle", "scheduled"} /\ State(m)' \in {"in_call", "ended"})
             /\ ~(State(m) \in {"in_call", "ended"} /\ State(m)' = "scheduled")
  <2>1. /\ cover[m].decision = "handed_over" => cover'[m].decision = "handed_over"
        /\ meet[m].st \in Waits => meet'[m].st \notin {"active", "stopping", "completed"}
        /\ meet'[m].st \in {"created", "failed"} => meet[m].st \notin {"active", "stopping", "completed"}
    BY <1>1, <1>8 DEF StaysHome, CallsGoOn
  <2>2. State(m) \in {"idle", "scheduled"} => meet[m].st \in Waits \/ cover[m].decision = "handed_over"
    BY <1>4, <1>6, SeenParts
  <2> QED  BY <1>4, <2>1, <2>2, SeenParts
<1>9. side \in {"end", "start"}
  BY <1>2 DEF Sides
<1>10. CASE m \in crossed'
  BY <1>5, <1>10, Leading
<1>11. CASE m \notin crossed'
  BY <1>1, <1>5, <1>7, <1>8, <1>9, <1>11, Leading
<1> QED  BY <1>10, <1>11

-----------------------------------------------------------------------------
(***************************************************************************)
(* The theorems                                                            *)
(***************************************************************************)
LEMMA StayingHome ==
    ASSUME CallsInv, CallsNext, NEW m \in Meeting, sched[m].st = "pending", sched'[m].st = "joining"
    PROVE  cover[m].decision # "handed_over"
<1>1. /\ side = "end" => sched' = sched
      /\ side = "start" => StartParts /\ SchedTypeOK
  BY Steps, InvParts DEF schedVars
<1>2. side = "start"
  BY <1>1, InvParts DEF Sides
<1>3. StartNext
  <2>1. ~EndNext
    BY <1>2 DEF EndNext, PeopleAtTheEnd, Watches, Assistants, TimeAtTheEnd, Restart, Serves, Answers_, EndOfCall
  <2> QED  BY <2>1 DEF CallsNext
<1>4. visit.pc = "claiming" /\ visit.m = m
  BY <1>1, <1>2, <1>3, OnlyClaims DEF StartParts
<1> QED  BY <1>1, <1>2, <1>4 DEF StartParts, VisitFits

LEMMA LivesLead == CallsInv /\ CallsNext => Told!Next
<1> SUFFICES ASSUME CallsInv, CallsNext PROVE Told!Next
  OBVIOUS
<1> DEFINE p(m) == IF m \in crossed THEN "idle" ELSE State(m)
           q(m) == IF m \in crossed' THEN "idle" ELSE State(m)'
<1>1. \A m \in Meeting : q(m) \in {p(m)} \union Told!Leads[p(m)] /\ q(m) \in Told!Phase
  BY ShownSteps
<1>2. [m \in Meeting |-> q(m)] \in [Meeting -> Told!Phase]
  BY <1>1
<1>3. \A m \in Meeting : [n \in Meeting |-> q(n)][m] \in {[n \in Meeting |-> p(n)][m]}
                                                      \union Told!Leads[[n \in Meeting |-> p(n)][m]]
  BY <1>1
<1> QED  BY <1>2, <1>3 DEF Told!Next

\* The rows of meetings, requests, captures, joins and decisions keep their
\* types, for any number of them (schemas.py, database.py).
THEOREM CallsAreTyped == CallsSpec => []CallsTypeOK
<1>1. CallsInv => CallsTypeOK
  BY DEF CallsInv, TypeInv
<1> QED  BY <1>1, CallsBegin, CallsInductive, PTL DEF CallsSpec

\* Nobody listens in secret: while an assistant is in a call its meeting is
\* there and does not wait to be joined, unless an answer was lost or requests
\* about the meeting crossed (meeting_service.py: join, refresh, stop, delete).
THEOREM AssistantsListenOpenly == CallsSpec => []ListensOpenly
<1> QED  BY LiveOnesShow, CallsBegin, CallsInductive, PTL DEF CallsSpec

\* The scheduler claims no join of somebody who by then relies on a teammate's
\* assistant, whenever in its pass they decide so (calendar_schedule.py: tick).
THEOREM WhoReliesStaysHome == CallsSpec => HandedOverStaysHome
<1>1. CallsInv /\ [CallsNext]_callVars
        => [\A m \in Meeting : sched[m].st = "pending" /\ sched'[m].st = "joining"
                                => cover[m].decision # "handed_over"]_callVars
  BY StayingHome
<1> QED  BY <1>1, CallsBegin, CallsInductive, PTL DEF CallsSpec, HandedOverStaysHome

\* What was heard of a call is not lost to an empty or older answer while the
\* call goes on (meeting_service.py: transcript and refresh).
THEOREM WordsAreKept == CallsSpec => KeepsItsWords
<1>1. CallsInv /\ [CallsNext]_callVars
        => [\A m \in Meeting : text[m] > 0 /\ meet'[m].st \in InCall => text'[m] > 0]_callVars
  BY InvParts, WordsKept
<1> QED  BY <1>1, CallsBegin, CallsInductive, PTL DEF CallsSpec, KeepsItsWords

\* What teammates are told of an assistant follows the published life
\* (AssistantRecord.state of call_coverage.py): every step of the meetings, the
\* scheduler and the capture service is one of AssistantRecord or changes
\* nothing of it, as long as the requests about the meeting did not cross.
THEOREM AssistantsFollowTheirLife == CallsSpec => FollowsItsLife
<1>1. CallsInv /\ [CallsNext]_callVars
        => [Told!Next]_([m \in Meeting |-> IF m \in crossed THEN "idle" ELSE State(m)])
  <2>1. UNCHANGED callVars => UNCHANGED [m \in Meeting |-> IF m \in crossed THEN "idle" ELSE State(m)]
    <3>1. UNCHANGED callVars => UNCHANGED <<crossed, meet, sched, cover>>
      BY DEF callVars, captureVars, schedVars
    <3> QED  BY <3>1 DEF State
  <2> QED  BY <2>1, LivesLead
<1> QED  BY <1>1, ShownInit, CallsBegin, CallsInductive, PTL DEF CallsSpec, FollowsItsLife, Told!Spec

=============================================================================
