------------------------------- MODULE Calls -------------------------------
(***************************************************************************)
(* Meetings with everything that acts on them.  The state space is looked   *)
(* at from two sides that share the capture component: the end of a call    *)
(* (people, the watchdog, late answers) and its start (people, teammates,   *)
(* the scheduler).                                                         *)
(***************************************************************************)
EXTENDS AutomaticLeave, CallScheduling

CONSTANTS Request,     \* the actors that are requests of people
          Watched,     \* the meetings the first side looks at
          StartOps     \* bound: things people do at the start

ASSUME CallsAssumption ==
    /\ Request \subseteq Actor \ {Watchdog, Scheduler} /\ Watched \subseteq Meeting
    /\ StartOps \in 0..MaxOps

VARIABLES side,
          crossed      \* history: meetings whose requests crossed, or met another's assistant

callVars == <<captureVars, todo, schedVars, side, crossed>>

\* A join or an erasure awaits the service while another request holds a copy of the row
About(m) == {a \in Actor : ~Free(a) /\ flow[a].m = m}
Overlapping(m) == \E a, c \in About(m) : a # c /\ flow[a].op \in {"join", "delete"}

\* stop() names the call, not the capture: another meeting's assistant was asked to leave
Strayed(m) == \E a \in Actor : /\ flow[a].m = m /\ Answered(a, "stop") /\ flow[a].ans.kind = "ok"
                               /\ bot[flow[a].row.cap].st \notin {"stopping", "completed"}

Crossing == {m \in Meeting : Overlapping(m) \/ Strayed(m)}

CallsInit ==
    /\ side \in {"end", "start"} /\ LeaveInit /\ crossed = {}
    /\ \E there \in {Watched, Meeting} :
        /\ side = "end" => there = Watched
        /\ CaptureInit(there) /\ SchedInit(IF side = "end" THEN {} ELSE there)

CallsTypeOK ==
    /\ CaptureTypeOK /\ SchedTypeOK
    /\ todo \subseteq Meeting /\ side \in {"end", "start"} /\ crossed \subseteq Meeting

\* Things people do are bounded
Act(n, A) == ops < n /\ A /\ ops' = ops + 1 /\ UNCHANGED faults

-----------------------------------------------------------------------------
(***************************************************************************)
(* The end of a call                                                       *)
(***************************************************************************)
EndOfCall(A) == side = "end" /\ A /\ crossed' = crossed \union Crossing' /\ UNCHANGED <<schedVars, side>>

Asked(r, m) == \/ JoinAsk(r, m) \/ StopAsk(r, m, "user")
               \/ TranscriptAsk(r, m) \/ DeleteAsk(r, m)
               \/ RefreshAsk(r, m) /\ meet[m].st # "completed"

PeopleAtTheEnd ==
    EndOfCall(/\ Act(MaxOps, \E r \in Request, m \in Watched : Asked(r, m) \/ DeleteNow(m))
              /\ UNCHANGED todo)

Answers_(r)  == EndOfCall((JoinEnd(r) \/ Ends(r)) /\ UNCHANGED <<ops, faults, todo>>)
Watches      == EndOfCall(WatchdogStep)
Serves(a)    == EndOfCall(Serve(a) /\ UNCHANGED todo)
Assistants   == EndOfCall((\E b \in Bot : BotMoves(b) \/ BotForgotten(b)) /\ UNCHANGED todo)
TimeAtTheEnd == EndOfCall(Tick /\ UNCHANGED todo)
Restart      == EndOfCall(Crash /\ todo' = {})

-----------------------------------------------------------------------------
(***************************************************************************)
(* The start of a call                                                     *)
(***************************************************************************)
StartOfCall(A) == side = "start" /\ A /\ crossed' = crossed \union Crossing' /\ UNCHANGED <<todo, side>>

PeopleAtTheStart ==
    StartOfCall(Act(StartOps,
        \/ \E m \in Meeting, own \in BOOLEAN : Schedule(m, own)
        \/ \E r \in Request, m \in Meeting, own \in BOOLEAN : SendNow(r, m, own)
        \/ \E r \in Request, m \in Meeting : JoinRoute(r, m)
        \/ \E m \in Meeting : CancelReads(m) \/ Revoke(m) \/ Moves(m)
        \/ \E m \in Meeting, p \in Person : ShareReads(m, p) \/ StopSharing(m, p)))

Threads == StartOfCall(CancelWrites \/ ShareWrites)

SchedulerStep == TickStart \/ (\E m \in Meeting : VisitBegins(m))
                 \/ VisitChecked \/ VisitClaims \/ VisitJoins
Schedules == StartOfCall(SchedulerStep)
ScheduleJoined == StartOfCall(ScheduledJoinEnd)

Requests == StartOfCall(\E r \in Request : RequestedJoinEnd(r))

\* Here the service loses no answer: what it loses is the other side's subject
ServesAJoin(a) == StartOfCall(/\ ServeJoin(a) /\ faults' = 0
                              /\ UNCHANGED <<meet, text, leave, ops, schedVars>>)

\* The assistant gets in, fails or is done, and an open page refreshes its
\* meeting (get()): here the answer is never late
CallGoesOn == StartOfCall(\E m \in Meeting :
            LET b == meet[m].cap IN
            /\ LoopIsFree /\ b # NoBot /\ bot[b].st \in {"joining", "active"}
            /\ \E st \in IF bot[b].st = "joining" THEN {"active", "failed"} ELSE {"completed"} :
                /\ bot' = [bot EXCEPT ![b].st = st]
                /\ meet' = [meet EXCEPT ![m].st = st]
                /\ leave' = Finished(m, st)
            /\ UNCHANGED <<text, flow, ops, faults, schedVars>>)

TimeAtTheStart(m) == StartOfCall(TimePasses(m))

-----------------------------------------------------------------------------
EndNext   == \/ PeopleAtTheEnd \/ Watches \/ Assistants \/ TimeAtTheEnd \/ Restart
             \/ \E a \in Actor : Serves(a) \/ (a \in Request /\ Answers_(a))
StartNext == \/ PeopleAtTheStart \/ Threads \/ Schedules \/ ScheduleJoined \/ Requests
             \/ CallGoesOn
             \/ \E a \in Actor : ServesAJoin(a)
             \/ \E m \in Meeting : TimeAtTheStart(m)
CallsNext == EndNext \/ StartNext


\* The background loops go on, the service answers them, time passes.  A loop
\* that awaits the service takes no step, so one condition serves for both
Fairness ==
    /\ WF_callVars(Watches \/ Serves(Watchdog)) /\ WF_callVars(TimeAtTheEnd)
    /\ WF_callVars(Schedules \/ ServesAJoin(Scheduler) \/ ScheduleJoined)
    /\ \A m \in Meeting : WF_callVars(TimeAtTheStart(m))

CallsSpec == CallsInit /\ [][CallsNext]_callVars /\ Fairness

-----------------------------------------------------------------------------
(***************************************************************************)
(* Properties                                                              *)
(***************************************************************************)
\* A call that was asked to end does end: whatever a late answer saves over
\* the row meanwhile, the watchdog closes it within its patience
EndConverges ==
    \A m \in Watched :
        (side = "end" /\ leave[m].end # None /\ m \in Candidates)
            ~> (m \notin Candidates \/ leave[m].end = None)

\* A scheduled join whose time has come is joined, failed, missed or
\* withdrawn, however often every assistant is busy, or it was moved
DueJoinSettles ==
    \A m \in Meeting :
        (m \in DueRows) ~> (sched[m].st \notin {"pending", "joining"} \/ sched[m].phase = "future")

\* No call is left half way: what was asked to end ends, what was due to be
\* joined is settled, though every answer may be late, lost or "busy"
CallsSettle == EndConverges /\ DueJoinSettles

\* The scheduler never claims the join of somebody who relies on a teammate's
\* assistant by then, at whatever point of its pass they decided so
HandedOverStaysHome ==
    [][\A m \in Meeting :
        sched[m].st = "pending" /\ sched'[m].st = "joining" => cover[m].decision # "handed_over"]_callVars

\* Nobody listens in secret: while an assistant is in a call, its meeting is
\* there and not one that waits to be joined, unless an answer was lost or
\* requests about the meeting crossed
ListensOpenly ==
    \A b \in Bot : bot[b].st \in {"joining", "active"} /\ faults = 0 /\ bot[b].m \notin crossed
                    => meet[bot[b].m].st \notin {"none", "created"}

\* What was heard of a call is not lost to an empty answer while it goes on
KeepsItsWords ==
    [][\A m \in Meeting : text[m] > 0 /\ meet'[m].st \in InCall => text'[m] > 0]_callVars

\* What teammates are told of an assistant follows its published life, as long
\* as the requests about the meeting did not cross
Told == INSTANCE AssistantRecord
            WITH Record <- Meeting, doing <- [m \in Meeting |-> IF m \in crossed THEN "idle" ELSE State(m)]
FollowsItsLife == Told!Spec

\* The watchdog gives up on "leaving (we asked it to leave, or STOPPING)": a
\* call its assistant is in is marked over only after somebody ended it
EndsWhatWasEnded ==
    [][\A m \in Meeting :
        /\ meet[m].st \in InCall /\ meet'[m].st = "completed"
        /\ Known(meet[m].cap) /\ bot'[meet[m].cap].st = "active"
        => leave[m].end \in {"user", "auto"}]_callVars

=============================================================================
