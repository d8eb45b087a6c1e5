--------------------------- MODULE AutomaticLeave ---------------------------
(***************************************************************************)
(* The watchdog that makes the assistant leave and the meeting end         *)
(* (leave_watchdog.py, leave_service.py, leave_store.py): one pass after    *)
(* another over the meetings in a call or leaving, each meeting in turn.    *)
(* When a leave is due is the subject of LeaveTimer; here a heads-up comes  *)
(* before it, and both may come at any pass.                                *)
(***************************************************************************)
EXTENDS MeetingCapture

CONSTANTS Watchdog,     \* the actor that is the watchdog
          Stuck         \* STUCK_AFTER, an age

ASSUME LeaveAssumption == Watchdog \in Actor /\ Stuck \in 0..GiveUp

VARIABLE todo           \* the meetings the pass has still to visit

-----------------------------------------------------------------------------
(***************************************************************************)
(* Plausible bugs, see PROJECT.json                                        *)
(***************************************************************************)
WatchesCallsOnly      == {m \in Meeting : meet[m].st \in InCall /\ meet[m].cap # NoBot}
LosesItsPatience(n)   == n > GiveUp

-----------------------------------------------------------------------------
\* _candidates()
Candidates == {m \in Meeting : /\ meet[m].st \in InCall \union {"stopping"}
                               /\ meet[m].cap # NoBot}

PassStart ==
    /\ todo = {} /\ Free(Watchdog) /\ Candidates # {}
    /\ todo' = Candidates
    /\ UNCHANGED captureVars

\* _settle(): since stopped_at, else since the end that was recorded
Waited(m) == IF meet[m].stop # NotYet THEN meet[m].stop ELSE leave[m].at

Leaves(m) == meet[m].st = "stopping" \/ leave[m].end # None

\* process() until its first await; a meeting deleted or never captured is logged
WatchBegin(m) ==
    /\ m \in todo /\ Free(Watchdog)
    /\ todo' = todo \ {m}
    /\ IF Exists(m) /\ meet[m].cap # NoBot
       THEN IF Leaves(m) THEN Asks(Watchdog, "refresh", m, meet[m], "settle", Waited(m))
                         ELSE Asks(Watchdog, "refresh", m, meet[m], "watch", meet[m].seen)
       ELSE UNCHANGED flow
    /\ UNCHANGED <<meet, text, leave, bot, ops, faults>>

Patience(n) == n >= GiveUp /\ n # NotYet

\* _close(): mark_completed() and the reason, unless one is recorded already
Close(m, who) == /\ meet' = MarkCompleted(m)
                 /\ leave' = RecordEnd(m, who)

\* process() after refresh(): on to the transcript; a capture lost long ago is closed
WatchRefreshed ==
    /\ Answered(Watchdog, "refresh") /\ flow[Watchdog].by = "watch"
    /\ LET m == flow[Watchdog].m IN
        \/ /\ flow[Watchdog].ans.kind = "ok" /\ RefreshSaves(Watchdog)
           /\ IF Reported(Watchdog) \in InCall
              THEN Asks(Watchdog, "transcript", m, Refreshed(Watchdog), "watch", 0)
              ELSE Done(Watchdog)
        \/ /\ flow[Watchdog].ans.kind # "ok" /\ Done(Watchdog)
           /\ IF /\ flow[Watchdog].ans.kind = "e404" /\ flow[Watchdog].row.st \in InCall
                 /\ Patience(flow[Watchdog].waited) /\ Exists(m)
              THEN Close(m, "auto")
              ELSE UNCHANGED <<meet, leave>>
    /\ UNCHANGED <<text, bot, ops, faults, todo>>

\* decide(): leave only when the heads-up for it went out
MayLeave(m) == leave[m].warned

\* process() after transcript(): stay, warn or ask the assistant to leave
WatchDecides ==
    /\ Answered(Watchdog, "transcript")
    /\ RefreshSaves(Watchdog) /\ StoresText(Watchdog) /\ Done(Watchdog)
    /\ UNCHANGED <<bot, ops, faults, todo>>

WatchWarns ==
    /\ Answered(Watchdog, "transcript") /\ flow[Watchdog].ans.kind = "ok"
    /\ Reported(Watchdog) \in InCall
    /\ LET m == flow[Watchdog].m IN
        /\ Save(m, Refreshed(Watchdog))
        /\ leave' = [leave EXCEPT ![m].warned = TRUE]
    /\ StoresText(Watchdog) /\ Done(Watchdog)
    /\ UNCHANGED <<bot, ops, faults, todo>>

WatchLeaves ==
    /\ Answered(Watchdog, "transcript") /\ flow[Watchdog].ans.kind = "ok"
    /\ Reported(Watchdog) \in InCall
    /\ LET m == flow[Watchdog].m IN
        /\ MayLeave(m) /\ ~leave[m].backoff
        /\ Save(m, Refreshed(Watchdog))
        /\ Asks(Watchdog, "stop", m, Refreshed(Watchdog), "auto", 0)
    /\ StoresText(Watchdog)
    /\ UNCHANGED <<leave, bot, ops, faults, todo>>

\* _leave() after stop(): a failure is retried by a later pass
WatchStopped ==
    /\ Answered(Watchdog, "stop") /\ Done(Watchdog)
    /\ LET m == flow[Watchdog].m IN
        IF StopAccepted(Watchdog)
        THEN /\ Save(m, StoppedRow(Watchdog))
             /\ leave' = RecordEnd(m, "auto")
        ELSE /\ leave' = [leave EXCEPT ![m].backoff = TRUE]
             /\ UNCHANGED meet
    /\ UNCHANGED <<text, bot, ops, faults, todo>>

\* _settle() after refresh()
Settled ==
    /\ Answered(Watchdog, "refresh") /\ flow[Watchdog].by = "settle" /\ Done(Watchdog)
    /\ LET m == flow[Watchdog].m
           ok == flow[Watchdog].ans.kind = "ok"
           lost == flow[Watchdog].ans.kind = "e404" /\ flow[Watchdog].waited \in Stuck..GiveUp
           late == ok /\ Reported(Watchdog) \notin Terminal /\ Patience(flow[Watchdog].waited)
       IN CASE late -> /\ Save(m, Closed(Refreshed(Watchdog)))
                       /\ leave' = RecordEnd(m, "vexa")
            [] lost /\ Exists(m) -> Close(m, "vexa")
            [] OTHER -> RefreshSaves(Watchdog)
    /\ UNCHANGED <<text, bot, ops, faults, todo>>

WatchdogStep ==
    \/ PassStart
    \/ \E m \in Meeting : WatchBegin(m)
    \/ WatchRefreshed \/ WatchDecides \/ WatchWarns \/ WatchLeaves \/ WatchStopped \/ Settled

LeaveInit == todo = {}

=============================================================================
