--------------------------- MODULE CallScheduling ---------------------------
(***************************************************************************)
(* Scheduled joins and the people who bring assistants to the same call     *)
(* (calendar_schedule.py, call_coordination.py, call_coverage.py).  The     *)
(* scheduler is one background loop; every pass reads the due rows, and for *)
(* each of them awaits the calendar (meetings that calendar automation      *)
(* scheduled), claims the row and awaits the join.  Meetings with one link  *)
(* are records of one call: their windows overlap.                          *)
(***************************************************************************)
EXTENDS MeetingCapture

CONSTANTS Person,
          OwnerOf,      \* [Meeting -> Person]: who brings which record
          Automated,    \* meetings that calendar automation scheduled
          Earlier,      \* {<<m, n>>}: m starts before n, or was created before it
          Scheduler     \* the actor that runs tick()

ASSUME SchedulingAssumption ==
    /\ None \notin Person /\ OwnerOf \in [Meeting -> Person] /\ Automated \subseteq Meeting
    /\ Earlier \subseteq Meeting \X Meeting /\ Scheduler \in Actor

VARIABLES sched,    \* calendar_schedules row: [st, phase]
          cover,    \* meeting_coverage rows: [owner, decision, to, sharers]
          allowed,  \* [Meeting -> BOOLEAN]: what allow_join() finds out
          due,      \* the rows the pass has still to visit
          visit,    \* where the pass is: [pc, m]
          thread    \* a cancel or share route between its read and its write

schedVars == <<sched, cover, allowed, due, visit, thread>>

\* phase: before the start, within ten minutes of it, after that
ScheduleRow == [st : {None, "pending", "joining", "joined", "failed", "cancelled", "missed"},
                phase : {"future", "due", "late"}]
NoRow == [st |-> None, phase |-> "future"]
CoverageRow == [owner : Person \union {None}, decision : {None, "own", "handed_over"},
                to : Meeting \union {None}, sharers : SUBSET Person]
NoCoverage == [owner |-> None, decision |-> None, to |-> None, sharers |-> {}]

SameCall(m) == {n \in Meeting \ {m} : LinkOf[n] = LinkOf[m] /\ Exists(n)}

-----------------------------------------------------------------------------
(***************************************************************************)
(* Plausible bugs, see PROJECT.json                                        *)
(***************************************************************************)
StaysClaimed(m)      == sched
AnotherStatus(m)     == [sched EXCEPT ![m].st = "queued"]
KeepsItsJoin(s, m)   == s
ForgetsTheWaiting(s, row, c) ==
    IF c.decision = "handed_over" THEN "idle"
    ELSE IF s \in InCall THEN "in_call"
    ELSE IF s = "requested" \/ row.st = "joining" THEN "joining"
    ELSE IF row.st = "pending" /\ s \in {"created", "failed"} THEN "scheduled"
    ELSE IF s \in {"stopping", "completed"} THEN "ended" ELSE "idle"

-----------------------------------------------------------------------------
(***************************************************************************)
(* What everybody sees of an assistant (AssistantRecord)                   *)
(***************************************************************************)
Owner(m) == cover[m].owner

\* AssistantRecord.state
Seen(s, row, c) ==
    IF c.decision = "handed_over" THEN "idle"
    ELSE IF s \in InCall THEN "in_call"
    ELSE IF s \in Joining \/ row.st = "joining" THEN "joining"
    ELSE IF row.st = "pending" /\ s \in {"created", "failed"} THEN "scheduled"
    ELSE IF s \in {"stopping", "completed"} THEN "ended" ELSE "idle"
State(m) == Seen(meet[m].st, sched[m], cover[m])
Active == {"scheduled", "joining", "in_call"}

\* same_call_records()
Others(m)   == {n \in SameCall(m) : State(n) \in Active /\ Owner(n) # Owner(m)}
Twins(m)    == {n \in SameCall(m) : Owner(n) = Owner(m)}
GoesAhead(m) == {n \in Twins(m) : \/ State(n) \in {"joining", "in_call"}
                                  \/ State(n) = "scheduled" /\ <<n, m>> \in Earlier}

\* _join_guard(): handed over, or another record of this person goes
StandsAside(m) == cover[m].decision = "handed_over" \/ GoesAhead(m) # {}

\* _record_owner(): the first one stays the owner
RecordOwner(m, p, own) ==
    IF cover[m].owner # None
    THEN IF own /\ cover[m].owner = p /\ cover[m].decision # "handed_over"
         THEN [cover EXCEPT ![m].decision = "own"] ELSE cover
    ELSE [cover EXCEPT ![m] = [NoCoverage EXCEPT !.owner = p,
                                   !.decision = IF own THEN "own" ELSE None,
                                   !.sharers = cover[m].sharers \ {p}]]

\* _save_sharing(): an owner stays an owner
Sharing(c, m, p) == IF c[m].owner = p THEN c ELSE [c EXCEPT ![m].sharers = @ \union {p}]

\* _hand_over() of the coverage row, _hand_over() of the schedule row
HandsOver(c, m, n, p) ==
    IF c[m].owner = p THEN [c EXCEPT ![m].decision = "handed_over", ![m].to = n] ELSE c
Withdraws(s, m) == IF s[m].st = "pending" THEN [s EXCEPT ![m].st = "cancelled"] ELSE s

NoVisit == [pc |-> "idle", m |-> None]

\* Between a decision and its claim nothing else of the event loop runs
LoopIsFree == visit.pc # "claiming"

-----------------------------------------------------------------------------
(***************************************************************************)
(* People                                                                  *)
(***************************************************************************)
\* _assert_not_imported(): one record per call, or one more on purpose
NotImported(m, p, own) ==
    \/ SameCall(m) = {}
    \/ own /\ \A n \in SameCall(m) : Owner(n) \notin {p, None}

\* create_verified() and create_manual(), which looks for no other record
Schedule(m, own) ==
    /\ m \in Automated => NotImported(m, OwnerOf[m], own)
    /\ Create(m)
    /\ sched' = [sched EXCEPT ![m] = [NoRow EXCEPT !.st = "pending"]]
    /\ cover' = RecordOwner(m, OwnerOf[m], own)
    /\ allowed' = [allowed EXCEPT ![m] = TRUE]
    /\ UNCHANGED <<due, visit, thread>>

\* create_now() until its await
SendNow(a, m, own) ==
    /\ LoopIsFree /\ Free(a) /\ ~Exists(m) /\ NotImported(m, OwnerOf[m], own)
    /\ LET row == [NoMeeting EXCEPT !.st = "requested"] IN
        Save(m, row) /\ Asks(a, "join", m, row, IF own THEN "user" ELSE None, 0)
    /\ cover' = RecordOwner(m, OwnerOf[m], FALSE)
    /\ UNCHANGED <<text, leave, bot, sched, allowed, due, visit, thread>>

\* The join route until its await: a scheduled join must be cancelled first
JoinRoute(a, m) ==
    /\ LoopIsFree /\ sched[m].st \notin {"pending", "joining"}
    /\ JoinAsk(a, m)
    /\ cover' = RecordOwner(m, OwnerOf[m], FALSE)
    /\ UNCHANGED <<sched, allowed, due, visit, thread>>

\* The routes of these two are threads: they run beside the event loop
NoThread == [op |-> None, m |-> None, mine |-> {}]

\* cancel() reads the row and, if it is pending, writes it
CancelReads(m) ==
    /\ thread = NoThread /\ sched[m].st = "pending"
    /\ thread' = [op |-> "cancel", m |-> m, mine |-> {}]
    /\ UNCHANGED <<meet, text, leave, bot, flow, sched, cover, allowed, due, visit>>

CancelWrites ==
    /\ thread.op = "cancel" /\ thread' = NoThread
    /\ sched' = [sched EXCEPT ![thread.m].st = "cancelled"]
    /\ UNCHANGED <<meet, text, leave, bot, flow, ops, faults, cover, allowed, due, visit>>

\* share(): rely on somebody else's assistant; one's own pending joins end
ShareReads(m, p) ==
    /\ thread = NoThread /\ Exists(m) /\ Owner(m) \notin {p, None}
    /\ cover[m].decision # "handed_over" /\ State(m) \in Active \union {"ended"}
    /\ thread' = [op |-> p, m |-> m,
                  mine |-> {n \in SameCall(m) : Owner(n) = p /\ State(n) = "scheduled"}]
    /\ UNCHANGED <<meet, text, leave, bot, flow, sched, cover, allowed, due, visit>>

ShareWrites ==
    /\ thread.op \in Person /\ thread' = NoThread
    /\ LET shared == Sharing(cover, thread.m, thread.op)  mine == thread.mine IN
        /\ cover' = [n \in Meeting |-> IF n \in mine THEN HandsOver(shared, n, thread.m, thread.op)[n]
                                       ELSE shared[n]]
        /\ sched' = [n \in Meeting |-> IF n \in mine THEN Withdraws(sched, n)[n] ELSE sched[n]]
    /\ UNCHANGED <<meet, text, leave, bot, flow, ops, faults, allowed, due, visit>>

\* stop_sharing(): nothing that was handed over comes back
StopSharing(m, p) ==
    /\ p \in cover[m].sharers
    /\ cover' = [cover EXCEPT ![m].sharers = @ \ {p}]
    /\ UNCHANGED <<meet, text, leave, bot, flow, sched, allowed, due, visit, thread>>

\* A rule is switched off, the occurrence is skipped, a calendar disconnected
Revoke(m) ==
    /\ m \in Automated /\ allowed[m]
    /\ allowed' = [allowed EXCEPT ![m] = FALSE]
    /\ UNCHANGED <<meet, text, leave, bot, flow, sched, cover, due, visit, thread>>

\* The event moves to a later time, found by the calendar watch
Moves(m) ==
    /\ LoopIsFree
    /\ m \in Automated /\ sched[m].st = "pending" /\ meet[m].st = "created"
    /\ sched[m].phase # "future"
    /\ sched' = [sched EXCEPT ![m].phase = "future"]
    /\ UNCHANGED <<meet, text, leave, bot, flow, cover, allowed, due, visit, thread>>

\* The start comes, and ten minutes pass, for a row that may be due again
TimePasses(m) ==
    /\ sched[m].st \in {"pending", "joining", "failed"} /\ sched[m].phase # "late"
    /\ sched' = [sched EXCEPT ![m].phase = IF @ = "future" THEN "due" ELSE "late"]
    /\ UNCHANGED <<meet, text, leave, bot, flow, ops, faults, cover, allowed, due, visit, thread>>

-----------------------------------------------------------------------------
(***************************************************************************)
(* The scheduler                                                           *)
(***************************************************************************)
DueRows == {m \in Meeting : sched[m].st = "pending" /\ sched[m].phase # "future"}

TickStart ==
    /\ due = {} /\ visit = NoVisit /\ Free(Scheduler) /\ DueRows # {}
    /\ due' = DueRows
    /\ UNCHANGED <<captureVars, sched, cover, allowed, visit, thread>>

\* The conditional updates: of a row that is given up, of one that is claimed
GivenUp(m, st) == IF sched[m].st = "pending" THEN [sched EXCEPT ![m].st = st] ELSE sched
MayClaim(m)    == sched[m].st = "pending" /\ sched[m].phase # "future"

\* Ten minutes after the start it is missed; another record may go instead
Decides(m) ==
    LET late == sched[m].phase = "late" IN
    \/ late /\ sched' = GivenUp(m, "missed") /\ visit' = NoVisit
    \/ ~late /\ StandsAside(m) /\ sched' = GivenUp(m, "cancelled") /\ visit' = NoVisit
    \/ ~late /\ ~StandsAside(m) /\ visit' = [pc |-> "claiming", m |-> m] /\ UNCHANGED sched

\* allow_join() awaits the calendar; without automation there is nothing to await
VisitBegins(m) ==
    /\ m \in due /\ visit = NoVisit /\ Free(Scheduler)
    /\ due' = due \ {m}
    /\ IF m \in Automated
       THEN visit' = [pc |-> "checking", m |-> m] /\ UNCHANGED sched
       ELSE Decides(m)
    /\ UNCHANGED <<captureVars, cover, allowed, thread>>

\* allow_join() after its await: what is not allowed any more is cancelled
Allows(m) == allowed[m] /\ sched[m].st \in {"pending", "joining"}
Revoked(m) == IF sched[m].st \in {"pending", "joining"}
              THEN [sched EXCEPT ![m].st = "cancelled"] ELSE sched

\* The calendar answered: not allowed, moved meanwhile, or decided
VisitChecked ==
    /\ visit.pc = "checking"
    /\ \/ ~Allows(visit.m) /\ sched' = Revoked(visit.m) /\ visit' = NoVisit
       \/ Allows(visit.m) /\ visit.m \notin DueRows /\ visit' = NoVisit /\ UNCHANGED sched
       \/ Allows(visit.m) /\ visit.m \in DueRows /\ Decides(visit.m)
    /\ UNCHANGED <<captureVars, cover, allowed, due, thread>>

\* join() until its await; a meeting that cannot be joined fails the row
SendsIt(m) ==
    IF MayJoin(m)
    THEN JoinAsk(Scheduler, m) /\ sched' = [sched EXCEPT ![m].st = "joining"]
    ELSE /\ sched' = [sched EXCEPT ![m].st = "failed"]
         /\ UNCHANGED <<meet, leave, flow, text, bot>>

\* The claim, and without automation the join at once
VisitClaims ==
    /\ visit.pc = "claiming"
    /\ IF ~MayClaim(visit.m)
       THEN visit' = NoVisit /\ UNCHANGED <<sched, meet, leave, flow, text, bot>>
       ELSE IF visit.m \in Automated
       THEN /\ sched' = [sched EXCEPT ![visit.m].st = "joining"]
            /\ visit' = [visit EXCEPT !.pc = "claimed"]
            /\ UNCHANGED <<meet, leave, flow, text, bot>>
       ELSE SendsIt(visit.m) /\ visit' = NoVisit
    /\ UNCHANGED <<ops, faults, cover, allowed, due, thread>>

\* allow_join() once more, then join()
VisitJoins ==
    /\ visit.pc = "claimed" /\ visit' = NoVisit
    /\ IF Allows(visit.m) THEN SendsIt(visit.m)
       ELSE sched' = Revoked(visit.m) /\ UNCHANGED <<meet, leave, flow, text, bot>>
    /\ UNCHANGED <<ops, faults, cover, allowed, due, thread>>

-----------------------------------------------------------------------------
(***************************************************************************)
(* After the join                                                          *)
(***************************************************************************)
\* queue_until_free(): every assistant is busy
Queued(m) ==
    CASE sched[m].st = None -> [sched EXCEPT ![m] = [st |-> "pending", phase |-> "due"]]
      [] sched[m].st \in {"pending", "joining", "failed"} ->
            [sched EXCEPT ![m].st = "pending"]
      [] OTHER -> sched

\* tick() after a busy answer: back in line
BackInLine(m) == IF sched[m].st = "joining"
                 THEN [sched EXCEPT ![m].st = "pending"] ELSE sched

\* _stand_down(): the service refused a second assistant; rely on the one there
Live(m) == {n \in SameCall(m) : State(n) \in {"joining", "in_call"}}
StandsDown(m) ==
    IF Live(m) = {} \/ Owner(m) = None THEN UNCHANGED cover
    ELSE \E n \in Live(m) :
            cover' = IF Owner(n) = Owner(m) THEN cover
                     ELSE HandsOver(Sharing(cover, n, Owner(m)), m, n, Owner(m))

Row(m, st) == [sched EXCEPT ![m].st = IF @ = None THEN None ELSE st]

\* The scheduler after join()
ScheduledJoinEnd ==
    /\ JoinEnd(Scheduler)
    /\ LET m == flow[Scheduler].m  kind == flow[Scheduler].ans.kind IN
        /\ sched' = CASE kind = "ok"   -> Row(m, "joined")
                      [] kind = "e429" -> BackInLine(m)
                      [] OTHER         -> Row(m, "failed")
        /\ IF kind = "e409" THEN StandsDown(m) ELSE UNCHANGED cover
    /\ UNCHANGED <<ops, faults, allowed, due, visit, thread>>

\* A join route or create_now() after join()
RequestedJoinEnd(a) ==
    /\ a # Scheduler /\ LoopIsFree /\ JoinEnd(a)
    /\ LET m == flow[a].m  kind == flow[a].ans.kind IN
        CASE kind = "ok"   -> cover' = RecordOwner(m, OwnerOf[m], flow[a].by = "user") /\ UNCHANGED sched
          [] kind = "e429" -> sched' = Queued(m) /\ UNCHANGED cover
          [] kind = "e409" -> StandsDown(m) /\ sched' = Withdraws(sched, m)
          [] OTHER         -> UNCHANGED <<sched, cover>>
    /\ UNCHANGED <<ops, faults, allowed, due, visit, thread>>

\* The meetings that are there have been scheduled, without a second look
SchedInit(there) ==
    /\ sched = [m \in Meeting |-> [NoRow EXCEPT !.st = IF m \in there THEN "pending" ELSE None]]
    /\ cover = [m \in Meeting |-> [NoCoverage EXCEPT !.owner = IF m \in there THEN OwnerOf[m] ELSE None]]
    /\ allowed = [m \in Meeting |-> TRUE] /\ due = {} /\ visit = NoVisit /\ thread = NoThread

SchedTypeOK ==
    /\ sched \in [Meeting -> ScheduleRow] /\ cover \in [Meeting -> CoverageRow]
    /\ allowed \in [Meeting -> BOOLEAN] /\ due \subseteq Meeting
    /\ visit \in [pc : {"idle", "checking", "claiming", "claimed"}, m : Meeting \union {None}]
    /\ thread \in [op : Person \union {None, "cancel"}, m : Meeting \union {None}, mine : SUBSET Meeting]

=============================================================================
