----------------------------- MODULE LeaveTimer -----------------------------
(***************************************************************************)
(* When the assistant leaves (leave_rules.py): the plans in prospect, the   *)
(* heads-up before a leave and "Keep in call", followed minute by minute    *)
(* through one call the assistant joined at 0.  Somebody may speak or keep  *)
(* it at any minute, and the watchdog may miss passes.                      *)
(***************************************************************************)
EXTENDS Integers, FiniteSets

CONSTANTS Silence, QuietAfterEnd, NoOneJoined, MaxHours, ServiceMaxHours,  \* LeavePolicy
          SilenceMargin, QuietHeadsUp, CapHeadsUp, KeepExtension, KeepMaxAhead,
          ScheduledEnd,      \* ends_at of the event, or NoEnd
          NoEnd,
          MaxMissed          \* bound: passes missed in a row

\* What POLICY_LIMITS and the module constants of leave_rules.py keep
ASSUME TimerAssumption ==
    /\ {Silence, QuietAfterEnd, NoOneJoined, MaxHours, ServiceMaxHours, SilenceMargin,
        QuietHeadsUp, CapHeadsUp, KeepExtension, KeepMaxAhead, MaxMissed} \subseteq Nat
    /\ ScheduledEnd \in Nat \/ ScheduledEnd = NoEnd
    /\ QuietHeadsUp > 0 /\ QuietHeadsUp < CapHeadsUp
    /\ CapHeadsUp <= MaxHours /\ CapHeadsUp <= ServiceMaxHours
    /\ QuietHeadsUp <= QuietAfterEnd /\ QuietHeadsUp <= Silence

VARIABLES now, last,        \* last_speech_at (Never: nobody was transcribed)
          keep,             \* keep_until (Never: not kept)
          warned,           \* [leave_at, at] of the heads-up (Never: none)
          gone,             \* why the assistant left
          missed,           \* passes missed in a row
          passed            \* this minute's pass was made

timerVars == <<now, last, keep, warned, gone, missed, passed>>

Never == -1
Max2(a, b) == IF a >= b THEN a ELSE b
Min2(a, b) == IF a <= b THEN a ELSE b

-----------------------------------------------------------------------------
(***************************************************************************)
(* Plausible bugs, see PROJECT.json                                        *)
(***************************************************************************)
AnyWarningWillDo(plan) == warned.at # Never
AsLongAsTheyLike(n)    == Max2(n, keep) + KeepExtension

\* LeavePolicy.cap_hours: never more than the meeting-bot service allows
SafetyCap == Min2(MaxHours, ServiceMaxHours)

-----------------------------------------------------------------------------
CapPlan == [at |-> SafetyCap, why |-> "time_limit", headsUp |-> CapHeadsUp]

\* After the scheduled end a shorter quiet is enough; the end alone never is
AfterEnd(end) == Max2(last + QuietAfterEnd, end)

Quiet == IF last = Never
         THEN [at |-> NoOneJoined, why |-> "no_one_joined"]
         ELSE LET silent == last + Silence + SilenceMargin IN
              IF ScheduledEnd # NoEnd /\ AfterEnd(ScheduledEnd) <= silent
              THEN [at |-> AfterEnd(ScheduledEnd), why |-> "ended_quiet"]
              ELSE [at |-> silent, why |-> "silent"]

QuietPlan == [at |-> Max2(Quiet.at, keep), why |-> Quiet.why, headsUp |-> QuietHeadsUp]

\* warn_at: the plan whose heads-up is due first is followed
WarnAt(p) == p.at - p.headsUp
Plan == CHOOSE p \in {CapPlan, QuietPlan} : \A q \in {CapPlan, QuietPlan} :
            WarnAt(p) < WarnAt(q) \/ (WarnAt(p) = WarnAt(q) /\ p.at <= q.at)

\* warned_for(): a heads-up went out for exactly this leave
WarnedFor(plan) == warned.at # Never /\ warned.leaveAt = plan.at

\* decide()
Decision ==
    IF ~WarnedFor(Plan)
    THEN IF now >= WarnAt(Plan) THEN "warn" ELSE "stay"
    ELSE IF now >= Max2(Plan.at, warned.at + Plan.headsUp) THEN "leave" ELSE "stay"

\* can_keep(), extended_keep(): half an hour more, never past the cap
CanKeep == SafetyCap - now > CapHeadsUp
ExtendedKeep(n) == Min2(Min2(Max2(n, keep) + KeepExtension, n + KeepMaxAhead), SafetyCap)

-----------------------------------------------------------------------------
InTheCall == gone = "no"

\* A watchdog pass that reached the capture service
Pass ==
    /\ InTheCall /\ ~passed
    /\ passed' = TRUE /\ missed' = 0
    /\ warned' = IF Decision = "warn" THEN [leaveAt |-> Plan.at, at |-> now] ELSE warned
    /\ gone' = IF Decision = "leave" THEN Plan.why ELSE "no"
    /\ UNCHANGED <<now, last, keep>>

\* Somebody speaks; advance_speech() only moves forward
Speak ==
    /\ InTheCall /\ last # now
    /\ last' = now
    /\ UNCHANGED <<now, keep, warned, gone, missed, passed>>

\* LeaveService.keep()
Keep ==
    /\ InTheCall /\ CanKeep
    /\ keep' = ExtendedKeep(now)
    /\ UNCHANGED <<now, last, warned, gone, missed, passed>>

Minute ==
    /\ InTheCall
    /\ passed \/ missed < MaxMissed
    /\ now' = now + 1 /\ passed' = FALSE
    /\ missed' = IF passed THEN 0 ELSE missed + 1
    /\ UNCHANGED <<last, keep, warned, gone>>

TimerInit ==
    /\ now = 0 /\ last = Never /\ keep = Never
    /\ warned = [leaveAt |-> Never, at |-> Never]
    /\ gone = "no" /\ missed = 0 /\ passed = FALSE

TimerNext == Pass \/ Speak \/ Keep \/ Minute

-----------------------------------------------------------------------------
\* Times, the heads-up and the reason to leave keep their types
TimerTypeOK ==
    /\ now \in Nat /\ last \in -1..now /\ keep \in -1..SafetyCap
    /\ warned.leaveAt \in -1..Max2(SafetyCap, now + Silence + SilenceMargin)
    /\ warned.at \in -1..now
    /\ gone \in {"no", "time_limit", "no_one_joined", "silent", "ended_quiet"}
    /\ missed \in 0..MaxMissed /\ passed \in BOOLEAN

\* It leaves by itself only after people had the whole time of a heads-up for
\* that very leave, and for a quiet leave only when nobody spoke meanwhile.
WarnedAndQuiet ==
    /\ warned.at # Never /\ warned.leaveAt = Plan.at
    /\ now - warned.at >= (IF gone' = "time_limit" THEN CapHeadsUp ELSE QuietHeadsUp)
    /\ gone' \in {"silent", "ended_quiet"} =>
           now - last >= Min2(QuietAfterEnd, Silence + SilenceMargin)
    /\ gone' = "ended_quiet" => now >= ScheduledEnd

\* Past the cap it stays only for a heads-up for silence that talk has just
\* undone, the minute of that talk, and passes missed before the heads-up for
\* silence, before the one for the cap and before the leave.
GoneInTime ==
    InTheCall => /\ now <= MaxHours + QuietHeadsUp + 3 * MaxMissed + 1
                 /\ now <= ServiceMaxHours + QuietHeadsUp + 3 * MaxMissed + 1

\* However people talk and keep it, the assistant leaves at the cap, and never
\* without the heads-up its people are due (leave_rules.py, decide, extended_keep).
LeavesWarnedInTime == []GoneInTime /\ [][gone' # gone => WarnedAndQuiet]_timerVars
=============================================================================
