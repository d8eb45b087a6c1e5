---------------------------- MODULE CalendarRules ----------------------------
(***************************************************************************)
(* Automatic enrolment (calendar_automation.py): people turn a rule on for  *)
(* some of their calendars, scans claim the occurrences it matches and      *)
(* schedule an assistant for each, and the scheduler asks again before it   *)
(* sends one.  Scans run in several processes, kept apart by a lock in each *)
(* and a lease of fifteen minutes; each transaction is one step.            *)
(*                                                                         *)
(* An occasion is one call, the same in every calendar that lists it; those *)
(* declined or of another type count as not listed.  What becomes of the    *)
(* minutes of an enrolled call is in MinutesPipeline.                       *)
(***************************************************************************)
EXTENDS Integers, FiniteSets

CONSTANTS Owner,          \* people with a rule
          Feed,           \* connected calendars
          FeedOwner,      \* whose each calendar is
          Occasion,       \* calls, numbered in the order of their starts
          Scanner,        \* processes that scan
          MaxPerScan,     \* MAX_SCHEDULES_PER_SCAN
          MaxTurns        \* bound, together: what people do and events that appear,
                          \* failed lookups, lost leases, ends of a process

ASSUME RulesAssumption ==
    /\ FeedOwner \in [Feed -> Owner] /\ Occasion \subseteq Nat /\ Occasion # {}
    /\ {MaxPerScan, MaxTurns} \subseteq Nat

VARIABLES listed,     \* the occasions every calendar lists
          begun,      \* occasions that start within a minute, or did
          rules,      \* CalendarAutomationRuleRow of every owner
          pausing,    \* save() between its row and _cancel_pending
          lease,      \* lease_token of the rule: the scanner it belongs to
          scans,      \* _reconcile under way in every process
          found,      \* CalendarAutomationOccurrenceRow
          meets,      \* MeetingAutomationRow and CalendarScheduleRow
          skipped,    \* overrides.skip
          byHand,     \* occasions with a record made by people
          joiner,     \* the scheduler's join under way
          before,     \* history: occasions an owner's rule found when it was turned on for new ones
          turns

rulesVars == <<listed, begun, rules, pausing, lease, scans, found, meets, skipped, byHand, joiner, before, turns>>

Nobody   == "nobody"
Entry    == Feed \X Occasion
NoRule   == [on |-> FALSE, newOnly |-> FALSE, feeds |-> {}, base |-> {}]
RuleRow  == [on : BOOLEAN, newOnly : BOOLEAN, feeds : SUBSET Feed, base : SUBSET Feed]
Occurrence == {"none", "excluded", "claimed", "scheduled", "failed"}
Settled  == [due |-> FALSE, feeds |-> {}]
NoScan   == [pc |-> "idle", who |-> Nobody, rule |-> NoRule, todo |-> {}, cut |-> {}, feed |-> Nobody,
             left |-> {}, count |-> 0, call |-> 0, reason |-> FALSE, answer |-> [f \in Feed |-> {}]]
NoJoiner == [pc |-> "idle", of |-> Nobody, ok |-> FALSE, late |-> FALSE]

RulesTypeOK ==
    /\ listed \in [Feed -> SUBSET Occasion] /\ begun \subseteq Occasion /\ byHand \subseteq Occasion
    /\ \A p \in Owner : /\ rules[p] \in RuleRow /\ rules[p].feeds \cup rules[p].base \subseteq {f \in Feed : FeedOwner[f] = p}
                        /\ lease[p] \in Scanner \cup {Nobody} /\ before[p] \subseteq Occasion
    /\ \A s \in Scanner : /\ scans[s].pc \in {"idle", "asked", "turns", "looks", "judged", "claimed", "made", "scheduled"}
                          /\ scans[s].left \subseteq Occasion /\ scans[s].count \in 0 .. MaxPerScan
    /\ found \in [Entry -> Occurrence]
    /\ meets \in [Entry -> {"none", "made", "pending", "joining", "joined", "cancelled", "missed", "failed"}]
    /\ skipped \subseteq Entry /\ joiner.pc \in {"idle", "first", "claims", "second", "joins"}
    /\ turns \in 0 .. MaxTurns

-----------------------------------------------------------------------------
(***************************************************************************)
(* Plausible bugs, see PROJECT.json                                        *)
(***************************************************************************)
NobodyElse(e) == FALSE
FirstReadStands(e) == TRUE
NeverABaseline(s) == FALSE
NeverFull(s) == FALSE

-----------------------------------------------------------------------------
Turn == turns < MaxTurns /\ turns' = turns + 1

\* _assert_not_imported(), coordination.check(): a record of the call,
\* anybody's, with its source
Covered(c) == c \in byHand \/ \E f \in Feed : meets[f, c] \notin {"none", "made"}

\* An occurrence of the same call already claimed: uq_automatic_calendar_call
TakenCall(e) == \E f \in Feed : found[f, e[2]] \in {"claimed", "scheduled", "failed"}

\* What a running join has not seen: it was read before
Unseen(e) == [joiner EXCEPT !.late = @ \/ (joiner.pc = "joins" /\ (joiner.of = e \/ e = Nobody))]

-----------------------------------------------------------------------------
(***************************************************************************)
(* People                                                                  *)
(***************************************************************************)
\* save(): turning on, or between all and new ones, starts the baseline again
SaveRule(p, on, newOnly, feeds) ==
    /\ ~pausing[p].due /\ Turn
    /\ feeds \subseteq {f \in Feed : FeedOwner[f] = p}
    /\ IF on THEN feeds # {} ELSE rules[p].on /\ feeds = rules[p].feeds /\ newOnly = rules[p].newOnly
    /\ LET old == rules[p]
           reset == ~old.on \/ old.newOnly # newOnly
       IN  /\ rules' = [rules EXCEPT ![p] = [on |-> on, newOnly |-> newOnly, feeds |-> feeds,
                                             base |-> IF reset THEN {} ELSE old.base \cap feeds]]
           /\ before' = [before EXCEPT ![p] =
                 IF ~on \/ ~newOnly \/ \E s \in Scanner : scans[s].who = p THEN {}
                 ELSE IF reset THEN {c \in Occasion : \A f \in Feed : meets[f, c] = "none"
                                        /\ (FeedOwner[f] = p => c \in listed[f])}
                 ELSE @]
    /\ pausing' = [pausing EXCEPT ![p] = [due |-> TRUE, feeds |-> IF on THEN feeds ELSE {}]]
    /\ joiner' = Unseen(Nobody)
    /\ UNCHANGED <<listed, begun, lease, scans, found, meets, skipped, byHand>>

\* _cancel_pending(): what the rule no longer covers
CancelPending(p) ==
    /\ pausing[p].due
    /\ meets' = [e \in Entry |-> IF FeedOwner[e[1]] = p /\ e[1] \notin pausing[p].feeds /\ meets[e] = "pending"
                                 THEN "cancelled" ELSE meets[e]]
    /\ pausing' = [pausing EXCEPT ![p] = Settled]
    /\ UNCHANGED <<listed, begun, rules, lease, scans, found, skipped, byHand, joiner, before, turns>>

\* patch_meeting(): a join that waits is cancelled, for good
Skip(e) ==
    /\ meets[e] \notin {"none", "joined"} /\ e \notin skipped /\ Turn
    /\ skipped' = skipped \cup {e}
    /\ meets' = IF meets[e] = "pending" THEN [meets EXCEPT ![e] = "cancelled"] ELSE meets
    /\ joiner' = Unseen(e)
    /\ UNCHANGED <<listed, begun, rules, pausing, lease, scans, found, byHand, before>>

Unskip(e) ==
    /\ e \in skipped
    /\ skipped' = skipped \ {e}
    /\ UNCHANGED <<listed, begun, rules, pausing, lease, scans, found, meets, byHand, joiner, before, turns>>

\* Somebody schedules or sends an assistant for the call themselves
ScheduleByHand(c) ==
    /\ ~Covered(c) /\ Turn
    /\ byHand' = byHand \cup {c}
    /\ UNCHANGED <<listed, begun, rules, pausing, lease, scans, found, meets, skipped, joiner, before>>

\* The calendars
EventAppears(f, c) ==
    /\ c \notin listed[f] /\ c \notin begun /\ Turn
    /\ listed' = [listed EXCEPT ![f] = @ \cup {c}]
    /\ UNCHANGED <<begun, rules, pausing, lease, scans, found, meets, skipped, byHand, joiner, before>>

CallBegins(c) ==
    /\ c \notin begun /\ \A d \in Occasion \ begun : c <= d
    /\ begun' = begun \cup {c}
    /\ UNCHANGED <<listed, rules, pausing, lease, scans, found, meets, skipped, byHand, joiner, before, turns>>

-----------------------------------------------------------------------------
(***************************************************************************)
(* A scan                                                                  *)
(***************************************************************************)
\* reconcile(): one scan of a rule in a process, one lease among processes
ScanBegins(s, p) ==
    /\ scans[s].pc = "idle" /\ lease[p] = Nobody /\ rules[p].on
    /\ scans' = [scans EXCEPT ![s] = [NoScan EXCEPT !.pc = "asked", !.who = p, !.rule = rules[p]]]
    /\ lease' = [lease EXCEPT ![p] = s]
    /\ UNCHANGED <<listed, begun, rules, pausing, found, meets, skipped, byHand, joiner, before, turns>>

\* The lease is given back whatever happened, if it is still this scan's
Ends(s) ==
    /\ scans' = [scans EXCEPT ![s] = NoScan]
    /\ lease' = [p \in Owner |-> IF scans[s].who = p /\ lease[p] = s THEN Nobody ELSE lease[p]]

UnmovedByScans == <<listed, begun, rules, pausing, skipped, byHand, joiner, before>>

\* _scans(): one calendar that does not answer ends the scan of all
ScanHears(s) ==
    /\ scans[s].pc = "asked"
    /\ \E cut \in SUBSET scans[s].rule.feeds :
          /\ IF cut # {} THEN Turn ELSE UNCHANGED turns
          /\ \E part \in SUBSET Occasion :
                /\ cut = {} => part = Occasion
                /\ scans' = [scans EXCEPT ![s].pc = "turns", ![s].cut = cut, ![s].todo = scans[s].rule.feeds,
                       ![s].answer = [f \in Feed |-> IF f \in cut THEN listed[f] \cap part ELSE listed[f]]]
    /\ UNCHANGED <<UnmovedByScans, lease, found, meets>>

ScanFails(s) ==
    /\ scans[s].pc = "asked" /\ Turn
    /\ Ends(s)
    /\ UNCHANGED <<UnmovedByScans, found, meets>>

\* A calendar not looked at yet by a rule for new events only defines what
\* there was before
Baseline(s) == scans[s].rule.newOnly /\ scans[s].feed \notin scans[s].rule.base

\* The next calendar; an incomplete first answer defines nothing
ScanTurns(s) ==
    /\ scans[s].pc = "turns"
    /\ IF scans[s].todo = {} THEN Ends(s)
       ELSE /\ \E f \in scans[s].todo :
                  LET next == [scans[s] EXCEPT !.todo = @ \ {f}, !.feed = f, !.left = scans[s].answer[f],
                                                     !.answer[f] = {}, !.pc = "looks"]
                  IN  scans' = [scans EXCEPT ![s] = IF scans[s].rule.newOnly /\ f \notin scans[s].rule.base /\ f \in scans[s].cut
                                                    THEN [next EXCEPT !.pc = "turns", !.left = {}] ELSE next]
            /\ UNCHANGED lease
    /\ UNCHANGED <<UnmovedByScans, found, meets, turns>>

NextCall(s) == CHOOSE c \in scans[s].left : \A d \in scans[s].left : c <= d
Full(s) == ~Baseline(s) /\ scans[s].count = MaxPerScan

\* The rest of the calendar is left to the next scan, or it was all there is
ScanLeavesFeed(s) ==
    /\ scans[s].pc = "looks" /\ (scans[s].left = {} \/ Full(s))
    /\ LET p == scans[s].who
           seen == Baseline(s) /\ rules[p] = [scans[s].rule EXCEPT !.base = rules[p].base]
       IN  rules' = IF seen THEN [rules EXCEPT ![p].base = @ \cup {scans[s].feed}] ELSE rules
    /\ scans' = [scans EXCEPT ![s].pc = "turns", ![s].left = {}, ![s].feed = Nobody]
    /\ UNCHANGED <<listed, begun, pausing, lease, found, meets, skipped, byHand, joiner, before, turns>>

\* _reason(), after another look at the rule
ScanLooks(s) ==
    /\ scans[s].pc = "looks" /\ scans[s].left # {} /\ ~Full(s)
    /\ LET p == scans[s].who
           c == NextCall(s)
           known == found[scans[s].feed, c] # "none"
       IN  IF rules[p] # [scans[s].rule EXCEPT !.base = rules[p].base] THEN Ends(s)
           ELSE /\ scans' = [scans EXCEPT ![s] =
                      IF c \in begun /\ ~Baseline(s) THEN [scans[s] EXCEPT !.left = @ \ {c}]
                      ELSE [scans[s] EXCEPT !.pc = "judged", !.call = c, !.left = @ \ {c},
                                            !.reason = known \/ c \in begun \/ Baseline(s) \/ Covered(c)]]
                /\ UNCHANGED lease
    /\ UNCHANGED <<UnmovedByScans, found, meets, turns>>

\* The occurrence is claimed, or noted with the reason it is not
ScanClaims(s) ==
    /\ scans[s].pc = "judged"
    /\ LET e == <<scans[s].feed, scans[s].call>>
           refused == found[e] # "none" \/ (~scans[s].reason /\ TakenCall(e))
       IN  /\ found' = IF refused THEN found ELSE [found EXCEPT ![e] = IF scans[s].reason THEN "excluded" ELSE "claimed"]
           /\ scans' = [scans EXCEPT ![s].pc = IF refused \/ scans[s].reason THEN "looks" ELSE "claimed"]
    /\ UNCHANGED <<UnmovedByScans, lease, meets, turns>>

\* create_verified() up to the schedule: the meeting, with its automation
ScanMakes(s) ==
    /\ scans[s].pc = "claimed"
    /\ LET e == <<scans[s].feed, scans[s].call>> IN
       IF e[2] \in begun \/ Covered(e[2])
       THEN /\ found' = [found EXCEPT ![e] = "failed"] /\ UNCHANGED meets
            /\ scans' = [scans EXCEPT ![s].pc = "looks"]
       ELSE /\ meets' = [meets EXCEPT ![e] = "made"] /\ UNCHANGED found
            /\ scans' = [scans EXCEPT ![s].pc = "made"]
    /\ UNCHANGED <<UnmovedByScans, lease, turns>>

ScanSchedules(s) ==
    /\ scans[s].pc = "made"
    /\ meets' = [meets EXCEPT ![<<scans[s].feed, scans[s].call>>] = "pending"]
    /\ scans' = [scans EXCEPT ![s].pc = "scheduled"]
    /\ UNCHANGED <<UnmovedByScans, lease, found, turns>>

ScanNotes(s) ==
    /\ scans[s].pc = "scheduled"
    /\ found' = [found EXCEPT ![<<scans[s].feed, scans[s].call>>] = "scheduled"]
    /\ scans' = [scans EXCEPT ![s].pc = "looks", ![s].call = 0, ![s].count = @ + 1]
    /\ UNCHANGED <<UnmovedByScans, lease, meets, turns>>

\* Fifteen minutes: the lease is anybody's, even of a scan that goes on
LeaseEnds(p) ==
    /\ lease[p] # Nobody
    /\ IF \E s \in Scanner : scans[s].who = p /\ lease[p] = s THEN Turn ELSE UNCHANGED turns
    /\ lease' = [lease EXCEPT ![p] = Nobody]
    /\ UNCHANGED <<UnmovedByScans, scans, found, meets>>

\* The process ends; what it claimed stays claimed
ScannerEnds(s) ==
    /\ scans[s].pc # "idle" /\ Turn
    /\ scans' = [scans EXCEPT ![s] = NoScan]
    /\ UNCHANGED <<UnmovedByScans, lease, found, meets>>

-----------------------------------------------------------------------------
(***************************************************************************)
(* The scheduler sends the assistant of an enrolled call                   *)
(***************************************************************************)
\* The rule, the calendar and the occurrence still ask for an assistant
Allowed(e) ==
    LET p == FeedOwner[e[1]] IN rules[p].on /\ e[1] \in rules[p].feeds /\ e \notin skipped

StillStands(e) == Allowed(e) /\ meets[e] \in {"pending", "joining"}

UnmovedByJoins == <<listed, begun, rules, pausing, lease, scans, found, skipped, byHand, before>>

\* tick(): a row that is due, and the first read of allow_join()
DueJoin(e) ==
    /\ joiner.pc = "idle" /\ meets[e] = "pending" /\ e[2] \in begun
    /\ joiner' = [pc |-> "first", of |-> e, ok |-> Allowed(e), late |-> FALSE]
    /\ UNCHANGED <<UnmovedByJoins, meets, turns>>

\* allow_join() after its await: the calendar that does not answer, and what
\* changed meanwhile, cancel the join for good
JoinAnswered ==
    /\ joiner.pc \in {"first", "second"}
    /\ \E heard \in BOOLEAN :
          /\ IF joiner.ok /\ ~heard THEN Turn ELSE UNCHANGED turns
          /\ LET e == joiner.of
                 ok == joiner.ok /\ heard /\ StillStands(e)
             IN  /\ meets' = IF ~ok /\ meets[e] \in {"pending", "joining"}
                             THEN [meets EXCEPT ![e] = "cancelled"] ELSE meets
                 /\ joiner' = IF ~ok THEN NoJoiner
                              ELSE [joiner EXCEPT !.pc = IF joiner.pc = "first" THEN "claims" ELSE "joins"]
    /\ UNCHANGED UnmovedByJoins

\* Claimed for this join, and asked once more
ClaimsJoin ==
    /\ joiner.pc = "claims"
    /\ LET e == joiner.of IN
       IF meets[e] = "pending"
       THEN /\ meets' = [meets EXCEPT ![e] = "joining"]
            /\ joiner' = [joiner EXCEPT !.pc = "second", !.ok = Allowed(e)]
       ELSE joiner' = NoJoiner /\ UNCHANGED meets
    /\ UNCHANGED <<UnmovedByJoins, turns>>

\* More than ten minutes after the start
JoinMissed ==
    /\ joiner.pc = "claims" /\ Turn
    /\ meets' = IF meets[joiner.of] = "pending" THEN [meets EXCEPT ![joiner.of] = "missed"] ELSE meets
    /\ joiner' = NoJoiner
    /\ UNCHANGED UnmovedByJoins

\* meetings.join(): an assistant is in, all are busy, or it failed
JoinEnds ==
    /\ joiner.pc = "joins"
    /\ \E st \in {"joined", "pending", "failed"} :
          /\ meets' = [meets EXCEPT ![joiner.of] = st]
          /\ IF st = "joined" THEN UNCHANGED turns ELSE Turn
    /\ joiner' = NoJoiner
    /\ UNCHANGED UnmovedByJoins

-----------------------------------------------------------------------------
\* Rules just turned on, for all events or new ones, or not yet
RulesInit ==
    /\ listed = [f \in Feed |-> {CHOOSE c \in Occasion : \A d \in Occasion : c <= d}]
    /\ begun = {} /\ skipped = {} /\ byHand = {}
    /\ rules \in {r \in [Owner -> [on : BOOLEAN, newOnly : BOOLEAN, feeds : SUBSET Feed, base : {{}}]] :
                   \A p \in Owner : r[p] = NoRule \/ (r[p].on /\ r[p].feeds = {f \in Feed : FeedOwner[f] = p})}
    /\ pausing = [p \in Owner |-> Settled]
    /\ lease = [p \in Owner |-> Nobody] /\ scans = [s \in Scanner |-> NoScan]
    /\ found = [e \in Entry |-> "none"] /\ meets = [e \in Entry |-> "none"]
    /\ joiner = NoJoiner
    /\ before = [p \in Owner |-> IF rules[p].newOnly THEN UNION {listed[f] : f \in rules[p].feeds} ELSE {}]
    /\ turns \in 0 .. MaxTurns

ScanGoesOn(s) ==
    \/ ScanHears(s) \/ ScanFails(s) \/ ScanTurns(s) \/ ScanLeavesFeed(s) \/ ScanLooks(s)
    \/ ScanClaims(s) \/ ScanMakes(s) \/ ScanSchedules(s) \/ ScanNotes(s)

JoinGoesOn == JoinAnswered \/ ClaimsJoin \/ JoinMissed \/ JoinEnds

RulesNext ==
    \/ \E p \in Owner :
          \/ \E on, newOnly \in BOOLEAN, feeds \in SUBSET Feed : SaveRule(p, on, newOnly, feeds)
          \/ CancelPending(p) \/ LeaseEnds(p)
          \/ \E s \in Scanner : ScanBegins(s, p)
    \/ \E e \in Entry : Skip(e) \/ Unskip(e) \/ DueJoin(e)
    \/ \E c \in Occasion : ScheduleByHand(c) \/ CallBegins(c) \/ \E f \in Feed : EventAppears(f, c)
    \/ \E s \in Scanner : ScanGoesOn(s) \/ ScannerEnds(s)
    \/ JoinGoesOn

RulesSpec == RulesInit /\ [][RulesNext]_rulesVars

-----------------------------------------------------------------------------
\* A call listed in the calendars of several people, and scanned for all of
\* them at once, is enrolled for one of them only.
OncePerCall == \A f, g \in Feed, c \in Occasion : meets[f, c] # "none" /\ meets[g, c] # "none" => f = g

\* A rule for new events never enrols what the calendar listed when it was
\* turned on, whatever its scans were cut by or began with.
OnlyWhatIsNew == \A f \in Feed, c \in Occasion : c \in before[FeedOwner[f]] => meets[f, c] = "none"

\* No assistant is sent to a call whose rule was turned off, or moved to other
\* calendars, or that was skipped, before the last question to the calendar
\* was answered.
SentAsTheRulesSay ==
    \A e \in Entry : meets[e] # "joined" /\ meets'[e] = "joined" => Allowed(e) \/ joiner.late

\* An assistant goes to a call once, only to a new one where the rule says so,
\* and only while the rule still asks for it; every row keeps its type.
RulesAreFollowed ==
    /\ [](RulesTypeOK /\ OncePerCall /\ OnlyWhatIsNew)
    /\ [][SentAsTheRulesSay]_rulesVars
=============================================================================
