---------------------------- MODULE CalendarSync ----------------------------
(***************************************************************************)
(* Following one calendar event (calendar_watch.py, calendar_watch_apply,   *)
(* calendar_reconcile, calendar_relink, calendar_cache, calendar_accounts): *)
(* the watcher's checks, a manual sync, reconnecting the account, and the   *)
(* briefings attached to synced events.  The calendar may change between    *)
(* any two steps; an answer may be old when it is applied.                  *)
(***************************************************************************)
EXTENDS Integers, FiniteSets, FiniteSetsExt

CONSTANTS Join,             \* meetings the event may be scheduled as
          Card,             \* ids of calendar_event_cache rows
          LastTime,         \* starts are 1 .. LastTime; one apart is "near"
          Attention,        \* FAILURES_BEFORE_ATTENTION
          MaxShifts,        \* bound: changes of the event
          MaxLapses,        \* bound: lookups that fail or come back truncated
          MaxClicks,        \* bound: what people do
          MaxSpent          \* bound: all of these together

ASSUME CalendarAssumption ==
    /\ {LastTime, Attention, MaxShifts, MaxLapses, MaxClicks, MaxSpent} \subseteq Nat
    /\ LastTime > 0 /\ Attention > 0 /\ IsFiniteSet(Card) /\ Card # {} /\ IsFiniteSet(Join)

VARIABLES provider,   \* "stable": ids survive a move; "booking": Calendly
          event,      \* what the calendar says now
          account,    \* the active connection of the person (NoAccount: none)
          joins,      \* CalendarScheduleRow of every meeting
          cards,      \* CalendarEventCacheRow of every id
          synced,     \* connections with a CalendarSyncStateRow
          preps,      \* cache rows a briefing, inputs or uploads refer to
          drafting,   \* the row a briefing is being written for
          late,       \* history: briefings saved after their row was gone
          check,      \* the watcher's check of one connection
          syncing,    \* the manual sync under way
          failures,   \* failed lookups in a row, of every connection
          spent       \* history: changes, lapses and clicks so far

calendarVars == <<provider, event, account, joins, cards, synced, preps, drafting, late, check, syncing, failures, spent>>
checkVars == <<check, failures>>
cacheVars == <<cards, synced, preps, drafting, late>>
worldVars == <<provider, event, account>>

Time == 1 .. LastTime
Connection == {1, 2}
NoAccount == 0
Gone == [id |-> 0, at |-> 0]
NoCard == 0
Event == {Gone} \cup [id : 1 .. MaxShifts + 1, at : Time]

NoJoin == [st |-> "none", conn |-> 1, id |-> 0, at |-> 0, flag |-> FALSE]
Snapshot == [m : Join, id : 0 .. MaxShifts + 1, at : 0 .. LastTime]
NoSnap == [m |-> CHOOSE m \in Join : TRUE, id |-> 0, at |-> 0]
NoCheck == [pc |-> "idle", conn |-> 1, scan |-> FALSE, todo |-> {}, heard |-> Gone, decided |-> [kind |-> "unknown", event |-> Gone], on |-> NoSnap]
NoSync == [pc |-> "idle", conn |-> 1, heard |-> Gone, truncated |-> FALSE]
OffCard == [on |-> FALSE, conn |-> 1, id |-> 0, at |-> 0]

JoinRow == [st : {"none", "pending", "cancelled", "joined"}, conn : Connection, id : 0 .. MaxShifts + 1, at : 0 .. LastTime, flag : BOOLEAN]
CardRow == [on : BOOLEAN, conn : Connection, id : 0 .. MaxShifts + 1, at : 0 .. LastTime]

CalendarTypeOK ==
    /\ provider \in {"stable", "booking"} /\ event \in Event /\ account \in Connection \cup {NoAccount}
    /\ \A m \in Join : joins[m] \in JoinRow
    /\ \A r \in Card : cards[r] \in CardRow
    /\ synced \subseteq Connection /\ preps \subseteq Card /\ late \subseteq preps /\ drafting \in Card \cup {NoCard}
    /\ check.pc \in {"idle", "asked", "relinking", "heard", "confirming", "confirmed"} /\ check.todo \subseteq Snapshot
    /\ syncing.pc \in {"idle", "asked", "heard"} /\ \A c \in Connection : failures[c] \in 0 .. Attention
    /\ spent \in [shifts : 0 .. MaxShifts, lapses : 0 .. MaxLapses, clicks : 0 .. MaxClicks]

-----------------------------------------------------------------------------
(***************************************************************************)
(* Plausible bugs, see PROJECT.json                                        *)
(***************************************************************************)
TakesOver(cs, r, e) ==
    [q \in Card |-> IF q = r THEN [cs[r] EXCEPT !.id = e.id, !.at = e.at]
                    ELSE IF cs[q].on /\ cs[q].conn = cs[r].conn /\ cs[q].id = e.id /\ cs[q].at = e.at THEN OffCard ELSE cs[q]]
AfterFailuresOnly(js, snaps) ==
    [m \in Join |-> IF js[m].st = "pending" /\ (\E s \in snaps : s.m = m) /\ failures[check.conn] > 0
                    THEN [js[m] EXCEPT !.flag = TRUE] ELSE js[m]]

-----------------------------------------------------------------------------
\* reconcile(): what an answer of the calendar says of a stored event
Says(kind, e) == [kind |-> kind, event |-> e]
SaysUnknown == Says("unknown", Gone)
Compare(s, e) == Says(IF e.at = s.at /\ e.id = s.id THEN "unchanged" ELSE "updated", e)

\* Calendly: the old booking's invitee names the new one, else one candidate
\* nobody follows, else only a complete answer proves anything
Booking(s, heard, complete, hint, claimed) ==
    IF heard = Gone THEN IF complete \/ hint THEN Says("cancelled", Gone) ELSE SaysUnknown
    ELSE IF hint \/ heard.id \notin claimed THEN Compare(s, heard)
    ELSE IF complete THEN Says("cancelled", Gone) ELSE SaysUnknown

Reconcile(s, heard, complete, hint, claimed) ==
    IF heard # Gone /\ heard.id = s.id THEN Compare(s, heard)
    ELSE IF provider = "booking" /\ (complete \/ hint) THEN Booking(s, heard, complete, hint, claimed)
    ELSE IF complete THEN Says("cancelled", Gone) ELSE SaysUnknown

Near(a, b) == a - b \in {-1, 0, 1}

-----------------------------------------------------------------------------
(***************************************************************************)
(* The cache of synced events                                              *)
(***************************************************************************)
Holds(r, conn, id) == cards[r].on /\ cards[r].conn = conn /\ cards[r].id = id
At(conn, e) == {r \in Card : Holds(r, conn, e.id) /\ cards[r].at = e.at}

\* rekey_cache_row(): the row with prep work survives; nothing with it on both
Rekeyed(cs, r, e) ==
    LET others == {q \in Card \ {r} : cs[q].on /\ cs[q].conn = cs[r].conn /\ cs[q].id = e.id /\ cs[q].at = e.at}
        moved == [cs[r] EXCEPT !.id = e.id, !.at = e.at]
    IN  IF others = {} THEN [cs EXCEPT ![r] = moved]
        ELSE LET q == CHOOSE o \in others : TRUE IN
             IF {r, q} \subseteq preps THEN cs
             ELSE IF q \in preps THEN [cs EXCEPT ![r] = OffCard]
             ELSE [cs EXCEPT ![r] = moved, ![q] = OffCard]

\* _rekey_cache(): the exact row, or the only one
ForSchedule(conn, s) ==
    LET rows == {r \in Card : Holds(r, conn, s.id)}
        exact == {r \in rows : cards[r].at = s.at}
    IN  IF exact # {} THEN exact ELSE IF Cardinality(rows) = 1 THEN rows ELSE {}
AfterUpdate(conn, s, e) == IF ForSchedule(conn, s) = {} THEN cards
                           ELSE Rekeyed(cards, CHOOSE r \in ForSchedule(conn, s) : TRUE, e)

\* rekey_moved_rows(): an id cached once and listed once at another start
Moved(conn, e) == {r \in Card : e # Gone /\ Holds(r, conn, e.id) /\ cards[r].at # e.at
                                /\ Cardinality({q \in Card : Holds(q, conn, e.id)}) = 1}
AfterScan(conn, e) == IF Moved(conn, e) = {} THEN cards ELSE Rekeyed(cards, CHOOSE r \in Moved(conn, e) : TRUE, e)

\* forget_connection(): rows with prep work stay, hidden
Forget(cs, gone) == [r \in Card |-> IF cs[r].on /\ cs[r].conn \in gone /\ r \notin preps THEN OffCard ELSE cs[r]]

-----------------------------------------------------------------------------
(***************************************************************************)
(* Applying a decision (CalendarChangeApplier)                             *)
(***************************************************************************)
\* _claim(): the row is as it was when the decision was made
Unmoved(s) == joins[s.m].st = "pending" /\ joins[s.m].id = s.id /\ joins[s.m].at = s.at
Slot(m, conn, e, sts) == \E o \in Join \ {m} : joins[o].st \in sts /\ joins[o].conn = conn /\ joins[o].id = e.id /\ joins[o].at = e.at
AlreadyScheduled(s, conn, e) == e.at # s.at /\ Slot(s.m, conn, e, {"pending", "joined"})
\* the unique slot of a finished record makes the update fail
SlotTaken(m, e) == Slot(m, joins[m].conn, e, {"pending", "joined", "cancelled"})

CancelJoin(s) == IF Unmoved(s) THEN [joins EXCEPT ![s.m].st = "cancelled"] ELSE joins

Apply(conn, s, d) ==
    \/ /\ d.kind = "unknown"
       /\ UNCHANGED <<joins, cards>>
    \/ /\ d.kind = "unchanged"                                  \* clear_attention()
       /\ joins' = IF joins[s.m].st = "pending" THEN [joins EXCEPT ![s.m].flag = FALSE] ELSE joins
       /\ UNCHANGED cards
    \/ /\ d.kind = "cancelled" \/ (d.kind = "updated" /\ AlreadyScheduled(s, conn, d.event))
       /\ joins' = CancelJoin(s)
       /\ UNCHANGED cards
    \/ /\ d.kind = "updated" /\ ~AlreadyScheduled(s, conn, d.event)
       /\ IF Unmoved(s) /\ ~SlotTaken(s.m, d.event)
          THEN /\ joins' = [joins EXCEPT ![s.m].id = d.event.id, ![s.m].at = d.event.at, ![s.m].flag = FALSE]
               /\ cards' = AfterUpdate(conn, s, d.event)
          ELSE UNCHANGED <<joins, cards>>

-----------------------------------------------------------------------------
(***************************************************************************)
(* Reconnecting (CalendarRelinker)                                         *)
(***************************************************************************)
Stranded(js, active) == {m \in Join : js[m].st = "pending" /\ js[m].conn \notin active}
Matches(id, at, e) == e # Gone /\ (e.id = id \/ e.at = at)

Relinked(js, m, conn, e) ==
    LET dup == {o \in Join \ {m} : js[o].st # "none" /\ js[o].conn = conn /\ js[o].id = e.id}
    IN  IF \E o \in dup : js[o].st \in {"pending", "joined"} /\ js[o].at \in {js[m].at, e.at}
        THEN [js EXCEPT ![m].st = "cancelled"]
        ELSE IF \E o \in dup : js[o].at = js[m].at THEN js
        ELSE [js EXCEPT ![m].conn = conn, ![m].id = e.id, ![m].flag = FALSE]

AfterRelink(js, conn, e, active, only) ==
    FoldSet(LAMBDA m, done : Relinked(done, m, conn, e), js,
            {m \in Stranded(js, active) \cap only : Matches(js[m].id, js[m].at, e)})

\* _rehome_prep(): the work on a stranded row moves to the event's row that has none
Rehomes(cs, conn, e, active) ==
    {move \in Card \X Card :
        LET old == cs[move[1]]
            new == cs[move[2]]
        IN  /\ old.on /\ old.conn \notin active /\ Matches(old.id, old.at, e)
            /\ new.on /\ new.conn = conn /\ new.id = e.id /\ new.at = e.at /\ move[2] \notin preps}

-----------------------------------------------------------------------------
(***************************************************************************)
(* The watcher (CalendarWatchService)                                      *)
(***************************************************************************)
Spendable == spent.shifts + spent.lapses + spent.clicks < MaxSpent
Lapse == Spendable /\ spent.lapses < MaxLapses /\ spent' = [spent EXCEPT !.lapses = @ + 1]
Click == Spendable /\ spent.clicks < MaxClicks /\ spent' = [spent EXCEPT !.clicks = @ + 1]

Due(conn) == {m \in Join : joins[m].st = "pending" /\ joins[m].conn = conn}
Snap(m) == [m |-> m, id |-> joins[m].id, at |-> joins[m].at]

\* _check_connection() up to its first lookup; verify_before_join() checks one row
CheckBegins(conn, due, scan) ==
    /\ check.pc = "idle" /\ due \subseteq Due(conn) /\ (due # {} \/ scan) /\ (scan => conn \in synced)
    /\ check' = [NoCheck EXCEPT !.pc = IF account = conn THEN "asked" ELSE "relinking",
                                !.conn = conn, !.scan = scan, !.todo = {Snap(m) : m \in due}]
    /\ UNCHANGED <<worldVars, joins, cacheVars, syncing, failures, spent>>

Flagged(js, snaps) == [m \in Join |-> IF js[m].st = "pending" /\ \E s \in snaps : s.m = m
                                      THEN [js[m] EXCEPT !.flag = TRUE] ELSE js[m]]

\* The account is not active any more: look for the event on the one that is,
\* flag what is not found
CheckRelinks ==
    /\ check.pc = "relinking"
    /\ LET js == IF account = NoAccount THEN joins
                 ELSE AfterRelink(joins, account, event, {account}, {s.m : s \in check.todo})
       IN  joins' = Flagged(js, {s \in check.todo : js[s.m].conn # account})
    /\ check' = NoCheck
    /\ UNCHANGED <<worldVars, cacheVars, syncing, failures, spent>>

\* The list around the stored times, the whole horizon when the calendar is scanned
CheckHears ==
    /\ check.pc = "asked" /\ account = check.conn
    /\ check' = [check EXCEPT !.pc = "heard",
                   !.heard = IF event # Gone /\ (check.scan \/ \E s \in check.todo : Near(s.at, event.at)) THEN event ELSE Gone]
    /\ failures' = [failures EXCEPT ![check.conn] = 0]
    /\ UNCHANGED <<worldVars, joins, cacheVars, syncing, spent>>

\* _failed(): the third failure in a row asks for attention
CheckFails ==
    /\ check.pc = "asked"
    /\ IF account = check.conn THEN Lapse ELSE UNCHANGED spent
    /\ LET n == IF failures[check.conn] < Attention THEN failures[check.conn] + 1 ELSE Attention IN
       /\ failures' = [failures EXCEPT ![check.conn] = n]
       /\ joins' = IF n = Attention THEN Flagged(joins, check.todo) ELSE joins
    /\ check' = NoCheck
    /\ UNCHANGED <<worldVars, cacheVars, syncing>>

Claimed(s) == {joins[o].id : o \in {q \in Join : joins[q].st # "none" /\ joins[q].conn = check.conn}} \ {s.id}
FromTheList(s) == Reconcile(s, check.heard, FALSE, FALSE, Claimed(s))

\* _reconcile_schedule(): the list says it all
CheckApplies(s) ==
    /\ check.pc = "heard" /\ s \in check.todo /\ FromTheList(s).kind # "unknown"
    /\ Apply(check.conn, s, FromTheList(s))
    /\ check' = [check EXCEPT !.todo = @ \ {s}]
    /\ UNCHANGED <<worldVars, synced, preps, drafting, late, syncing, failures, spent>>

\* _confirm(): find it or prove it gone; a capped or failed answer proves nothing
CheckConfirms(s) ==
    /\ check.pc = "heard" /\ s \in check.todo /\ FromTheList(s).kind = "unknown"
    /\ \E whole, hint \in BOOLEAN :
          /\ IF account = check.conn /\ ~whole THEN Lapse ELSE UNCHANGED spent
          /\ hint => provider = "booking"
          /\ LET d == IF account # check.conn THEN SaysUnknown
                      ELSE Reconcile(s, IF whole THEN event ELSE Gone, whole, hint, Claimed(s))
             IN  check' = [check EXCEPT !.pc = "confirmed", !.decided = d, !.on = s]
    /\ UNCHANGED <<worldVars, joins, cacheVars, syncing, failures>>

CheckConfirmed ==
    /\ check.pc = "confirmed"
    /\ Apply(check.conn, check.on, check.decided)
    /\ check' = [check EXCEPT !.pc = "heard", !.todo = @ \ {check.on}, !.decided = SaysUnknown, !.on = NoSnap]
    /\ UNCHANGED <<worldVars, synced, preps, drafting, late, syncing, failures, spent>>

\* _scan_cache(): synced events no pending join was handled with
CheckEnds ==
    /\ check.pc = "heard" /\ check.todo = {}
    /\ cards' = IF check.scan /\ ~\E m \in Due(check.conn) : joins[m].id = check.heard.id
                THEN AfterScan(check.conn, check.heard) ELSE cards
    /\ check' = NoCheck
    /\ UNCHANGED <<worldVars, joins, synced, preps, drafting, late, syncing, failures, spent>>

-----------------------------------------------------------------------------
(***************************************************************************)
(* A manual sync (CalendarCacheService.sync)                               *)
(***************************************************************************)
SyncBegins ==
    /\ syncing.pc = "idle" /\ account # NoAccount /\ Click
    /\ cards' = Forget(cards, Connection \ {account}) /\ synced' = synced \cap {account}
    /\ syncing' = [NoSync EXCEPT !.pc = "asked", !.conn = account]
    /\ UNCHANGED <<worldVars, joins, preps, drafting, late, checkVars>>

SyncHears ==
    /\ syncing.pc = "asked"
    /\ IF account # syncing.conn THEN syncing' = NoSync /\ UNCHANGED spent
       ELSE \E truncated \in BOOLEAN :
              /\ IF truncated THEN Lapse ELSE UNCHANGED spent
              /\ syncing' = [syncing EXCEPT !.pc = "heard", !.truncated = truncated, !.heard = IF truncated THEN Gone ELSE event]
    /\ UNCHANGED <<worldVars, joins, cacheVars, checkVars>>

Unused == {r \in Card : ~cards[r].on /\ r \notin preps /\ r # drafting}

\* Re-key, add what is new, drop what a whole answer no longer has
Stored(conn, e, truncated) ==
    LET keyed == AfterScan(conn, e)
        kept == [r \in Card |-> IF keyed[r].on /\ keyed[r].conn = conn /\ r \notin preps /\ ~truncated
                                   /\ (e = Gone \/ keyed[r].id # e.id \/ keyed[r].at # e.at) THEN OffCard ELSE keyed[r]]
        new == e # Gone /\ ~\E r \in Card : kept[r].on /\ kept[r].conn = conn /\ kept[r].id = e.id /\ kept[r].at = e.at
    IN  IF ~new THEN kept
        ELSE [kept EXCEPT ![CHOOSE r \in Unused : TRUE] = [on |-> TRUE, conn |-> conn, id |-> e.id, at |-> e.at]]

\* cache_moved(): a moved event moves its pending join too
WithItsJoin(conn, e) ==
    LET due == {m \in Due(conn) : e # Gone /\ joins[m].id = e.id /\ Moved(conn, e) # {}}
    IN  IF due = {} THEN joins
        ELSE LET m == CHOOSE o \in due : TRUE IN
             IF joins[m].at = e.at THEN [joins EXCEPT ![m].flag = FALSE]
             ELSE IF AlreadyScheduled(Snap(m), conn, e) THEN CancelJoin(Snap(m))
             ELSE IF SlotTaken(m, e) THEN joins ELSE [joins EXCEPT ![m].at = e.at, ![m].flag = FALSE]

\* Store the answer, move the joins, re-attach what another account left behind
SyncStores ==
    /\ syncing.pc = "heard"
    /\ syncing.heard # Gone => Unused # {}
    /\ LET conn == syncing.conn
           e == syncing.heard
           kept == Stored(conn, e, syncing.truncated)
           homes == Rehomes(kept, conn, e, {conn})
       IN  /\ joins' = AfterRelink(WithItsJoin(conn, e), conn, e, {conn}, Join)
           /\ synced' = synced \cup {conn}
           /\ IF homes = {} THEN cards' = kept /\ UNCHANGED preps
              ELSE LET h == CHOOSE x \in homes : TRUE IN
                   /\ cards' = [kept EXCEPT ![h[1]] = OffCard]
                   /\ preps' = IF h[1] \in preps THEN (preps \ {h[1]}) \cup {h[2]} ELSE preps
    /\ syncing' = NoSync
    /\ UNCHANGED <<worldVars, drafting, late, checkVars, spent>>

-----------------------------------------------------------------------------
(***************************************************************************)
(* People                                                                  *)
(***************************************************************************)
\* The event as read for this request; never one with a record already
ScheduleEvent(m) ==
    /\ joins[m].st = "none" /\ account # NoAccount /\ event # Gone /\ Click
    /\ ~\E o \in Join : joins[o].st # "none" /\ joins[o].at = event.at
    /\ joins' = [joins EXCEPT ![m] = [st |-> "pending", conn |-> account, id |-> event.id, at |-> event.at, flag |-> FALSE]]
    /\ UNCHANGED <<worldVars, cacheVars, checkVars, syncing>>

CancelSchedule(m) ==
    /\ joins[m].st = "pending" /\ Click
    /\ joins' = [joins EXCEPT ![m].st = "cancelled"]
    /\ UNCHANGED <<worldVars, cacheVars, checkVars, syncing>>

\* The scheduler takes the row at its stored time
TakeJoin(m) ==
    /\ joins[m].st = "pending" /\ Click
    /\ joins' = [joins EXCEPT ![m].st = "joined"]
    /\ UNCHANGED <<worldVars, cacheVars, checkVars, syncing>>

\* CalendarAccountService.disconnect(): what was scheduled is kept or cancelled
Disconnect(keepThem) ==
    /\ account # NoAccount /\ Click
    /\ account' = NoAccount
    /\ cards' = Forget(cards, {account}) /\ synced' = synced \ {account}
    /\ joins' = IF keepThem THEN joins
                ELSE [m \in Join |-> IF m \in Due(account) THEN [joins[m] EXCEPT !.st = "cancelled"] ELSE joins[m]]
    /\ UNCHANGED <<provider, event, preps, drafting, late, checkVars, syncing>>

\* A new connection has a new id
Reconnect ==
    /\ account = NoAccount /\ Click
    /\ account' = 2
    /\ UNCHANGED <<provider, event, joins, cacheVars, checkVars, syncing>>

\* save_inputs(), a prep upload
SavePrep(r) ==
    /\ cards[r].on /\ cards[r].conn \in synced /\ r \notin preps /\ Click
    /\ preps' = preps \cup {r}
    /\ UNCHANGED <<worldVars, joins, cards, synced, drafting, late, checkVars, syncing>>

\* MeetingPrepService.generate(): the row is read before the research and
\* not looked at again
DraftBriefing(r) ==
    /\ drafting = NoCard /\ cards[r].on /\ cards[r].conn \in synced /\ Click
    /\ drafting' = r
    /\ UNCHANGED <<worldVars, joins, cards, synced, preps, late, checkVars, syncing>>

SaveBriefing ==
    /\ drafting # NoCard
    /\ preps' = preps \cup {drafting}
    /\ late' = IF cards[drafting].on THEN late ELSE late \cup {drafting}
    /\ drafting' = NoCard
    /\ UNCHANGED <<worldVars, joins, cards, synced, checkVars, syncing, spent>>

\* StoragePurgeService: the briefings, inputs and uploads of an event
PurgePrep(r) ==
    /\ r \in preps /\ Click
    /\ preps' = preps \ {r} /\ late' = late \ {r}
    /\ UNCHANGED <<worldVars, joins, cards, synced, drafting, checkVars, syncing>>

\* _purge_calendar_cache(): rows something refers to stay; the next sync starts over
Unreferenced(r) == r \notin preps
PurgeCache ==
    /\ synced # {} /\ Click
    /\ cards' = [r \in Card |-> IF Unreferenced(r) THEN OffCard ELSE cards[r]]
    /\ synced' = {}
    /\ UNCHANGED <<worldVars, joins, preps, drafting, late, checkVars, syncing>>

\* RetentionService.tick(): an event long over goes with all that refers to it
Expire(r) ==
    /\ cards[r].on /\ (event = Gone \/ cards[r].id # event.id) /\ Click
    /\ cards' = [cards EXCEPT ![r] = OffCard]
    /\ preps' = preps \ {r} /\ late' = late \ {r}
    /\ UNCHANGED <<worldVars, joins, synced, drafting, checkVars, syncing>>

\* The calendar: a move (Calendly: a new booking), or the end of the event
EventMoves(t) ==
    /\ event # Gone /\ t # event.at /\ Spendable /\ spent.shifts < MaxShifts
    /\ event' = [id |-> IF provider = "booking" THEN event.id + 1 ELSE event.id, at |-> t]
    /\ spent' = [spent EXCEPT !.shifts = @ + 1]
    /\ UNCHANGED <<provider, account, joins, cacheVars, checkVars, syncing>>

EventEnds ==
    /\ event # Gone /\ Spendable /\ spent.shifts < MaxShifts
    /\ event' = Gone /\ spent' = [spent EXCEPT !.shifts = @ + 1]
    /\ UNCHANGED <<provider, account, joins, cacheVars, checkVars, syncing>>

-----------------------------------------------------------------------------
\* The event was synced and scheduled once
CalendarInit ==
    /\ provider \in {"stable", "booking"} /\ event = [id |-> 1, at |-> 1] /\ account = 1
    /\ joins = [[o \in Join |-> NoJoin] EXCEPT ![CHOOSE m \in Join : TRUE] = [NoJoin EXCEPT !.st = "pending", !.id = 1, !.at = 1]]
    /\ cards = [[q \in Card |-> OffCard] EXCEPT ![CHOOSE r \in Card : TRUE] = [on |-> TRUE, conn |-> 1, id |-> 1, at |-> 1]]
    /\ synced = {1} /\ preps = {} /\ drafting = NoCard /\ late = {}
    /\ check = NoCheck /\ syncing = NoSync
    /\ failures = [c \in Connection |-> 0]
    /\ spent = [shifts |-> 0, lapses |-> 0, clicks |-> 0]

CheckGoesOn ==
    \/ CheckRelinks \/ CheckHears \/ CheckFails \/ CheckConfirmed \/ CheckEnds
    \/ \E s \in check.todo : CheckApplies(s) \/ CheckConfirms(s)

CalendarNext ==
    \/ \E conn \in Connection, scan \in BOOLEAN :
          CheckBegins(conn, Due(conn), scan) \/ \E m \in Due(conn) : CheckBegins(conn, {m}, FALSE)
    \/ CheckGoesOn
    \/ SyncBegins \/ SyncHears \/ SyncStores
    \/ \E m \in Join : ScheduleEvent(m) \/ CancelSchedule(m) \/ TakeJoin(m)
    \/ \E keepThem \in BOOLEAN : Disconnect(keepThem)
    \/ Reconnect
    \/ \E r \in Card : SavePrep(r) \/ DraftBriefing(r)
    \/ SaveBriefing
    \/ \E r \in Card : PurgePrep(r) \/ Expire(r)
    \/ PurgeCache
    \/ \E t \in Time : EventMoves(t)
    \/ EventEnds

\* tick() goes round every connection with something due
CalendarFairness ==
    /\ WF_calendarVars(CheckGoesOn)
    /\ \A conn \in Connection : SF_calendarVars(CheckBegins(conn, Due(conn), FALSE))

-----------------------------------------------------------------------------
\* A briefing, once saved for an event that was still there, can be read
\* whatever happens to the event or its account (calendar_cache.py, "Keep a
\* prepared meeting's event identity so its saved briefing is still readable").
PrepStaysReadable == \A r \in preps \ late : cards[r].on

\* While the watcher runs, a scheduled join ends at the event's own time,
\* cancelled, or flagged for its owner (calendar_watch.py), unless another
\* record holds that event.
JoinFollows(m) ==
    joins[m].st = "pending" =>
        \/ joins[m].flag
        \/ event # Gone /\ (SlotTaken(m, event) \/ (joins[m].id = event.id /\ joins[m].at = event.at))

\* Both: nothing a person prepared is lost, and no join is left behind, when the
\* calendar, the account or the cache changes at any point of a check or a sync.
FollowsTheCalendar == []PrepStaysReadable /\ \A m \in Join : []<>JoinFollows(m)
=============================================================================
