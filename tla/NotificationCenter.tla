------------------------- MODULE NotificationCenter -------------------------
(***************************************************************************)
(* The notification center (notifications.py, notification_events.py):      *)
(* loops and requests announce the same facts again and again; each reads   *)
(* who is to hear of it, then who knows already, then writes one row per    *)
(* person in a transaction of its own.  Memberships and coverage change     *)
(* meanwhile, people dismiss what they read, a write may fail.  Texts,      *)
(* links and pages are data.                                                *)
(***************************************************************************)
EXTENDS Integers, Sequences, FiniteSets

CONSTANTS Teammate,     \* people of any workspace
          Named,        \* who scheduled the assistant, or was given the share
          Fact,         \* what is announced, by its dedupe key
          FactKind,     \* "status", "minutes" or "shared" of each
          Announcer,    \* loops and requests announcing at a time
          CacheSize,    \* ANNOUNCED_CACHE_SIZE
          MaxStaff,     \* bound: changes of membership and coverage
          MaxBreaks     \* bound: failed writes and ends of the process

ASSUME NoticesAssumption ==
    /\ FactKind \in [Fact -> {"status", "minutes", "shared"}] /\ Named \in Teammate
    /\ CacheSize \in Nat \ {0} /\ MaxStaff \in Nat /\ MaxBreaks \in Nat

VARIABLES happening,    \* facts that come about in a behaviour
          staffing,     \* OrganizationMembershipRow: role of each person
          covering,     \* MeetingCoverageRow of the meeting: role, or handed over
          notes,        \* NotificationRow: [who, fact, copy, read]
          mailed,       \* NotificationEmailRow queued: <<person, fact>>
          spoken,       \* NotificationEvents._announced, oldest first
          news,         \* announcements under way
          staffSteps, faultSteps,
          told,         \* <<person, fact>> that ever had a row
          heldRoles,    \* roles each person ever had
          heard         \* facts announced without a failure, to whom

noticesVars == <<happening, staffing, covering, notes, mailed, spoken, news, staffSteps, faultSteps, told, heldRoles, heard>>

Quiet == [at |-> "quiet", fact |-> "none", whole |-> {}, todo |-> {}, failed |-> FALSE]

NoticesTypeOK ==
    /\ staffing \in [Teammate -> {"none", "member", "admin"}]
    /\ covering \in [Teammate -> {"none", "owner", "sharing", "handed_over"}]
    /\ \A n \in notes : n.who \in Teammate /\ n.fact \in Fact /\ n.copy \in 1 .. 2 /\ n.read \in BOOLEAN
    /\ mailed \cup told \subseteq Teammate \X Fact /\ Len(spoken) <= CacheSize
    /\ \A a \in Announcer : news[a].at \in {"quiet", "begun", "known", "writing"} /\ news[a].todo \cup news[a].whole \subseteq Teammate
    /\ staffSteps \in 0 .. MaxStaff /\ faultSteps \in 0 .. MaxBreaks

-----------------------------------------------------------------------------
(***************************************************************************)
(* Plausible bugs, see PROJECT.json                                        *)
(***************************************************************************)
CheckedAlready(u, f) == FALSE
SharersToo(f) == {"owner", "sharing"}
WhoeverIsNamed(people) == people
AnybodyKnows(f) == IF \E n \in notes : n.fact = f THEN Teammate ELSE {}

-----------------------------------------------------------------------------
(***************************************************************************)
(* Who hears of a fact                                                     *)
(***************************************************************************)
Admins == {u \in Teammate : staffing[u] = "admin"}

\* recipients(): current members only
Members(people) == {u \in people : staffing[u] # "none"}

\* Sharers read approved minutes only: draft-minutes news is not for them
CoverRoles(f) == IF FactKind[f] = "minutes" THEN {"owner"} ELSE {"owner", "sharing"}

\* meeting_audience(), or the person a meeting was shared with
Audience(f) ==
    IF FactKind[f] = "shared" THEN Members({Named})
    ELSE Members({Named} \cup {u \in Teammate : covering[u] \in CoverRoles(f)} \cup Admins)

\* The check before the writes
Knowing(f) == {u \in Teammate : \E n \in notes : n.who = u /\ n.fact = f}

\* uq_notification_dedupe: a second row of one key is refused, and that person skipped
Refused(u, f) == \E n \in notes : n.who = u /\ n.fact = f

-----------------------------------------------------------------------------
(***************************************************************************)
(* Announcing                                                              *)
(***************************************************************************)
Held == <<happening, staffing, covering, staffSteps, heldRoles>>
Says(a, n) == news' = [news EXCEPT ![a] = n]

\* Statuses this process announced are not announced again
AnnouncingBegins(a, f) ==
    /\ news[a].at = "quiet" /\ f \in happening /\ \A i \in DOMAIN spoken : spoken[i] # f
    /\ Says(a, [Quiet EXCEPT !.at = "begun", !.fact = f])
    /\ UNCHANGED <<Held, notes, mailed, spoken, faultSteps, told, heard>>

ReadsAudience(a) ==
    /\ news[a].at = "begun"
    /\ Says(a, [news[a] EXCEPT !.at = "known", !.todo = Audience(news[a].fact)])
    /\ UNCHANGED <<Held, notes, mailed, spoken, faultSteps, told, heard>>

\* meeting_audience() goes on with the admins when it cannot read the call's people
AudienceUnread(a) ==
    /\ news[a].at = "begun" /\ FactKind[news[a].fact] # "shared" /\ faultSteps < MaxBreaks /\ faultSteps' = faultSteps + 1
    /\ Says(a, [news[a] EXCEPT !.at = "known", !.todo = Admins, !.failed = TRUE])
    /\ UNCHANGED <<Held, notes, mailed, spoken, told, heard>>

\* _notify() looks at the memberships again
LeavesOutTheKnowing(a) ==
    LET people == Members(news[a].todo) IN
    /\ news[a].at = "known"
    /\ Says(a, [news[a] EXCEPT !.at = "writing", !.whole = people, !.todo = people \ Knowing(news[a].fact)])
    /\ UNCHANGED <<Held, notes, mailed, spoken, faultSteps, told, heard>>

\* One row, with the e-mail of a share, in one transaction
WritesNote(a, u) ==
    LET f == news[a].fact  copies == {n.copy : n \in {m \in notes : m.who = u /\ m.fact = f}} IN
    /\ news[a].at = "writing" /\ u \in news[a].todo /\ 2 \notin copies
    /\ Says(a, [news[a] EXCEPT !.todo = @ \ {u}])
    /\ IF Refused(u, f) THEN UNCHANGED <<notes, mailed, told>>
       ELSE /\ notes' = notes \cup {[who |-> u, fact |-> f, copy |-> Cardinality(copies) + 1, read |-> FALSE]}
            /\ mailed' = IF FactKind[f] = "shared" THEN mailed \cup {<<u, f>>} ELSE mailed
            /\ told' = told \cup {<<u, f>>}
    /\ UNCHANGED <<Held, spoken, faultSteps, heard>>

\* notify() never raises: a failure ends the pass, and the rest are not told
WriteFails(a) ==
    /\ news[a].at \in {"begun", "known", "writing"} /\ faultSteps < MaxBreaks /\ faultSteps' = faultSteps + 1
    /\ Says(a, [news[a] EXCEPT !.at = "writing", !.todo = {}, !.failed = TRUE])
    /\ UNCHANGED <<Held, notes, mailed, spoken, told, heard>>

\* meeting_status() remembers what it announced, failed or not, the newest CacheSize;
\* a status that is there already keeps its place
Remembered(f) ==
    LET longer == Append(spoken, f) IN
    IF FactKind[f] # "status" \/ \E i \in DOMAIN spoken : spoken[i] = f THEN spoken
    ELSE IF Len(longer) > CacheSize THEN Tail(longer) ELSE longer

AnnouncingEnds(a) ==
    /\ news[a].at = "writing" /\ news[a].todo = {} /\ Says(a, Quiet)
    /\ spoken' = Remembered(news[a].fact)
    /\ heard' = IF news[a].failed THEN heard ELSE [heard EXCEPT ![news[a].fact] = @ \cup news[a].whole]
    /\ UNCHANGED <<Held, notes, mailed, faultSteps, told>>

NoticesRestart ==
    /\ faultSteps < MaxBreaks /\ faultSteps' = faultSteps + 1
    /\ spoken' = <<>> /\ news' = [a \in Announcer |-> Quiet]
    /\ UNCHANGED <<Held, notes, mailed, told, heard>>

-----------------------------------------------------------------------------
(***************************************************************************)
(* Readers and staff                                                       *)
(***************************************************************************)
Reads(kept) == notes' = kept /\ UNCHANGED <<Held, mailed, spoken, news, faultSteps, told, heard>>

\* mark_read() and mark_all_read()
MarksRead(u, which) ==
    /\ \E n \in which : n.who = u /\ ~n.read
    /\ Reads({IF n \in which /\ n.who = u THEN [n EXCEPT !.read = TRUE] ELSE n : n \in notes})

\* delete() and clear() of one's own
Dismisses(u, which) == (\E n \in which : n.who = u) /\ Reads({n \in notes : n.who # u \/ n \notin which})

\* prune(): the read ones of everybody, when they are old
Prunes == (\E n \in notes : n.read) /\ Reads({n \in notes : ~n.read})

Staffs == staffSteps < MaxStaff /\ staffSteps' = staffSteps + 1
ListsStay == <<happening, notes, mailed, spoken, news, faultSteps, told, heard>>

SetsRole(u, role) ==
    /\ staffing[u] # role /\ Staffs /\ staffing' = [staffing EXCEPT ![u] = role]
    /\ heldRoles' = [heldRoles EXCEPT ![u] = @ \cup {role}]
    /\ UNCHANGED <<covering, ListsStay>>

\* An assistant has one owner; people share, stop sharing, and an owner hands the call over
Covers(u, role) ==
    /\ <<covering[u], role>> \in {<<"none", "sharing">>, <<"sharing", "none">>, <<"owner", "handed_over">>}
                                 \cup ({"none", "sharing"} \X {"owner"})
    /\ role = "owner" => \A v \in Teammate : covering[v] \notin {"owner", "handed_over"}
    /\ Staffs
    /\ covering' = [covering EXCEPT ![u] = role] /\ heldRoles' = [heldRoles EXCEPT ![u] = @ \cup {role}]
    /\ UNCHANGED <<staffing, ListsStay>>

-----------------------------------------------------------------------------
NoticesInit ==
    /\ happening \in SUBSET Fact
    /\ staffing \in [Teammate -> {"none", "member"}] /\ covering = [u \in Teammate |-> "none"]
    /\ notes = {} /\ mailed = {} /\ spoken = <<>> /\ news = [a \in Announcer |-> Quiet]
    /\ staffSteps \in 0 .. MaxStaff /\ faultSteps \in 0 .. MaxBreaks /\ told = {}
    /\ heldRoles = [u \in Teammate |-> {staffing[u]}] /\ heard = [f \in Fact |-> {}]

AnnouncerSteps ==
    \E a \in Announcer :
        \/ \E f \in Fact : AnnouncingBegins(a, f)
        \/ ReadsAudience(a) \/ AudienceUnread(a) \/ LeavesOutTheKnowing(a) \/ WriteFails(a) \/ AnnouncingEnds(a)
        \/ \E u \in Teammate : WritesNote(a, u)

ReaderSteps ==
    \/ \E u \in Teammate :
           \/ \E n \in notes : MarksRead(u, {n}) \/ Dismisses(u, {n})
           \/ MarksRead(u, notes) \/ Dismisses(u, notes) \/ Dismisses(u, {n \in notes : n.read})
    \/ Prunes

StaffSteps ==
    \E u \in Teammate :
        \/ \E role \in {"none", "member", "admin"} : SetsRole(u, role)
        \/ \E role \in {"none", "owner", "sharing", "handed_over"} : Covers(u, role)

NoticesNext == AnnouncerSteps \/ ReaderSteps \/ StaffSteps \/ NoticesRestart

NoticesSpec == NoticesInit /\ [][NoticesNext]_noticesVars

-----------------------------------------------------------------------------
(***************************************************************************)
(* Properties                                                              *)
(***************************************************************************)
\* Nobody finds one fact twice in the list, however many loops announce it at once
OneNoteEach == \A m, n \in notes : m.who = n.who /\ m.fact = n.fact => m = n

\* Only people who were of the workspace are told, and of draft minutes only those who may read
\* them: who scheduled the assistant, the owner of the call, an admin
ToldByRight ==
    \A p \in told :
        /\ heldRoles[p[1]] \cap {"member", "admin"} # {}
        /\ FactKind[p[2]] = "minutes" => p[1] = Named \/ heldRoles[p[1]] \cap {"owner", "admin"} # {}

\* Everyone a fact was announced to without a failure has been told
NobodyMissed == \A f \in Fact : \A u \in heard[f] : <<u, f>> \in told

\* The e-mail of a share is queued with its notice, never without
MailWithNotice == mailed = {p \in told : FactKind[p[2]] = "shared"}

\* Each person of the audience is told of each fact, once, and nobody else is
NewsIsTold == NoticesTypeOK /\ OneNoteEach /\ ToldByRight /\ NobodyMissed /\ MailWithNotice
=============================================================================
