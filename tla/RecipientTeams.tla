--------------------------- MODULE RecipientTeams ---------------------------
(***************************************************************************)
(* Teams a recap is sent to: recipient_groups.py, the delivery settings of  *)
(* one meeting in sqlalchemy_repository.py and the sending route of main.py.*)
(*                                                                         *)
(* Replacing the members of a team, or the teams of a meeting, deletes the  *)
(* rows it sees and inserts its own: two requests at once each delete what  *)
(* was there before both.  Outside of that, what is sent to is what the     *)
(* last edits asked for, without accounts that have left.                   *)
(***************************************************************************)
EXTENDS Naturals

CONSTANTS Team,      \* teams of the workspace
          Account,   \* people who are or were members
          Outside,   \* external addresses
          Desk,      \* people who edit teams and settings at once
          MaxWrites, \* bound: edits of teams and settings
          MaxLeavers \* bound: people who leave or come back

ASSUME TeamsAssumption == MaxWrites \in Nat /\ MaxLeavers \in Nat

VARIABLES staff,     \* OrganizationMembershipRow
          teams,     \* RecipientGroupRow and RecipientGroupMemberRow: [was, on, rows]
          targets,   \* MeetingDeliveryGroupRow of the meeting
          writing,   \* requests between the delete they issue and their commit
          recap,     \* a send under way: [st, read, to]
          asked,     \* history: the members the last edit of every team asked for
          meant,     \* history: the teams the last save of the settings asked for
          mixed,     \* history: teams whose rows are those of two edits at once
          blended,   \* history: the targets are those of two saves at once
          writeSteps, leaveSteps

teamVars == <<staff, teams, targets, writing, recap, asked, meant, mixed, blended, writeSteps, leaveSteps>>
wishes   == <<asked, meant, mixed, blended>>

Address == Account \cup Outside
NoWrite == [on |-> "nothing", rows |-> {}, groups |-> {}, gone |-> {}]
NoRecap == [st |-> "none", read |-> {}, to |-> {}]

NoTeam  == [was |-> FALSE, on |-> FALSE, rows |-> {}]
TeamRow == [was : BOOLEAN, on : BOOLEAN, rows : SUBSET Address]   \* was: its id is never given again
Write   == [on : Team \cup {"nothing", "settings"}, rows : SUBSET Address, groups : SUBSET Team,
            gone : SUBSET (Address \cup Team)]
Recap   == [st : {"none", "read", "ready"}, read : SUBSET Team, to : SUBSET Address]   \* with its Expansion

TeamsTypeOK ==
    /\ staff \subseteq Account
    /\ teams \in [Team -> TeamRow]
    /\ targets \subseteq Team
    /\ writing \in [Desk -> Write]
    /\ recap \in Recap
    /\ asked \in [Team -> SUBSET Address] /\ meant \subseteq Team
    /\ mixed \subseteq Team /\ blended \in BOOLEAN
    /\ writeSteps \in 0..MaxWrites /\ leaveSteps \in 0..MaxLeavers

Existing == {t \in Team : teams[t].on}

-----------------------------------------------------------------------------
(***************************************************************************)
(* Plausible bugs, see PROJECT.json                                        *)
(***************************************************************************)
EveryRow(t) == teams[t].rows

AddsToTheRows(d, t) == teams[t].rows \cup writing[d].rows

-----------------------------------------------------------------------------
(***************************************************************************)
(* Teams                                                                   *)
(***************************************************************************)
Writes(d, w) ==
    /\ writing[d] = NoWrite /\ writeSteps < MaxWrites
    /\ writeSteps' = writeSteps + 1
    /\ writing' = [writing EXCEPT ![d] = w]

\* Members of the workspace only; external addresses as entered
Resolvable(rows) == rows \cap Account \subseteq staff

\* create(): a new row, which nobody else can edit yet
CreateTeam(t, rows) ==
    /\ ~teams[t].was /\ Resolvable(rows)
    /\ writeSteps < MaxWrites /\ writeSteps' = writeSteps + 1
    /\ teams' = [teams EXCEPT ![t] = [was |-> TRUE, on |-> TRUE, rows |-> rows]]
    /\ asked' = [asked EXCEPT ![t] = rows]
    /\ UNCHANGED <<staff, targets, writing, recap, meant, mixed, blended, leaveSteps>>

\* update() with members, up to the delete of the rows there are
EditBegins(d, t, rows) ==
    /\ teams[t].on /\ Resolvable(rows)
    /\ Writes(d, [NoWrite EXCEPT !.on = t, !.rows = rows, !.gone = teams[t].rows])
    /\ UNCHANGED <<staff, teams, targets, recap, wishes, leaveSteps>>

\* What the edit leaves: its own rows, and those committed since its delete
RowsAfter(d, t) == (teams[t].rows \ writing[d].gone) \cup writing[d].rows

\* The key of a row is team and address: inserting one that is there fails
RowCollides(d, t) == (teams[t].rows \ writing[d].gone) \cap writing[d].rows # {}

EditEnds(d, t) ==
    /\ writing[d].on = t /\ teams[t].on /\ ~RowCollides(d, t)
    /\ teams' = [teams EXCEPT ![t].rows = RowsAfter(d, t)]
    /\ asked' = [asked EXCEPT ![t] = writing[d].rows]
    /\ mixed' = IF teams[t].rows \subseteq writing[d].gone THEN mixed \ {t} ELSE mixed \cup {t}
    /\ writing' = [writing EXCEPT ![d] = NoWrite]
    /\ UNCHANGED <<staff, targets, recap, meant, blended, writeSteps, leaveSteps>>

EditFails(d, t) ==
    /\ writing[d].on = t /\ (~teams[t].on \/ RowCollides(d, t))
    /\ writing' = [writing EXCEPT ![d] = NoWrite]
    /\ UNCHANGED <<staff, teams, targets, recap, wishes, writeSteps, leaveSteps>>

TargetsWithout(t) == targets \ {t}

\* delete(): with its targets and its members, in one transaction
DeleteTeam(t) ==
    /\ teams[t].on /\ writeSteps < MaxWrites /\ writeSteps' = writeSteps + 1
    /\ teams' = [teams EXCEPT ![t] = [NoTeam EXCEPT !.was = TRUE]]
    /\ targets' = TargetsWithout(t)
    /\ UNCHANGED <<staff, writing, recap, wishes, leaveSteps>>

-----------------------------------------------------------------------------
(***************************************************************************)
(* Delivery settings of the meeting                                        *)
(***************************************************************************)

\* save_delivery_settings up to its delete: every team must exist
SaveBegins(d, groups) ==
    /\ groups \subseteq Existing
    /\ Writes(d, [NoWrite EXCEPT !.on = "settings", !.groups = groups, !.gone = targets])
    /\ UNCHANGED <<staff, teams, targets, recap, wishes, leaveSteps>>

\* A team gone meanwhile breaks the foreign key, a target added meanwhile the key
SaveCollides(d) ==
    \/ ~(writing[d].groups \subseteq Existing)
    \/ (targets \ writing[d].gone) \cap writing[d].groups # {}

SaveEnds(d) ==
    /\ writing[d].on = "settings" /\ ~SaveCollides(d)
    /\ targets' = (targets \ writing[d].gone) \cup writing[d].groups
    /\ meant' = writing[d].groups
    /\ blended' = ~(targets \subseteq writing[d].gone)
    /\ writing' = [writing EXCEPT ![d] = NoWrite]
    /\ UNCHANGED <<staff, teams, recap, asked, mixed, writeSteps, leaveSteps>>

SaveFails(d) ==
    /\ writing[d].on = "settings" /\ SaveCollides(d)
    /\ writing' = [writing EXCEPT ![d] = NoWrite]
    /\ UNCHANGED <<staff, teams, targets, recap, wishes, writeSteps, leaveSteps>>

-----------------------------------------------------------------------------
(***************************************************************************)
(* Sending the recap                                                       *)
(***************************************************************************)
rest == <<staff, teams, targets, writing, wishes, writeSteps, leaveSteps>>

\* get_delivery_settings: the targets that join to a team
SendReads ==
    /\ recap.st = "none"
    /\ recap' = [st |-> "read", read |-> targets \cap Existing, to |-> {}]
    /\ UNCHANGED rest

\* Addresses of a team: accounts that have left are passed over
ActiveMembers(t) == teams[t].rows \cap (Outside \cup staff)

\* expand(): every team read must still be there
SendExpands ==
    /\ recap.st = "read" /\ recap.read \subseteq Existing
    /\ recap' = [recap EXCEPT !.st = "ready", !.to = UNION {ActiveMembers(t) : t \in recap.read}]
    /\ UNCHANGED rest

\* 422, an empty audience, or the mail has gone
SendEnds ==
    /\ recap.st = "ready" \/ (recap.st = "read" /\ ~(recap.read \subseteq Existing))
    /\ recap' = NoRecap
    /\ UNCHANGED rest

\* accounts.remove_member leaves the rows of teams alone
Leave(u) ==
    /\ u \in staff /\ leaveSteps < MaxLeavers /\ leaveSteps' = leaveSteps + 1
    /\ staff' = staff \ {u}
    /\ UNCHANGED <<teams, targets, writing, recap, wishes, writeSteps>>

ComeBack(u) ==
    /\ u \notin staff /\ leaveSteps < MaxLeavers /\ leaveSteps' = leaveSteps + 1
    /\ staff' = staff \cup {u}
    /\ UNCHANGED <<teams, targets, writing, recap, wishes, writeSteps>>

-----------------------------------------------------------------------------
TeamsInit ==
    /\ staff = Account /\ teams = [t \in Team |-> NoTeam] /\ targets = {}
    /\ writing = [d \in Desk |-> NoWrite] /\ recap = NoRecap
    /\ asked = [t \in Team |-> {}] /\ meant = {} /\ mixed = {} /\ blended = FALSE
    /\ writeSteps = 0 /\ leaveSteps = 0

TeamSteps ==
    \E t \in Team :
        \/ DeleteTeam(t)
        \/ \E rows \in SUBSET Address : CreateTeam(t, rows) \/ \E d \in Desk : EditBegins(d, t, rows)
        \/ \E d \in Desk : EditEnds(d, t) \/ EditFails(d, t)

SaveSteps == \E d \in Desk : SaveEnds(d) \/ SaveFails(d) \/ \E groups \in SUBSET Team : SaveBegins(d, groups)

TeamsNext ==
    \/ TeamSteps \/ SaveSteps
    \/ SendReads \/ SendExpands \/ SendEnds
    \/ \E u \in Account : Leave(u) \/ ComeBack(u)

TeamsSpec == TeamsInit /\ [][TeamsNext]_teamVars

-----------------------------------------------------------------------------
(***************************************************************************)
(* Properties                                                              *)
(***************************************************************************)

\* No meeting goes on targeting a deleted team, whatever was saved meanwhile
TargetsExist == targets \subseteq Existing

\* A recap goes to exactly those the last edits ask for: the teams the
\* meeting was last given, with the members last given to them, deleted teams
\* and people who have left apart.  Not for a team or a meeting that two
\* requests changed at once, nor for targets saved between the two reads.
RecapFollowsItsTeams ==
    [][(recap.st = "read" /\ recap'.st = "ready") =>
         blended \/ recap.read # targets \/ mixed \cap recap.read # {}
         \/ recap'.to = {a \in UNION {asked[t] : t \in meant \cap Existing} : a \in Outside \cup staff}]_teamVars

\* Both, as one property of the component, whose rows keep their types
TeamsAreFollowed == [](TeamsTypeOK /\ TargetsExist) /\ RecapFollowsItsTeams
=============================================================================
