-------------------------- MODULE MinutesVersions ---------------------------
(***************************************************************************)
(* One personal version of a meeting's minutes: minutes_versions.py and its *)
(* background job (routes_minutes_versions.py).                             *)
(*                                                                         *)
(* Its creator works in several windows, each with the revision it shows;   *)
(* a request carries that revision and is refused if it is no longer the    *)
(* row's.  A generation holds a token while the model writes, loses it to   *)
(* whoever acts fifteen minutes later, and stores what it wrote only if the *)
(* token and the transcript are still the ones it began with.  Contents are *)
(* numbers: two texts are the same or they are not.                         *)
(***************************************************************************)
EXTENDS Integers, FiniteSets

CONSTANTS Window,        \* windows of the creator
          Mate,          \* teammates
          MaxVersion,   \* bound: saves of the version
          MaxTranscript, \* bound: changes of the transcript
          MaxStaffing    \* bound: people who leave or come back

VARIABLES row,        \* MinutesVersionRow
          shared,     \* MinutesVersionAccessRow: mates with a grant
          members,    \* mates in the workspace
          returned,   \* mates who joined after their grant
          shown,      \* what every window shows: [revision, content]
          drafting,   \* generations under way: their [token, source]
          script,     \* revision of the transcript, 0 once the meeting is deleted
          texts,      \* texts written so far
          approvedText,   \* history: the text the creator saw when approving
          rosterSteps

versionVars == <<row, shared, members, returned, shown, drafting, script, texts, approvedText, rosterSteps>>

Text      == 0..MaxVersion                       \* 0 is no content
NoToken   == 0
VersionRow == [status : {"empty", "draft", "approved", "removed"}, content : Text, source : 0..MaxTranscript,
               visibility : {"private", "workspace", "specific"}, revision : 1..MaxVersion, token : 0..MaxVersion, old : BOOLEAN]
View      == [revision : 1..MaxVersion, content : Text]   \* MinutesVersionView
EmptyRow  == [status |-> "empty", content |-> 0, source |-> 0, visibility |-> "private",
              revision |-> 1, token |-> NoToken, old |-> FALSE]

VersionTypeOK ==
    /\ row \in VersionRow
    /\ shared \subseteq Mate /\ members \subseteq Mate /\ returned \subseteq Mate
    /\ shown \in [Window -> View]
    /\ drafting \subseteq [token : 1..MaxVersion, source : 1..MaxTranscript]
    /\ script \in 0..MaxTranscript /\ texts \in Text /\ approvedText \in Text
    /\ rosterSteps \in 0..MaxStaffing

Shown(r) == [revision |-> r.revision, content |-> r.content]

-----------------------------------------------------------------------------
(***************************************************************************)
(* Plausible bug, see PROJECT.json                                         *)
(***************************************************************************)
AnyRevision(w) == row.status # "removed" /\ (row.token # NoToken => row.old)

-----------------------------------------------------------------------------
(***************************************************************************)
(* The creator                                                             *)
(***************************************************************************)

\* _editable: the revision the window shows, and no generation of the last
\* fifteen minutes
Editable(w) ==
    /\ row.status # "removed" /\ script > 0
    /\ row.revision = shown[w].revision
    /\ row.token # NoToken => row.old

\* _advance, and the answer the window then shows
Advance(w, r) ==
    /\ row.revision < MaxVersion
    /\ row' = [r EXCEPT !.revision = row.revision + 1]
    /\ shown' = [shown EXCEPT ![w] = Shown(row')]

Refresh(w) ==
    /\ row.status # "removed"
    /\ shown' = [shown EXCEPT ![w] = Shown(row)]
    /\ UNCHANGED <<row, shared, members, returned, drafting, script, texts, approvedText, rosterSteps>>

\* edit() of the text: only while its transcript is the current one
EditText(w) ==
    /\ Editable(w) /\ row.source # 0 /\ row.source = script
    /\ texts < MaxVersion /\ texts' = texts + 1
    /\ Advance(w, [row EXCEPT !.content = texts + 1, !.status = "draft", !.token = NoToken, !.old = FALSE])
    /\ UNCHANGED <<shared, members, returned, drafting, script, approvedText, rosterSteps>>

\* edit() of the label and guidance alone also takes the approval back
EditGuidance(w) ==
    /\ Editable(w)
    /\ Advance(w, [row EXCEPT !.status = IF row.content # 0 THEN "draft" ELSE "empty",
                              !.token = NoToken, !.old = FALSE])
    /\ UNCHANGED <<shared, members, returned, drafting, script, texts, approvedText, rosterSteps>>

\* generate() up to the model; its token is the revision it makes
Generate(w) ==
    /\ Editable(w)
    /\ Advance(w, [row EXCEPT !.token = row.revision + 1, !.old = FALSE])
    /\ drafting' = drafting \cup {[token |-> row.revision + 1, source |-> script]}
    /\ UNCHANGED <<shared, members, returned, script, texts, approvedText, rosterSteps>>

\* The draft is there: stored for the newest generation of this transcript
StoreDraft(g) ==
    /\ g \in drafting /\ drafting' = drafting \ {g}
    /\ row.status # "removed" /\ row.token = g.token /\ script = g.source
    /\ row.revision < MaxVersion /\ texts < MaxVersion
    /\ texts' = texts + 1
    /\ row' = [row EXCEPT !.content = texts + 1, !.source = g.source, !.status = "draft",
                          !.token = NoToken, !.old = FALSE, !.revision = @ + 1]
    /\ UNCHANGED <<shared, members, returned, shown, script, approvedText, rosterSteps>>

ReleaseToken(g) == IF row.token = g.token THEN [row EXCEPT !.token = NoToken, !.old = FALSE] ELSE row

\* Refused or failed: the finally of generate() gives its own token back
DropDraft(g) ==
    /\ g \in drafting /\ drafting' = drafting \ {g}
    /\ row' = ReleaseToken(g)
    /\ UNCHANGED <<shared, members, returned, shown, script, texts, approvedText, rosterSteps>>

\* The process ends under a generation; personal_mom_failed of the next one
\* clears the token, or nobody does when it was not a job
LoseDraft(g) ==
    /\ g \in drafting /\ drafting' = drafting \ {g}
    /\ row' \in {row, [row EXCEPT !.token = NoToken, !.old = FALSE]}
    /\ UNCHANGED <<shared, members, returned, shown, script, texts, approvedText, rosterSteps>>

FifteenMinutes ==
    /\ row.token # NoToken /\ ~row.old
    /\ row' = [row EXCEPT !.old = TRUE]
    /\ UNCHANGED <<shared, members, returned, shown, drafting, script, texts, approvedText, rosterSteps>>

ApproveVersion(w) ==
    /\ Editable(w) /\ row.content # 0 /\ row.source = script
    /\ Advance(w, [row EXCEPT !.status = "approved"])
    /\ approvedText' = shown[w].content
    /\ UNCHANGED <<shared, members, returned, drafting, script, texts, rosterSteps>>

\* share(): only to members, and every grant is dated anew
Share(w, vis, people) ==
    /\ Editable(w)
    /\ (vis = "specific") = (people # {}) /\ people \subseteq members
    /\ shared' = people /\ returned' = returned \ people
    /\ Advance(w, [row EXCEPT !.visibility = vis])
    /\ UNCHANGED <<members, drafting, script, texts, approvedText, rosterSteps>>

RemoveVersion(w) ==
    /\ Editable(w)
    /\ row' = [EmptyRow EXCEPT !.status = "removed", !.revision = row.revision]
    /\ shared' = {}
    /\ UNCHANGED <<members, returned, shown, drafting, script, texts, approvedText, rosterSteps>>

-----------------------------------------------------------------------------
(***************************************************************************)
(* Everybody else                                                          *)
(***************************************************************************)

\* replace_transcript or correct_speaker; delete_meeting takes the version too
TranscriptChanges ==
    /\ script \in 1..(MaxTranscript - 1)
    /\ script' = script + 1
    /\ UNCHANGED <<row, shared, members, returned, shown, drafting, texts, approvedText, rosterSteps>>

MeetingDeleted ==
    /\ script # 0 /\ script' = 0
    /\ row' = [EmptyRow EXCEPT !.status = "removed", !.revision = row.revision]
    /\ shared' = {}
    /\ UNCHANGED <<members, returned, shown, drafting, texts, approvedText, rosterSteps>>

\* Somebody leaves the workspace or joins it (again); grants are left as they are
MoveMember(p) ==
    /\ rosterSteps < MaxStaffing /\ rosterSteps' = rosterSteps + 1
    /\ IF p \in members THEN members' = members \ {p} /\ UNCHANGED returned
                        ELSE members' = members \cup {p} /\ returned' = returned \cup {p}
    /\ UNCHANGED <<row, shared, shown, drafting, script, texts, approvedText>>

\* _readable of somebody who is not the creator
Readable(p) ==
    /\ p \in members
    /\ row.status = "approved" /\ row.source = script
    /\ \/ row.visibility = "workspace"
       \/ row.visibility = "specific" /\ p \in shared \ returned

VersionInit ==
    /\ row = EmptyRow /\ shared = {} /\ members = Mate /\ returned = {}
    /\ shown = [w \in Window |-> Shown(EmptyRow)] /\ drafting = {} /\ script = 1
    /\ texts = 0 /\ approvedText = 0 /\ rosterSteps = 0

VersionNext ==
    \/ \E w \in Window : \/ Refresh(w) \/ EditText(w) \/ EditGuidance(w) \/ Generate(w) \/ ApproveVersion(w)
                         \/ RemoveVersion(w)
                         \/ \E vis \in {"private", "workspace", "specific"}, people \in SUBSET Mate :
                              Share(w, vis, people)
    \/ \E g \in drafting : StoreDraft(g) \/ DropDraft(g) \/ LoseDraft(g)
    \/ FifteenMinutes \/ TranscriptChanges \/ MeetingDeleted
    \/ \E p \in Mate : MoveMember(p)

VersionSpec == VersionInit /\ [][VersionNext]_versionVars

-----------------------------------------------------------------------------
\* What a teammate can read is the text its creator had in front of them when
\* approving it, of the transcript as it is now, never a draft that another
\* window or a generation stored in between (_readable, approve, generate).
SharedIsReviewed ==
    \A p \in Mate : Readable(p) => row.content # 0 /\ row.content = approvedText /\ row.source = script
=============================================================================
