-------------------------- MODULE KnowledgeSharing --------------------------
(***************************************************************************)
(* Who may read one knowledge base, what people are told about it, and the  *)
(* questions they ask: knowledge_bases.py, chat() of knowledge_service.py   *)
(* and accounts.remove_member.                                              *)
(*                                                                         *)
(* share() holds the row of the base from its reads to its commit; the      *)
(* removal of a member and the deletion of the base do not take that lock.  *)
(* A deletion reads whom to tell before it deletes, and its cancelled       *)
(* mails stay locked until it commits.  A question carries the role its     *)
(* asker had when the request was authenticated.  The workspace's owner,    *)
(* who may do everything, is nobody of Reader and does the sharing.         *)
(***************************************************************************)
EXTENDS Naturals, FiniteSets

CONSTANTS Reader,     \* people of the workspace
          MaxShares,  \* bound: changes of the sharing
          MaxMoves,   \* bound: people removed, invited back, promoted
          MaxAsked,   \* bound: questions
          MaxUnsure   \* bound: mails the provider does not confirm

ASSUME SharingAssumption == {MaxShares, MaxMoves, MaxAsked, MaxUnsure} \subseteq Nat

VARIABLES role,       \* OrganizationMembershipRow of every reader
          kb,       \* KnowledgeBaseRow: [was, on, vis, maker]
          granted,    \* KnowledgeBaseAccessRow: readers by name
          learned,       \* what the newest notice of every reader says
          letters,    \* pending NotificationEmailRow: [to, says, again]
          flying,     \* the one in status "sending"
          sharing,    \* a share() between its reads and its commit
          ending,     \* a delete_base() between its reads and its commit
          answers,      \* answers in the saved conversation of every reader
          questions,      \* a question under way
          shifted,      \* history: people whose membership changed since the base was made
          slipped,    \* history: people removed under a share() that names them
          overtaken,  \* history: a share() committed under a delete_base()
          shareSteps, moveSteps, askSteps, unsureMails

sharingVars == <<role, kb, granted, learned, letters, flying, sharing, ending, answers, questions,
                 shifted, slipped, overtaken, shareSteps, moveSteps, askSteps, unsureMails>>
mailing == <<flying, unsureMails>>
people  == <<role, shifted, slipped, moveSteps>>
access  == <<kb, granted, learned, letters, mailing, sharing, ending, overtaken, shareSteps>>
talk    == <<answers, questions, askSteps>>

NoSharing  == [on |-> FALSE, vis |-> "private", names |-> {}, staff |-> {}, old |-> {}, above |-> {}]
NoEnding    == [on |-> FALSE, tell |-> {}, held |-> {}, late |-> FALSE]
NoChat   == [st |-> "none", as |-> "none", goesOn |-> FALSE]
Letter   == [to : Reader, says : {"access", "removed", "deleted"}, again : BOOLEAN]
Maker == Reader \cup {"owner"}
Visibility == {"private", "specific", "organization"}

BaseRow  == [was : BOOLEAN, on : BOOLEAN, vis : Visibility, maker : Maker]
Question == [st : {"none", "asked", "found"}, as : {"none", "member", "admin"}, goesOn : BOOLEAN]

SharingTypeOK ==
    /\ role \in [Reader -> {"none", "member", "admin"}]
    /\ kb \in BaseRow
    /\ granted \subseteq Reader /\ learned \in [Reader -> {"nothing", "access", "removed", "deleted"}]
    /\ letters \subseteq Letter /\ flying \subseteq Letter
    /\ sharing \in [on : BOOLEAN, vis : Visibility, names : SUBSET Reader, staff : SUBSET Reader,
                    old : SUBSET Reader, above : SUBSET Reader]
    /\ ending \in [on : BOOLEAN, tell : SUBSET Reader, held : SUBSET Letter, late : BOOLEAN]
    /\ answers \in [Reader -> 0..MaxAsked]
    /\ questions \in [Reader -> Question]
    /\ shifted \subseteq Reader /\ slipped \subseteq Reader /\ overtaken \in BOOLEAN
    /\ shareSteps \in 0..MaxShares /\ moveSteps \in 0..MaxMoves /\ askSteps \in 0..MaxAsked /\ unsureMails \in 0..MaxUnsure

Staff == {u \in Reader : role[u] # "none"}

-----------------------------------------------------------------------------
(***************************************************************************)
(* Plausible bugs, see PROJECT.json                                        *)
(***************************************************************************)
ReadWhenAsked(u) == kb.on

NoOldLetters == {}

KeepsTalks == answers

ForgetsTheRows(u) == granted

ForgetsLosers(s) == {}

-----------------------------------------------------------------------------
(***************************************************************************)
(* Who reads                                                               *)
(***************************************************************************)

\* _row and _can_read, by the role the request carries
CanRead(u, as) ==
    /\ kb.on
    /\ as = "admin" \/ kb.maker = u \/ kb.vis = "organization" \/ u \in granted

MayReadNow(u) == role[u] # "none" /\ CanRead(u, role[u])

\* create()
MakeWiki ==
    /\ ~kb.was
    /\ kb' = [kb EXCEPT !.was = TRUE, !.on = TRUE]
    /\ shifted' = {}
    /\ UNCHANGED <<role, slipped, moveSteps, granted, learned, letters, mailing, sharing, ending, overtaken, shareSteps, talk>>

-----------------------------------------------------------------------------
(***************************************************************************)
(* share()                                                                 *)
(***************************************************************************)

\* Rows of an earlier "specific" sharing
OldNames == IF kb.vis = "specific" THEN granted ELSE {}

\* The lock, the check of the names against the members, and what was before
SharingBegins(vis, names) ==
    /\ kb.on /\ ~sharing.on /\ shareSteps < MaxShares
    /\ vis # "specific" => names = {}
    /\ names \subseteq Staff
    /\ vis # kb.vis \/ names # OldNames
    /\ sharing' = [on |-> TRUE, vis |-> vis, names |-> names, staff |-> Staff, old |-> OldNames,
                   above |-> {u \in Reader : role[u] = "admin" \/ kb.maker = u}]
    /\ shareSteps' = shareSteps + 1
    /\ UNCHANGED <<people, kb, granted, learned, letters, mailing, ending, overtaken, talk>>

Before(s) == (IF kb.vis = "organization" THEN s.staff ELSE s.old) \cup s.above
After(s)  == (IF s.vis = "organization" THEN s.staff ELSE s.names) \cup s.above

Added(s)  == (After(s) \ Before(s)) \cup (s.names \ s.old)
StillIn(s)   == (Before(s) \cap After(s)) \ (s.above \cup Added(s))
Lost(s)   == Before(s) \ After(s)

\* Whom share() tells that they have access, or still have it
ToldOfAccess(s) == IF s.vis = "organization" THEN s.staff ELSE Added(s) \cup StillIn(s)
ToldOfLoss(s)   == IF s.vis = "organization" THEN {} ELSE Lost(s)

\* access_notice writes to who is a member at that moment
NoticesTo(group, says) == {[to |-> u, says |-> says, again |-> FALSE] : u \in group \cap Staff}

Notices(s) == NoticesTo(ToldOfAccess(s), "access") \cup NoticesTo(ToldOfLoss(s), "removed")

ToldBy(notices, u) == IF \E n \in notices : n.to = u THEN (CHOOSE n \in notices : n.to = u).says ELSE learned[u]

\* Mails of the base still waiting when the next decision is taken: cancelled
Superseded == letters

\* A deletion that has cancelled mails holds them; one that has not is overtaken
SharingEnds ==
    /\ sharing.on /\ (ending.on => ending.held = {})
    /\ granted' = sharing.names
    /\ kb' = [kb EXCEPT !.vis = sharing.vis]
    /\ letters' = (letters \ Superseded) \cup Notices(sharing)
    /\ learned' = [u \in Reader |-> ToldBy(Notices(sharing), u)]
    /\ ending' = [ending EXCEPT !.late = ending.on /\ (@ \/ sharing.names # {})]
    /\ overtaken' = (overtaken \/ ending.on)
    /\ sharing' = NoSharing
    /\ UNCHANGED <<people, mailing, shareSteps, talk>>

\* Each waits for the other's rows: the database ends one of the two
SharingFails ==
    /\ sharing.on /\ ending.on /\ ending.held # {}
    /\ sharing' = NoSharing
    /\ UNCHANGED <<people, kb, granted, learned, letters, mailing, ending, overtaken, shareSteps, talk>>

-----------------------------------------------------------------------------
(***************************************************************************)
(* delete_base()                                                           *)
(***************************************************************************)
WikiDeletionBegins ==
    /\ kb.on /\ ~ending.on
    /\ ending' = [on |-> TRUE, tell |-> IF kb.vis = "organization" THEN Staff ELSE granted,
                  held |-> letters, late |-> FALSE]
    /\ letters' = letters \ Superseded
    /\ UNCHANGED <<people, kb, granted, learned, mailing, sharing, overtaken, shareSteps, talk>>

\* The conversations of the base go with it
TalksAfterDelete == [u \in Reader |-> 0]

\* The row of the base cannot go while share() holds it
WikiDeletionEnds ==
    /\ ending.on /\ ~sharing.on
    /\ kb' = [kb EXCEPT !.on = FALSE]
    /\ granted' = {}
    /\ answers' = TalksAfterDelete
    /\ letters' = letters \cup NoticesTo(ending.tell, "deleted")
    /\ learned' = [u \in Reader |-> IF u \in ending.tell \cap Staff THEN "deleted" ELSE learned[u]]
    /\ ending' = NoEnding
    /\ UNCHANGED <<people, mailing, sharing, overtaken, shareSteps, questions, askSteps>>

\* A row added meanwhile still refers to the base, or share() wins the deadlock
WikiDeletionFails ==
    /\ ending.on /\ (ending.late \/ (sharing.on /\ ending.held # {}))
    /\ letters' = letters \cup ending.held
    /\ ending' = NoEnding
    /\ UNCHANGED <<people, kb, granted, learned, mailing, sharing, overtaken, shareSteps, talk>>

\* The mail is sent, or cancelled for want of a membership
LetterLeaves(l) ==
    /\ l \in letters
    /\ letters' = letters \ {l}
    /\ UNCHANGED <<people, mailing, kb, granted, learned, sharing, ending, overtaken, shareSteps, talk>>

\* Its worker, who takes one at a time, has no answer yet
LetterIsSending(l) ==
    /\ l \in letters /\ flying = {} /\ role[l.to] # "none"
    /\ unsureMails < MaxUnsure /\ unsureMails' = unsureMails + 1
    /\ letters' = letters \ {l} /\ flying' = {l}
    /\ UNCHANGED <<people, kb, granted, learned, sharing, ending, overtaken, shareSteps, talk>>

\* The provider did not confirm it: pending once more
LetterReturns ==
    /\ flying # {} /\ flying' = {}
    /\ letters' = letters \cup {[l EXCEPT !.again = TRUE] : l \in flying}
    /\ UNCHANGED <<people, unsureMails, kb, granted, learned, sharing, ending, overtaken, shareSteps, talk>>

-----------------------------------------------------------------------------
(***************************************************************************)
(* People                                                                  *)
(***************************************************************************)
Moves(u, r) ==
    /\ kb.was /\ moveSteps < MaxMoves /\ moveSteps' = moveSteps + 1
    /\ role' = [role EXCEPT ![u] = r] /\ shifted' = shifted \cup {u}
    /\ UNCHANGED <<kb, learned, letters, mailing, sharing, ending, overtaken, shareSteps, talk>>

\* remove_member deletes the person's access rows in the same transaction
GrantedWithout(u) == granted \ {u}

RemoveReader(u) ==
    /\ role[u] # "none"
    /\ Moves(u, "none")
    /\ granted' = GrantedWithout(u)
    /\ slipped' = IF sharing.on /\ u \in sharing.names THEN slipped \cup {u} ELSE slipped

InviteBack(u) == role[u] = "none" /\ Moves(u, "member") /\ UNCHANGED <<granted, slipped>>

SetRole(u, r) == role[u] # "none" /\ role[u] # r /\ Moves(u, r) /\ UNCHANGED <<granted, slipped>>

-----------------------------------------------------------------------------
(***************************************************************************)
(* Questions                                                               *)
(***************************************************************************)
ChatMoves(u, c) == questions' = [questions EXCEPT ![u] = c] /\ UNCHANGED <<people, kb, granted, learned, letters, mailing, sharing, overtaken, shareSteps>>

\* The conversation to go on with is read first
AskWiki(u) ==
    /\ questions[u].st = "none" /\ role[u] # "none" /\ CanRead(u, role[u])
    /\ askSteps < MaxAsked /\ askSteps' = askSteps + 1
    /\ ChatMoves(u, [st |-> "asked", as |-> role[u], goesOn |-> answers[u] > 0])
    /\ UNCHANGED <<answers, ending>>

\* Evidence, permission-checked anew at every search
SearchWiki(u) ==
    /\ questions[u].st = "asked" /\ CanRead(u, questions[u].as)
    /\ ChatMoves(u, [questions[u] EXCEPT !.st = "found"])
    /\ UNCHANGED <<answers, ending, askSteps>>

\* _row of save_exchange(): asked again once the model has answered
StillReads(u) == CanRead(u, questions[u].as)

SaveExchange(u) ==
    /\ questions[u].st = "found" /\ StillReads(u)
    /\ questions[u].goesOn => answers[u] > 0
    /\ answers' = [answers EXCEPT ![u] = @ + 1] /\ UNCHANGED askSteps
    /\ ending' = [ending EXCEPT !.late = ending.on]
    /\ ChatMoves(u, NoChat)

\* Refused, failed, or the asker closed the page
ChatEnds(u) ==
    /\ questions[u].st # "none"
    /\ ChatMoves(u, NoChat) /\ UNCHANGED <<answers, ending, askSteps>>

DeleteTalk(u) ==
    /\ answers[u] > 0 /\ MayReadNow(u)
    /\ answers' = [answers EXCEPT ![u] = 0]
    /\ UNCHANGED <<people, access, questions, askSteps>>

-----------------------------------------------------------------------------
SharingInit ==
    /\ role \in [Reader -> {"member", "admin"}]
    /\ kb \in [was : {FALSE}, on : {FALSE}, vis : {"private"}, maker : Maker]
    /\ granted = {} /\ learned = [u \in Reader |-> "nothing"] /\ letters = {} /\ flying = {}
    /\ sharing = NoSharing /\ ending = NoEnding
    /\ answers = [u \in Reader |-> 0] /\ questions = [u \in Reader |-> NoChat]
    /\ shifted = {} /\ slipped = {} /\ overtaken = FALSE 
    /\ shareSteps \in 0..MaxShares /\ moveSteps \in 0..MaxMoves /\ askSteps \in 0..MaxAsked /\ unsureMails \in 0..MaxUnsure

WikiSteps ==
    \/ MakeWiki
    \/ \E vis \in Visibility, names \in SUBSET Reader : SharingBegins(vis, names)
    \/ SharingEnds \/ SharingFails \/ WikiDeletionBegins \/ WikiDeletionEnds \/ WikiDeletionFails
    \/ LetterReturns \/ \E l \in letters : LetterLeaves(l) \/ LetterIsSending(l)

StaffMoves == \E u \in Reader : RemoveReader(u) \/ InviteBack(u) \/ \E r \in {"member", "admin"} : SetRole(u, r)

ChatSteps == \E u \in Reader : AskWiki(u) \/ SearchWiki(u) \/ SaveExchange(u) \/ ChatEnds(u) \/ DeleteTalk(u)

SharingNext == WikiSteps \/ StaffMoves \/ ChatSteps

SharingSpec == SharingInit /\ [][SharingNext]_sharingVars

-----------------------------------------------------------------------------
(***************************************************************************)
(* Properties                                                              *)
(***************************************************************************)

\* The newest notice of a member is the truth about the base, whatever was
\* shared, narrowed or deleted in between, and no waiting mail says otherwise,
\* unless it was being sent when the decision changed and came back pending.
\* Not for admins and the creator, who always read; not for people whose
\* membership changed; not once a share() slipped under a deletion.
NoticesAreTrue ==
    overtaken \/ \A u \in Staff \ (shifted \cup {kb.maker}) : role[u] = "member" =>
        /\ MayReadNow(u) <=> learned[u] = "access"
        /\ \A l \in letters : l.to = u /\ ~l.again => l.says = learned[u]

\* Whoever left the workspace has no row left that a new invitation would
\* bring to life, unless removed under a share() that had read the members
AccessEndsWithMembership == granted \subseteq Staff \cup slipped

\* No answer is kept of a base that is gone, also when it was asked before
TalksEndWithTheBase == \A u \in Reader : answers[u] > 0 => kb.on

SharingIsTold == NoticesAreTrue /\ AccessEndsWithMembership /\ TalksEndWithTheBase

\* An answer is kept only for somebody who may read the base when it is kept,
\* however long the model took; a role that changed meanwhile is not seen
AnswersStayWithReaders ==
    [][\A u \in Reader : answers'[u] > answers[u] => MayReadNow(u) \/ questions[u].as # role[u]]_sharingVars

\* Both, as one property of the component, whose rows keep their types
SharingHolds == [](SharingTypeOK /\ SharingIsTold) /\ AnswersStayWithReaders
=============================================================================
