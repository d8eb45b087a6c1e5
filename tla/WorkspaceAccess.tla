--------------------------- MODULE WorkspaceAccess ---------------------------
(***************************************************************************)
(* Who has access (accounts.py, account_tokens.py, account_access.py,       *)
(* meeting_sharing.py) and the e-mails that say so (notifications.py,       *)
(* notification_email_worker.py): one workspace, one meeting it may share.  *)
(* A request keeps the role its session had when it came in.  Each          *)
(* transaction on an account is one step; sharing, opening a link and       *)
(* sending an e-mail are not.  A process may end at any point: a request    *)
(* that is never continued.                                                 *)
(***************************************************************************)
EXTENDS Integers, FiniteSets

CONSTANTS Person,
          Founder,     \* the owner of the workspace
          Clerk,       \* requests under way at once
          Opener,      \* links being opened at once
          Link,        \* bound: ids of account_tokens rows
          Share,       \* bound: ids of meeting_shares rows
          Mail,        \* bound: notification_emails rows followed, the first ones written
          MaxTries,    \* attempts before an e-mail is given up
          MaxDeeds     \* bound: requests of people, lapses of links

ASSUME AccessAssumption ==
    /\ Founder \in Person /\ {MaxTries, MaxDeeds} \subseteq Nat /\ MaxTries > 0
    /\ {Link, Share, Mail} \subseteq SUBSET (Nat \ {0})

VARIABLES roles,      \* OrganizationMembershipRow ("out": none)
          joined,     \* how many memberships a person has had: created_at
          accounts,   \* UserRow, UserCredentialRow and the session in the browser
          links,      \* AccountTokenRow, and how often it ended
          opening,    \* the link every opener has looked at
          asked,      \* requests under way
          shares,     \* MeetingShareRow, and the membership it was decided for
          mails,      \* NotificationEmailRow, its age and what the provider took
          posting,    \* the e-mail being sent
          deeds

accessVars == <<roles, joined, accounts, links, opening, asked, shares, mails, posting, deeds>>
mailVars == <<mails, posting>>

Role == {"owner", "admin", "member"}
Idle == [pc |-> "idle", who |-> Founder, role |-> "member", to |-> Founder, gen |-> 0, checked |-> 0, share |-> 0]
AccountRow == [st : {"none", "invited", "active"}, usable : BOOLEAN, signedIn : BOOLEAN]
NoLink == [st |-> "none", who |-> Founder, purpose |-> "invite", here |-> FALSE, ends |-> 0]
NoShare == [st |-> "none", who |-> Founder, gen |-> 0, checked |-> 0]
NoMail == [st |-> "none", to |-> Founder, of |-> 0, tries |-> 0, due |-> FALSE, age |-> 0, got |-> 0, slipped |-> FALSE]

AccessTypeOK ==
    /\ \A p \in Person : roles[p] \in Role \cup {"out"} /\ joined[p] \in 0 .. MaxDeeds + 1
    /\ \A p \in Person : accounts[p] \in AccountRow
    /\ \A l \in Link : links[l].st \in {"none", "valid", "used", "revoked", "expired"}
    /\ \A o \in Opener : opening[o] \in Link \cup {0}
    /\ \A c \in Clerk : asked[c].pc \in {"idle", "in", "sharing", "storing", "telling"}
    /\ \A s \in Share : shares[s].st \in {"none", "live", "revoked", "left"}
    /\ \A r \in Mail : mails[r].tries \in 0 .. MaxTries /\ mails[r].of \in Share \cup {0}
    /\ posting \in Mail \cup {0} /\ deeds \in 0 .. MaxDeeds

-----------------------------------------------------------------------------
(***************************************************************************)
(* Plausible bugs, see PROJECT.json                                        *)
(***************************************************************************)
WhateverBecame(l) == links[l].st # "none"
AnyMembership(p)  == roles[p] # "out" /\ \E s \in Share : shares[s].st = "live" /\ shares[s].who = p
EveryTry(r)       == mails[r].tries >= MaxTries

-----------------------------------------------------------------------------
Deed == deeds < MaxDeeds /\ deeds' = deeds + 1
IsAdmin(c) == asked[c].role \in {"owner", "admin"}

\* _managed_membership(): the row is read under a lock, the requester's role
\* is the one of the session
Manages(c, p) == asked[c].pc = "in" /\ IsAdmin(c) /\ p # asked[c].who /\ roles[p] # "out"
                 /\ (roles[p] \in {"owner", "admin"} => asked[c].role = "owner")

\* _require_another_owner()
MayStepDown(p) == roles[p] = "owner" => \E q \in Person \ {p} : roles[q] = "owner"

\* access_notice() and _notify(): current members only
Queued(ms, p, s, slipped) ==
    IF roles[p] = "out" \/ ~\E i \in Mail : ms[i].st = "none" THEN ms
    ELSE LET r == CHOOSE i \in Mail : ms[i].st = "none"
         IN  [ms EXCEPT ![r] = [NoMail EXCEPT !.st = "pending", !.to = p, !.of = s, !.due = TRUE, !.slipped = slipped]]

Ended(l, how) == [links[l] EXCEPT !.st = how, !.ends = @ + 1]

\* revoke_links()
Revoked(sel) == [l \in Link |-> IF links[l].st = "valid" /\ l \in sel THEN Ended(l, "revoked") ELSE links[l]]

\* issue_link(): older unused ones of the person and purpose are revoked
Issued(p, purpose, here) ==
    LET older == {l \in Link : links[l].who = p /\ links[l].purpose = purpose}
        fresh == CHOOSE l \in Link : links[l].st = "none"
    IN  [Revoked(older) EXCEPT ![fresh] = [NoLink EXCEPT !.st = "valid", !.who = p, !.purpose = purpose, !.here = here]]
RoomForLink == \E l \in Link : links[l].st = "none"

-----------------------------------------------------------------------------
(***************************************************************************)
(* Requests                                                                *)
(***************************************************************************)
\* require_admin, from_session()
RequestBegins(c, p) ==
    /\ asked[c].pc = "idle" /\ accounts[p].signedIn /\ roles[p] # "out" /\ Deed
    /\ asked' = [asked EXCEPT ![c] = [Idle EXCEPT !.pc = "in", !.who = p, !.role = roles[p]]]
    /\ UNCHANGED <<roles, joined, accounts, links, opening, shares, mailVars>>

Answered(c) == asked' = [asked EXCEPT ![c] = Idle]

\* invite(): a link only for somebody without a password
InvitePerson(c, p, role) ==
    /\ asked[c].pc = "in" /\ IsAdmin(c) /\ roles[p] = "out"
    /\ role \in {"admin", "member"} /\ (role = "admin" => asked[c].role = "owner")
    /\ RoomForLink
    /\ roles' = [roles EXCEPT ![p] = role] /\ joined' = [joined EXCEPT ![p] = @ + 1]
    /\ accounts' = IF accounts[p].st = "none" THEN [accounts EXCEPT ![p].st = "invited"] ELSE accounts
    /\ links' = IF accounts[p].usable THEN links ELSE Issued(p, "invite", TRUE)
    /\ Answered(c)
    /\ UNCHANGED <<opening, shares, mailVars, deeds>>

ChangeMemberRole(c, p, role) ==
    /\ Manages(c, p) /\ (role \in {"owner", "admin"} => asked[c].role = "owner")
    /\ role # roles[p]
    /\ role # "owner" => MayStepDown(p)
    /\ roles' = [roles EXCEPT ![p] = role]
    /\ mails' = Queued(mails, p, 0, FALSE)
    /\ Answered(c)
    /\ UNCHANGED <<joined, accounts, links, opening, shares, posting, deeds>>

\* Links and shares of this workspace go with the membership; e-mails wait on
RemoveMember(c, p) ==
    /\ Manages(c, p) /\ MayStepDown(p)
    /\ roles' = [roles EXCEPT ![p] = "out"]
    /\ links' = Revoked({l \in Link : links[l].who = p /\ links[l].here})
    /\ shares' = [s \in Share |-> IF shares[s].who = p /\ shares[s].st = "live" THEN [shares[s] EXCEPT !.st = "left"] ELSE shares[s]]
    /\ Answered(c)
    /\ UNCHANGED <<joined, accounts, opening, mailVars, deeds>>

\* _managed_target(): no lock, never an owner
ManagesAccess(c, p) == Manages(c, p) /\ roles[p] # "owner"

ResendInvite(c, p) ==
    /\ ManagesAccess(c, p) /\ accounts[p].st = "invited" /\ RoomForLink
    /\ links' = Issued(p, "invite", TRUE)
    /\ Answered(c)
    /\ UNCHANGED <<roles, joined, accounts, opening, shares, mailVars, deeds>>

\* reset_access(): the password and the sessions end now
ResetAccess(c, p) ==
    /\ ManagesAccess(c, p) /\ p # Founder /\ RoomForLink
    /\ accounts' = [accounts EXCEPT ![p].usable = FALSE, ![p].signedIn = FALSE]
    /\ links' = Issued(p, "password_reset", TRUE)
    /\ Answered(c)
    /\ UNCHANGED <<roles, joined, opening, shares, mailVars, deeds>>

-----------------------------------------------------------------------------
(***************************************************************************)
(* Sharing the meeting: created_at is taken first, the recipient checked,   *)
(* the row stored, and the notice written in a transaction of its own       *)
(***************************************************************************)
ShareBegins(c, p) ==
    /\ asked[c].pc = "in" /\ IsAdmin(c) /\ p # asked[c].who
    /\ asked' = [asked EXCEPT ![c].pc = "sharing", ![c].to = p, ![c].gen = joined[p]]
    /\ UNCHANGED <<roles, joined, accounts, links, opening, shares, mailVars, deeds>>

Shared(p) == \E s \in Share : shares[s].st = "live" /\ shares[s].who = p

ShareChecks(c) ==
    /\ asked[c].pc = "sharing"
    /\ LET p == asked[c].to IN
       IF roles[p] # "out" /\ accounts[p].st = "active" /\ ~Shared(p)
       THEN asked' = [asked EXCEPT ![c].pc = "storing", ![c].checked = joined[p]]
       ELSE Answered(c)
    /\ UNCHANGED <<roles, joined, accounts, links, opening, shares, mailVars, deeds>>

\* A share of the same person that won the race stands
ShareStores(c) ==
    /\ asked[c].pc = "storing"
    /\ IF Shared(asked[c].to)
       THEN Answered(c) /\ UNCHANGED shares
       ELSE \E s \in Share :                                          \* bound
               /\ shares[s].st = "none" /\ \A i \in Share : i < s => shares[i].st # "none"
               /\ shares' = [shares EXCEPT ![s] = [st |-> "live", who |-> asked[c].to, gen |-> asked[c].gen, checked |-> asked[c].checked]]
               /\ asked' = [asked EXCEPT ![c].pc = "telling", ![c].share = s]
    /\ UNCHANGED <<roles, joined, accounts, links, opening, mailVars, deeds>>

\* _announce(): whatever became of the share
ShareTells(c) ==
    /\ asked[c].pc = "telling"
    /\ mails' = Queued(mails, asked[c].to, asked[c].share, shares[asked[c].share].st # "live")
    /\ Answered(c)
    /\ UNCHANGED <<roles, joined, accounts, links, opening, shares, posting, deeds>>

\* revoke(): the notice that still waits is cancelled, another one says so
RevokeShare(c, s) ==
    /\ asked[c].pc = "in" /\ IsAdmin(c) /\ shares[s].st = "live"
    /\ shares' = [shares EXCEPT ![s].st = "revoked"]
    /\ mails' = Queued([r \in Mail |-> IF mails[r].of # s THEN mails[r]
                                       ELSE IF mails[r].st = "pending" THEN [mails[r] EXCEPT !.st = "cancelled"]
                                       ELSE [mails[r] EXCEPT !.slipped = TRUE]], shares[s].who, 0, FALSE)
    /\ Answered(c)
    /\ UNCHANGED <<roles, joined, accounts, links, opening, posting, deeds>>

\* _live_shares(): never one from before the person left
MayRead(p) == roles[p] # "out" /\ \E s \in Share : /\ shares[s].st = "live" /\ shares[s].who = p
                                                   /\ shares[s].gen >= joined[p]

-----------------------------------------------------------------------------
(***************************************************************************)
(* What people do with a link                                              *)
(***************************************************************************)
RequestReset(p) ==
    /\ accounts[p].st # "none" /\ roles[p] # "out" /\ RoomForLink /\ Deed
    /\ links' = Issued(p, "password_reset", FALSE)
    /\ UNCHANGED <<roles, joined, accounts, opening, asked, shares, mailVars>>

LinkLapses(l) ==
    /\ links[l].st = "valid" /\ Deed
    /\ links' = [links EXCEPT ![l] = Ended(l, "expired")]
    /\ UNCHANGED <<roles, joined, accounts, opening, asked, shares, mailVars>>

\* consume_link() looks first, then claims it by a conditional update
AcceptBegins(o, l) ==
    /\ opening[o] = 0 /\ links[l].st = "valid"
    /\ opening' = [opening EXCEPT ![o] = l]
    /\ UNCHANGED <<roles, joined, accounts, links, asked, shares, mailVars, deeds>>

Claimable(l) == links[l].st = "valid"

\* accept(): all of it or nothing
AcceptEnds(o) ==
    /\ opening[o] # 0
    /\ opening' = [opening EXCEPT ![o] = 0]
    /\ LET l == opening[o]
           p == links[l].who
       IN  IF Claimable(l) /\ roles[p] # "out"
           THEN /\ links' = [Revoked({k \in Link \ {l} : links[k].who = p}) EXCEPT ![l] = Ended(l, "used")]
                /\ accounts' = [accounts EXCEPT ![p] = [st |-> "active", usable |-> TRUE, signedIn |-> TRUE]]
           ELSE UNCHANGED <<links, accounts>>
    /\ UNCHANGED <<roles, joined, asked, shares, mailVars, deeds>>

SignIn(p) ==
    /\ accounts[p].usable /\ ~accounts[p].signedIn /\ roles[p] # "out"
    /\ accounts' = [accounts EXCEPT ![p].signedIn = TRUE]
    /\ UNCHANGED <<roles, joined, links, opening, asked, shares, mailVars, deeds>>

-----------------------------------------------------------------------------
(***************************************************************************)
(* The outbox (NotificationEmailWorker)                                    *)
(***************************************************************************)
\* Never replay an uncertain send after a day
TooLate(r) == mails[r].age > 0 /\ mails[r].tries > 0

LeaseMail(r) ==
    /\ posting = 0 /\ mails[r].st \in {"pending", "sending"} /\ mails[r].due
    /\ LET leased == [mails[r] EXCEPT !.st = "sending", !.due = FALSE, !.tries = @ + 1] IN
       IF roles[mails[r].to] = "out"
       THEN mails' = [mails EXCEPT ![r] = [leased EXCEPT !.st = "cancelled"]] /\ UNCHANGED posting
       ELSE IF TooLate(r)
       THEN mails' = [mails EXCEPT ![r] = [leased EXCEPT !.st = "failed"]] /\ UNCHANGED posting
       ELSE mails' = [mails EXCEPT ![r] = leased] /\ posting' = r
    /\ UNCHANGED <<roles, joined, accounts, links, opening, asked, shares, deeds>>

\* The provider knows the idempotency key for a day
Taken(r) == IF mails[r].got > 0 /\ mails[r].age < 2 THEN mails[r].got ELSE mails[r].got + 1

MailSent ==
    /\ posting # 0 /\ posting' = 0
    /\ mails' = [mails EXCEPT ![posting].st = "sent", ![posting].got = Taken(posting)]
    /\ UNCHANGED <<roles, joined, accounts, links, opening, asked, shares, deeds>>

\* No answer: it may have been taken all the same
MailUncertain(taken) ==
    /\ posting # 0 /\ posting' = 0
    /\ mails' = [mails EXCEPT ![posting].st = IF mails[posting].tries >= MaxTries THEN "failed" ELSE "pending",
                              ![posting].got = IF taken THEN Taken(posting) ELSE @]
    /\ UNCHANGED <<roles, joined, accounts, links, opening, asked, shares, deeds>>

\* The process ends: the lease runs out
MailWorkerEnds(taken) ==
    /\ posting # 0 /\ posting' = 0
    /\ mails[posting].tries < MaxTries                                  \* bound
    /\ mails' = [mails EXCEPT ![posting].got = IF taken THEN Taken(posting) ELSE @]
    /\ UNCHANGED <<roles, joined, accounts, links, opening, asked, shares, deeds>>

MailDue(r) ==
    /\ mails[r].st \in {"pending", "sending"} /\ ~mails[r].due /\ posting # r
    /\ mails' = [mails EXCEPT ![r].due = TRUE]
    /\ UNCHANGED <<roles, joined, accounts, links, opening, asked, shares, posting, deeds>>

\* 23 hours pass, then the hour until the key is forgotten: longer than a send
MailAges(r) ==
    /\ mails[r].st \in {"pending", "sending"} /\ mails[r].age < 2
    /\ mails[r].age = 1 => posting # r
    /\ mails' = [mails EXCEPT ![r].age = @ + 1]
    /\ UNCHANGED <<roles, joined, accounts, links, opening, asked, shares, posting, deeds>>

-----------------------------------------------------------------------------
\* The others are owners too, or strangers
AccessInit ==
    /\ \E before \in {"owner", "elsewhere", "unknown"} :
          /\ roles = [p \in Person |-> IF p = Founder \/ before = "owner" THEN "owner" ELSE "out"]
          /\ accounts = [p \in Person |->
                CASE p = Founder \/ before = "owner" -> [st |-> "active", usable |-> TRUE, signedIn |-> TRUE]
                  [] p # Founder /\ before = "elsewhere" -> [st |-> "active", usable |-> TRUE, signedIn |-> FALSE]
                  [] OTHER -> [st |-> "none", usable |-> FALSE, signedIn |-> FALSE]]
    /\ joined = [p \in Person |-> 1]
    /\ links = [l \in Link |-> NoLink] /\ opening = [o \in Opener |-> 0]
    /\ asked = [c \in Clerk |-> Idle]
    /\ shares = [s \in Share |-> NoShare] /\ mails = [r \in Mail |-> NoMail]
    /\ posting = 0 /\ deeds = 0

AccessNext ==
    \/ \E c \in Clerk, p \in Person :
          \/ RequestBegins(c, p) \/ RemoveMember(c, p) \/ ResendInvite(c, p) \/ ResetAccess(c, p) \/ ShareBegins(c, p)
          \/ \E role \in Role : InvitePerson(c, p, role) \/ ChangeMemberRole(c, p, role)
    \/ \E c \in Clerk : ShareChecks(c) \/ ShareStores(c) \/ ShareTells(c)
    \/ \E c \in Clerk, s \in Share : RevokeShare(c, s)
    \/ \E p \in Person : RequestReset(p) \/ SignIn(p)
    \/ \E l \in Link : LinkLapses(l) \/ \E o \in Opener : AcceptBegins(o, l)
    \/ \E o \in Opener : AcceptEnds(o)
    \/ \E r \in Mail : LeaseMail(r) \/ MailDue(r) \/ MailAges(r)
    \/ MailSent
    \/ \E taken \in BOOLEAN : MailUncertain(taken) \/ MailWorkerEnds(taken)

AccessSpec == AccessInit /\ [][AccessNext]_accessVars

-----------------------------------------------------------------------------
\* However requests, links and retries overlap: the workspace keeps an owner
\* (_require_another_owner); a link ends once, used, replaced or expired
\* (consume_link); who reads the meeting was chosen as the member they are now
\* (_live_shares); no e-mail is delivered twice (process_pending); and what
\* revoke() could cancel is not sent.
AccessIsCurrent ==
    /\ \E p \in Person : roles[p] = "owner"
    /\ \A l \in Link : links[l].ends <= 1
    /\ \A p \in Person : MayRead(p) => \E s \in Share : shares[s].st = "live" /\ shares[s].who = p /\ shares[s].checked = joined[p]
    /\ \A r \in Mail : /\ mails[r].got <= 1
                       /\ mails[r].st \in {"pending", "sending"} /\ mails[r].of # 0 =>
                              mails[r].slipped \/ shares[mails[r].of].st # "revoked"
=============================================================================
