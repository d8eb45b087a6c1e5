-------------------------- MODULE ResearchExplorer --------------------------
(***************************************************************************)
(* The Research page: profiles saved from Apollo (research_service.py,      *)
(* research_store.py), the calls each person may make in a day              *)
(* (research_apollo.py), "Save to Apollo" (research_crm.py), the chats      *)
(* about a profile (research_chat.py) and the workspace's one Apollo        *)
(* connection (apollo_integration.py).  Every request awaits Apollo or the  *)
(* model with what it read before.  What Apollo answers about a subject is  *)
(* data: only whether it knows a likely match is kept.                      *)
(***************************************************************************)
EXTENDS Integers, FiniteSets

CONSTANTS Searcher,     \* owners, admins and members who use the page
          Manager,      \* those of them who are owners or admins
          Tab,          \* requests under way at a time
          Setup,        \* changes of the Apollo connection under way at a time
          Target,       \* companies and people of Apollo
          DailyLimit,   \* APOLLO_DAILY_CALLS_PER_USER
          FactCalls,    \* bound: calls one look-up takes
          MaxChanges,   \* bound: changes of the connection, and so keys ever connected
          MaxAsks,      \* bound: requests
          MaxRows,      \* bound: times a subject is saved
          MaxLosses,    \* bound: answers lost, restarts, records others add
          NoTab

ASSUME ExplorerAssumption ==
    /\ Manager \subseteq Searcher /\ DailyLimit \in Nat \ {0} /\ FactCalls \in Nat \ {0}
    /\ MaxChanges \in Nat /\ MaxAsks \in Nat /\ MaxRows \in Nat /\ MaxLosses \in Nat

VARIABLES profiles,     \* ResearchProfileRow of each subject: [on, id, crm]
          chats,        \* ResearchConversationRow: <<person, subject>>
          apollo,       \* Apollo's own records: a match known there, ours, an answer lost
          matches,      \* the duplicate check remembered for the row (crm_match)
          known,        \* subjects whose facts are cached
          ledger,       \* UsageEventRow of kind apollo today: [page, all]
          integration,  \* WorkspaceIntegrationRow: the account it names, and its status
          accounts,     \* connected accounts that exist at Composio
          tabs, setups, \* requests under way
          changes, asks, losses,   \* counted against the bounds
          severed                  \* a restart cut a disconnect in two

explorerVars == <<profiles, chats, apollo, matches, known, ledger, integration, accounts, tabs, setups, changes, asks, losses, severed>>

Rest == [at |-> "rest", kind |-> "none", who |-> NoTab, subject |-> NoTab, id |-> 0, need |-> 0, anyway |-> FALSE, thread |-> FALSE]
Still == [at |-> "rest", account |-> 0]
ResearchProfile    == [on : BOOLEAN, id : 0 .. MaxRows, crm : {"none", "created", "linked"}]
Conversations == Searcher \X Target   \* one chat per person and profile
Duplicates    == {"unknown", "none", "some"}   \* ApolloCacheRow of the check
IntegrationRow == [account : 0 .. MaxChanges, status : {"active", "invalid", "out_of_credit"}]
SpentCalls == [page : Nat, all : Nat]   \* UsageEventRow of a person and a day
Steps == {"rest", "gate", "queue", "asked", "model"}
Kinds == {"none", "save", "refresh", "check", "create", "chat"}

ExplorerTypeOK ==
    /\ profiles \in [Target -> ResearchProfile]
    /\ chats \subseteq Conversations /\ known \subseteq Target
    /\ apollo \in [Target -> [match : BOOLEAN, made : Nat, unsure : BOOLEAN]]
    /\ matches \in [Target -> Duplicates]
    /\ \A w \in Searcher : ledger[w] \in SpentCalls
    /\ integration \in IntegrationRow
    /\ accounts \subseteq 1 .. MaxChanges /\ changes \in 0 .. MaxChanges /\ asks \in 0 .. MaxAsks /\ losses \in 0 .. MaxLosses /\ severed \in BOOLEAN
    /\ \A t \in Tab : tabs[t].at \in Steps /\ tabs[t].kind \in Kinds /\ tabs[t].need \in 0 .. FactCalls
    /\ setups \in [Setup -> [at : {"rest", "testing", "rechecking", "forgetting", "closing", "closed"}, account : 0 .. MaxChanges]]

-----------------------------------------------------------------------------
(***************************************************************************)
(* Plausible bugs, see PROJECT.json                                        *)
(***************************************************************************)
CheckedBefore(w) == TRUE
NoLock(t) == TRUE
ThePageOnly(s) == "none"
RowsThatWere(s) == chats
ForgetsTheNewOne(k) == [at |-> "forgetting", account |-> setups[k].account]

-----------------------------------------------------------------------------
(***************************************************************************)
(* Who may ask                                                             *)
(***************************************************************************)
\* _account(): connected, and not refused by Apollo
Connected == integration.account # 0 /\ integration.status # "invalid"

\* require_budget()
Affords(w, calls) == ledger[w].all + calls <= DailyLimit

\* _begin() and the check under the lock: a manager, a saved profile, not in Apollo yet
MaySaveToApollo(w, s) == w \in Manager /\ profiles[s].on /\ profiles[s].crm = "none"

\* The same row as the request read
SameRow(t) == LET r == tabs[t] IN profiles[r.subject].on /\ profiles[r.subject].id = r.id

\* The lock of a profile (ApolloCrm._locks) is held past the gate
GateOpen(t) ==
    \A u \in Tab \ {t} : ~(/\ tabs[u].kind = "create" /\ tabs[u].at \in {"queue", "asked"}
                           /\ tabs[u].subject = tabs[t].subject /\ tabs[u].id = tabs[t].id)

\* The lock of a person (ExplorerApollo._budget_locks) is held while Apollo is asked
NobodyAsking(w) == \A u \in Tab : ~(tabs[u].at = "asked" /\ tabs[u].who = w)

\* _call() checks the budget once more, under the lock
HasBudget(w) == Affords(w, 1)

-----------------------------------------------------------------------------
(***************************************************************************)
(* Requests                                                                *)
(***************************************************************************)
Began(t, kind, w, s) == [Rest EXCEPT !.kind = kind, !.who = w, !.subject = s, !.id = profiles[s].id]
Setups == <<integration, accounts, setups, changes, severed>>
Starts(t, request) ==
    /\ tabs[t].at = "rest" /\ asks < MaxAsks /\ asks' = asks + 1
    /\ tabs' = [tabs EXCEPT ![t] = request]
Asks(t, request) == Connected /\ Starts(t, request)
Kept == <<profiles, chats, apollo, matches, known, ledger, losses>>

\* store.create(): one row per subject (uq_research_profile_apollo)
NewProfile(s) == [profiles EXCEPT ![s] = [on |-> TRUE, id |-> @.id, crm |-> "none"]]

\* store.refresh() keeps where the profile lives in Apollo
KeptOnRefresh(s) == profiles[s].crm

\* save(): the facts are cached, so no call is made
SaveFromCache(t, w, s) ==
    /\ tabs[t].at = "rest" /\ Connected /\ ~profiles[s].on /\ s \in known
    /\ profiles' = NewProfile(s)
    /\ UNCHANGED <<chats, apollo, matches, known, ledger, losses, tabs, asks, Setups>>

\* save() of a subject without a row, refresh() of one with a row: the facts come from Apollo
LookUp(t, w, s, calls) ==
    /\ Affords(w, calls) /\ (profiles[s].on \/ s \notin known)
    /\ Asks(t, [Began(t, IF profiles[s].on THEN "refresh" ELSE "save", w, s) EXCEPT !.at = "queue", !.need = calls])
    /\ UNCHANGED <<Kept, Setups>>

\* preview(): likely duplicates are always asked of Apollo
Preview(t, w, s) ==
    /\ MaySaveToApollo(w, s)
    /\ Asks(t, [Began(t, "check", w, s) EXCEPT !.at = "queue", !.need = 1])
    /\ UNCHANGED <<Kept, Setups>>

\* save() waits for the lock of the profile
SaveToApollo(t, w, s, anyway) ==
    /\ MaySaveToApollo(w, s)
    /\ Asks(t, [Began(t, "create", w, s) EXCEPT !.at = "gate", !.anyway = anyway])
    /\ UNCHANGED <<Kept, Setups>>

\* _link(): writes nothing to Apollo, only the id of a match of the last check
LinkToApollo(w, s) ==
    /\ Connected /\ MaySaveToApollo(w, s) /\ matches[s] = "some"
    /\ \A u \in Tab : ~(tabs[u].kind = "create" /\ tabs[u].at \in {"queue", "asked"} /\ tabs[u].subject = s /\ tabs[u].id = profiles[s].id)
    /\ profiles' = [profiles EXCEPT ![s].crm = "linked"]
    /\ UNCHANGED <<chats, apollo, matches, known, ledger, losses, tabs, asks, Setups>>

\* Under the lock the profile is read again; a remembered check decides, or one is made
PassGate(t) ==
    LET r == tabs[t] IN
    /\ r.at = "gate" /\ GateOpen(t)
    /\ tabs' = [tabs EXCEPT ![t] =
           IF ~SameRow(t) \/ profiles[r.subject].crm # "none" \/ (matches[r.subject] = "some" /\ ~r.anyway)
           THEN Rest
           ELSE [r EXCEPT !.at = "queue", !.need = IF matches[r.subject] = "unknown" THEN 1 ELSE 0]]
    /\ UNCHANGED <<Kept, asks, Setups>>

\* call(): the check of the budget, the call and its ledger row happen under the person's lock
EnterApollo(t) ==
    LET r == tabs[t] IN
    /\ r.at = "queue" /\ NobodyAsking(r.who)
    /\ tabs' = [tabs EXCEPT ![t] = IF HasBudget(r.who) THEN [r EXCEPT !.at = "asked"] ELSE Rest]
    /\ UNCHANGED <<Kept, asks, Setups>>

\* _record() of a call of the page
Recorded(w) == ledger' = [ledger EXCEPT ![w] = [page |-> @.page + 1, all |-> @.all + 1]]

\* Facts arrive: ask the rest, or save what was asked; the row may have come or gone meanwhile
FactsArrive(t) ==
    LET r == tabs[t]  s == r.subject IN
    /\ r.at = "asked" /\ r.kind \in {"save", "refresh"} /\ Recorded(r.who)
    /\ IF r.need > 1
       THEN tabs' = [tabs EXCEPT ![t] = [r EXCEPT !.at = "queue", !.need = @ - 1]] /\ UNCHANGED <<profiles, known>>
       ELSE /\ tabs' = [tabs EXCEPT ![t] = Rest] /\ known' = known \cup {s}
            /\ profiles' = IF r.kind = "save"
                           THEN (IF profiles[s].on THEN profiles ELSE NewProfile(s))
                           ELSE (IF SameRow(t) THEN [profiles EXCEPT ![s].crm = KeptOnRefresh(s)] ELSE profiles)
    /\ UNCHANGED <<chats, apollo, matches, losses, asks, Setups>>

\* _find_matches(): remembered for the decision; a create goes on unless there is a match
MatchesArrive(t) ==
    LET r == tabs[t]  s == r.subject
        found == IF apollo[s].match THEN "some" ELSE "none" IN
    /\ r.at = "asked" /\ r.kind \in {"check", "create"} /\ r.need = 1 /\ Recorded(r.who)
    /\ matches' = IF SameRow(t) THEN [matches EXCEPT ![s] = found] ELSE matches
    /\ tabs' = [tabs EXCEPT ![t] = IF r.kind = "create" /\ (found = "none" \/ r.anyway)
                                   THEN [r EXCEPT !.at = "queue", !.need = 0] ELSE Rest]
    /\ UNCHANGED <<profiles, chats, apollo, known, losses, asks, Setups>>

\* The record of the row the request read, or just one more record of the subject
OneMore(t, lost) ==
    IF SameRow(t) THEN [apollo EXCEPT ![tabs[t].subject] = [match |-> TRUE, made |-> @.made + 1, unsure |-> @.unsure \/ lost]]
    ELSE [apollo EXCEPT ![tabs[t].subject].match = TRUE]

\* The record is made and its id remembered, unless the profile was deleted meanwhile
RecordMade(t) ==
    LET r == tabs[t] IN
    /\ r.at = "asked" /\ r.kind = "create" /\ r.need = 0 /\ Recorded(r.who)
    /\ apollo' = OneMore(t, FALSE)
    /\ profiles' = IF SameRow(t) THEN [profiles EXCEPT ![r.subject].crm = "created"] ELSE profiles
    /\ tabs' = [tabs EXCEPT ![t] = Rest]
    /\ UNCHANGED <<chats, matches, known, losses, asks, Setups>>

\* The call failed, or its answer was lost or had no id: a record may have been made all the same
CallFails(t, why) ==
    LET r == tabs[t] IN
    /\ r.at = "asked" /\ losses < MaxLosses /\ losses' = losses + 1 /\ Recorded(r.who)
    /\ apollo' \in {apollo} \cup (IF r.kind = "create" /\ r.need = 0 /\ why = "lost" THEN {OneMore(t, TRUE)} ELSE {})
    /\ integration' = IF why = "lost" \/ integration.account = 0 THEN integration ELSE [integration EXCEPT !.status = why]
    /\ tabs' = [tabs EXCEPT ![t] = Rest]
    /\ UNCHANGED <<profiles, chats, matches, known, accounts, setups, changes, severed, asks>>

-----------------------------------------------------------------------------
(***************************************************************************)
(* Chats, deletion, the passing of time, and calls of other parts           *)
(***************************************************************************)
\* chat(): a new conversation, or one of the asker's own
AskAI(t, w, s, thread) ==
    /\ profiles[s].on /\ (thread => <<w, s>> \in chats)
    /\ Starts(t, [Began(t, "chat", w, s) EXCEPT !.at = "model", !.thread = thread])
    /\ UNCHANGED <<Kept, Setups>>

\* The model answers or fails; save_exchange(): the conversation must still be there, a new one needs its profile (foreign key)
Exchange(t) ==
    LET c == <<tabs[t].who, tabs[t].subject>> IN
    IF tabs[t].thread \/ ~SameRow(t) THEN chats ELSE chats \cup {c}

Answered(t) ==
    /\ tabs[t].at = "model"
    /\ chats' \in {chats, Exchange(t)} /\ tabs' = [tabs EXCEPT ![t] = Rest]
    /\ UNCHANGED <<profiles, apollo, matches, known, ledger, losses, asks, Setups>>

DeleteConversation(w, s) ==
    /\ <<w, s>> \in chats /\ chats' = chats \ {<<w, s>>}
    /\ UNCHANGED <<profiles, apollo, matches, known, ledger, losses, tabs, asks, Setups>>

\* delete(): everyone's chats about the profile go with it
ChatsAfterDelete(s) == {c \in chats : c[2] # s}

DeleteProfile(s) ==
    /\ profiles[s].on /\ profiles[s].id < MaxRows
    /\ profiles' = [profiles EXCEPT ![s] = [on |-> FALSE, id |-> @.id + 1, crm |-> "none"]]
    /\ chats' = ChatsAfterDelete(s) /\ matches' = [matches EXCEPT ![s] = "unknown"]
    /\ apollo' = [apollo EXCEPT ![s] = [@ EXCEPT !.made = 0, !.unsure = FALSE]]
    /\ UNCHANGED <<known, ledger, losses, tabs, asks, Setups>>

\* Cached facts and checks run out (ApolloCache)
Expire(s) ==
    /\ matches[s] # "unknown" \/ s \in known
    /\ matches' = [matches EXCEPT ![s] = "unknown"] /\ known' = known \ {s}
    /\ UNCHANGED <<profiles, chats, apollo, ledger, losses, tabs, asks, Setups>>

\* Somebody adds the subject to Apollo by hand
AddedElsewhere(s) ==
    /\ ~apollo[s].match /\ losses < MaxLosses /\ losses' = losses + 1
    /\ apollo' = [apollo EXCEPT ![s].match = TRUE]
    /\ UNCHANGED <<profiles, chats, matches, known, ledger, tabs, asks, Setups>>

\* A briefing of the same person asks Apollo outside the page's lock (apollo_research.py)
BriefingCall(w) ==
    /\ ledger[w].all <= DailyLimit /\ ledger' = [ledger EXCEPT ![w].all = @ + 1]
    /\ UNCHANGED <<profiles, chats, apollo, matches, known, losses, tabs, asks, Setups>>

\* A new UTC day
Midnight ==
    /\ losses < MaxLosses /\ losses' = losses + 1 /\ \E w \in Searcher : ledger[w].all > 0
    /\ ledger' = [w \in Searcher |-> [page |-> 0, all |-> 0]]
    /\ UNCHANGED <<profiles, chats, apollo, matches, known, tabs, asks, Setups>>

-----------------------------------------------------------------------------
(***************************************************************************)
(* The connection                                                          *)
(***************************************************************************)
Page == <<profiles, chats, apollo, ledger, tabs, asks, losses>>
Begins(k) == setups[k].at = "rest" /\ changes < MaxChanges /\ changes' = changes + 1
Sets(k, at, account) == setups' = [setups EXCEPT ![k] = [at |-> at, account |-> account]]

\* connect(): Composio registers the key, then it is tested
Connect(k) ==
    /\ Begins(k) /\ accounts' = accounts \cup {changes'} /\ Sets(k, "testing", changes')
    /\ UNCHANGED <<Page, matches, known, integration, severed>>

\* _save() replaces the account of the one row, and the account before is forgotten
Replaced(k) == IF integration.account = 0 THEN Still ELSE [at |-> "forgetting", account |-> integration.account]

Tested(k, accepted) ==
    /\ setups[k].at = "testing"
    /\ IF accepted
       THEN /\ \E status \in {"active", "out_of_credit"} : integration' = [account |-> setups[k].account, status |-> status]
            /\ setups' = [setups EXCEPT ![k] = Replaced(k)]
       ELSE Sets(k, "forgetting", setups[k].account) /\ UNCHANGED integration
    /\ UNCHANGED <<Page, matches, known, accounts, changes, severed>>

\* _forget_account(): a failure is only logged
Forget(k, gone) ==
    /\ setups[k].at = "forgetting" /\ Sets(k, "rest", 0)
    /\ accounts' = IF gone THEN accounts \ {setups[k].account} ELSE accounts
    /\ UNCHANGED <<Page, matches, known, integration, changes, severed>>

\* disconnect(): the account it read goes at Composio, or Composio refuses
Disconnect(k) ==
    /\ Begins(k) /\ integration.account # 0 /\ Sets(k, "closing", integration.account)
    /\ UNCHANGED <<Page, matches, known, integration, accounts, severed>>

CloseAccount(k, closed) ==
    /\ setups[k].at = "closing"
    /\ IF closed THEN Sets(k, "closed", setups[k].account) /\ accounts' = accounts \ {setups[k].account}
       ELSE Sets(k, "rest", 0) /\ UNCHANGED accounts
    /\ UNCHANGED <<Page, matches, known, integration, changes, severed>>

\* ... then the row goes, whatever account it names by now, and the cache is cleared
Disconnected(k) ==
    /\ setups[k].at = "closed" /\ Sets(k, "rest", 0)
    /\ integration' = [account |-> 0, status |-> "active"]
    /\ known' = {} /\ matches' = [s \in Target |-> "unknown"]
    /\ UNCHANGED <<Page, accounts, changes, severed>>

\* test(): the answer is written only for the account that was asked, a refusal for any
Recheck(k) ==
    /\ Begins(k) /\ integration.account # 0 /\ Sets(k, "rechecking", integration.account)
    /\ UNCHANGED <<Page, matches, known, integration, accounts, severed>>

Rechecked(k, status) ==
    /\ setups[k].at = "rechecking" /\ Sets(k, "rest", 0)
    /\ integration' = IF integration.account = 0 \/ (status # "invalid" /\ integration.account # setups[k].account)
                      THEN integration ELSE [integration EXCEPT !.status = status]
    /\ UNCHANGED <<Page, matches, known, accounts, changes, severed>>

\* The process ends: every request is gone, and what Apollo had been asked may still be done
Restart ==
    /\ losses < MaxLosses /\ losses' = losses + 1
    /\ \E t \in Tab : tabs[t].at # "rest" \/ \E k \in Setup : setups[k].at # "rest"
    /\ tabs' = [t \in Tab |-> Rest] /\ setups' = [k \in Setup |-> Still]
    /\ severed' = (severed \/ \E k \in Setup : setups[k].at = "closed")
    /\ apollo' \in {apollo} \cup {OneMore(t, TRUE) : t \in {u \in Tab : tabs[u].at = "asked" /\ tabs[u].kind = "create" /\ tabs[u].need = 0}}
    /\ UNCHANGED <<profiles, chats, matches, known, ledger, integration, accounts, changes, asks>>

-----------------------------------------------------------------------------
ExplorerInit ==
    /\ profiles = [s \in Target |-> [on |-> FALSE, id |-> 0, crm |-> "none"]]
    /\ chats = {} /\ known = {} /\ matches = [s \in Target |-> "unknown"]
    /\ apollo = [s \in Target |-> [match |-> FALSE, made |-> 0, unsure |-> FALSE]]
    /\ ledger = [w \in Searcher |-> [page |-> 0, all |-> 0]]
    /\ integration \in {[account |-> a, status |-> "active"] : a \in {0, 1}} /\ accounts = {1} \cap {integration.account}
    /\ changes \in integration.account .. MaxChanges /\ asks \in 0 .. MaxAsks
    /\ tabs = [t \in Tab |-> Rest] /\ setups = [k \in Setup |-> Still] /\ losses = 0 /\ severed = FALSE

SearcherSteps ==
    \/ \E t \in Tab, w \in Searcher, s \in Target :
           \/ SaveFromCache(t, w, s) \/ Preview(t, w, s)
           \/ \E calls \in 1 .. FactCalls : LookUp(t, w, s, calls)
           \/ \E anyway \in BOOLEAN : SaveToApollo(t, w, s, anyway)
           \/ \E thread \in BOOLEAN : AskAI(t, w, s, thread)
    \/ \E w \in Searcher, s \in Target : LinkToApollo(w, s) \/ DeleteConversation(w, s)
    \/ \E s \in Target : DeleteProfile(s)

RequestSteps ==
    \E t \in Tab :
        \/ PassGate(t) \/ EnterApollo(t) \/ FactsArrive(t) \/ MatchesArrive(t) \/ RecordMade(t) \/ Answered(t)
        \/ \E why \in {"lost", "invalid", "out_of_credit"} : CallFails(t, why)

ConnectionSteps ==
    \E k \in Setup :
        \/ Connect(k) \/ Disconnect(k) \/ Disconnected(k) \/ Recheck(k)
        \/ \E ok \in BOOLEAN : Tested(k, ok) \/ Forget(k, ok) \/ CloseAccount(k, ok)
        \/ \E status \in {"active", "invalid", "out_of_credit"} : Rechecked(k, status)

OutsideSteps ==
    \/ \E s \in Target : Expire(s) \/ AddedElsewhere(s)
    \/ \E w \in Searcher : BriefingCall(w)
    \/ Midnight \/ Restart

ExplorerNext == SearcherSteps \/ RequestSteps \/ ConnectionSteps \/ OutsideSteps

ExplorerSpec == ExplorerInit /\ [][ExplorerNext]_explorerVars

-----------------------------------------------------------------------------
(***************************************************************************)
(* Properties                                                              *)
(***************************************************************************)
\* The page never makes more calls for a person in a day than the limit, however many tabs ask
BudgetKept == \A w \in Searcher : ledger[w].page <= DailyLimit

\* A profile has one record of its own in Apollo, remembered with it, unless an answer was lost
OneRecordEach ==
    \A s \in Target :
        profiles[s].on /\ ~apollo[s].unsure => apollo[s].made = (IF profiles[s].crm = "created" THEN 1 ELSE 0)

\* A chat is about a profile that is still saved
ChatsOfSavedProfiles == \A c \in chats : profiles[c[2]].on

\* The connection the workspace shows exists at Composio, except while it is being taken away
ConnectionExists ==
    integration.account # 0 => \/ integration.account \in accounts \/ severed
                               \/ \E k \in Setup : setups[k] = [at |-> "closed", account |-> integration.account]

\* What the Research page promises: no call past the daily limit and no second record in Apollo
\* though tabs, double clicks, deletions and restarts interleave; no chat of a deleted profile;
\* no connection that was thrown away
ExplorerKeepsItsWord == ExplorerTypeOK /\ BudgetKept /\ OneRecordEach /\ ChatsOfSavedProfiles /\ ConnectionExists
=============================================================================
