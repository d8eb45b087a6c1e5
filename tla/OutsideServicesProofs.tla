------------------------- MODULE OutsideServicesProofs -------------------------
(***************************************************************************)
(* Proofs about the services outside that requests go to, for any number of *)
(* people, requests, profiles and changes meanwhile: the calls of Apollo    *)
(* are paid for and leave one record each (ResearchExplorer); a request     *)
(* goes to the provider its route names, with a key of that place           *)
(* (ProviderRoutes).                                                        *)
(***************************************************************************)
EXTENDS ResearchExplorer, ProviderRoutes, SequenceTheorems, TLAPS

-----------------------------------------------------------------------------
(***************************************************************************)
(* The Research page.  The id of a row grows when its profile is deleted,   *)
(* so a request that read an earlier row writes nothing; past the lock of a *)
(* row one request at a time creates its record; and whoever asks Apollo    *)
(* holds the lock of a person who had a call left.  An account is numbered  *)
(* as it is made: one under test is nobody else's, one to be forgotten is   *)
(* not the one in use.                                                      *)
(***************************************************************************)
PageRequest  == [at : Steps, kind : Kinds, who : Searcher \cup {NoTab}, subject : Target \cup {NoTab}, id : 0 .. MaxRows,
                 need : 0 .. FactCalls, anyway : BOOLEAN, thread : BOOLEAN]
ApolloRecord == [match : BOOLEAN, made : Nat, unsure : BOOLEAN]
SetupChange  == [at : {"rest", "testing", "rechecking", "forgetting", "closing", "closed"}, account : 0 .. MaxChanges]

\* The types of the page's variables, and of those of the connection
PageTypes ==
    /\ profiles \in [Target -> ResearchProfile] /\ chats \subseteq Conversations /\ known \subseteq Target
    /\ apollo \in [Target -> ApolloRecord] /\ matches \in [Target -> Duplicates]
    /\ ledger \in [Searcher -> SpentCalls]
    /\ asks \in 0 .. MaxAsks /\ losses \in 0 .. MaxLosses

LinkTypes ==
    /\ integration \in IntegrationRow /\ accounts \subseteq 1 .. MaxChanges
    /\ changes \in 0 .. MaxChanges /\ severed \in BOOLEAN /\ setups \in [Setup -> SetupChange]

\* A request is somebody's, about a row there has been
TabsAreTyped ==
    /\ tabs \in [Tab -> PageRequest]
    /\ \A t \in Tab : tabs[t].at # "rest" => /\ tabs[t].who \in Searcher /\ tabs[t].subject \in Target
                                             /\ tabs[t].id <= profiles[tabs[t].subject].id

\* Calls of the page are part of all calls; a person asks once at a time, with a call left
PageIsCounted ==
    /\ \A w \in Searcher : ledger[w].page <= ledger[w].all
    /\ \A t \in Tab : tabs[t].at = "asked" => ledger[tabs[t].who].page < DailyLimit
    /\ \A t, u \in Tab : tabs[t].at = "asked" /\ tabs[u].at = "asked" /\ tabs[t].who = tabs[u].who => t = u

\* Past the gate there is one request for a row, whose profile is not in Apollo yet
PastGate(t) == tabs[t].kind = "create" /\ tabs[t].at \in {"queue", "asked"}
GateIsNarrow ==
    /\ \A t, u \in Tab :
           PastGate(t) /\ PastGate(u) /\ tabs[t].subject = tabs[u].subject /\ tabs[t].id = tabs[u].id => t = u
    /\ \A t \in Tab : PastGate(t) /\ SameRow(t) => profiles[tabs[t].subject].crm = "none"

\* No record counts for a row that is not there
DeletedHaveNone == \A s \in Target : ~profiles[s].on => apollo[s].made = 0 /\ ~apollo[s].unsure

\* Accounts are numbered as they are made; one under test is nobody else's, one to forget is not in use
AccountsAreOwned ==
    /\ integration.account <= changes /\ \A a \in accounts : a <= changes
    /\ \A k \in Setup : setups[k].account <= changes
    /\ \A k \in Setup : setups[k].at = "testing" =>
           /\ setups[k].account \in accounts /\ setups[k].account # integration.account
           /\ \A j \in Setup \ {k} : setups[j].at # "rest" => setups[j].account # setups[k].account
    /\ \A k \in Setup : setups[k].at = "forgetting" => setups[k].account \notin {0, integration.account}

PageInv == /\ PageTypes /\ TabsAreTyped /\ BudgetKept /\ PageIsCounted /\ GateIsNarrow
           /\ DeletedHaveNone /\ OneRecordEach /\ ChatsOfSavedProfiles
LinkInv == LinkTypes /\ AccountsAreOwned /\ ConnectionExists

ExplorerInv == PageInv /\ LinkInv

USE ExplorerAssumption DEF ExplorerAssumption

-----------------------------------------------------------------------------
\* At first nobody asks and nothing is saved
LEMMA ExplorerBegun == ExplorerInit => ExplorerInv
<1> SUFFICES ASSUME ExplorerInit PROVE ExplorerInv  OBVIOUS
<1>1. PageTypes
    BY DEF ExplorerInit, PageTypes, ResearchProfile, ApolloRecord, Duplicates, SpentCalls
<1>2. TabsAreTyped  BY DEF ExplorerInit, TabsAreTyped, PageRequest, Rest, Steps, Kinds
<1>3. BudgetKept /\ PageIsCounted  BY DEF ExplorerInit, BudgetKept, PageIsCounted, Rest
<1>4. GateIsNarrow  BY DEF ExplorerInit, GateIsNarrow, PastGate, Rest
<1>5. DeletedHaveNone /\ OneRecordEach /\ ChatsOfSavedProfiles
    BY DEF ExplorerInit, DeletedHaveNone, OneRecordEach, ChatsOfSavedProfiles
<1>6. PICK a \in {0, 1} : integration = [account |-> a, status |-> "active"]  BY DEF ExplorerInit
<1>7. changes \in Nat /\ a <= changes /\ changes <= MaxChanges  BY <1>6 DEF ExplorerInit
<1>8. accounts = {1} \cap {a} /\ setups = [k \in Setup |-> Still] /\ severed = FALSE  BY <1>6 DEF ExplorerInit
<1>9. LinkTypes
    <2>1. a \in 0 .. MaxChanges  BY <1>7
    <2>2. integration \in IntegrationRow  BY <1>6, <2>1 DEF IntegrationRow
    <2>3. accounts \subseteq 1 .. MaxChanges  BY <1>7, <1>8
    <2>4. setups \in [Setup -> SetupChange]  BY <1>8 DEF SetupChange, Still
    <2>5. changes \in 0 .. MaxChanges  BY <1>7
    <2>6. severed \in BOOLEAN  BY <1>8
    <2> QED  BY <2>2, <2>3, <2>4, <2>5, <2>6 DEF LinkTypes
<1>10. AccountsAreOwned  BY <1>6, <1>7, <1>8 DEF AccountsAreOwned, Still
<1>11. ConnectionExists  BY <1>6, <1>8 DEF ConnectionExists
<1> QED  BY <1>1, <1>2, <1>3, <1>4, <1>5, <1>9, <1>10, <1>11 DEF ExplorerInv, PageInv, LinkInv

-----------------------------------------------------------------------------
(***************************************************************************)
(* What a step leaves as it is                                             *)
(***************************************************************************)

\* A request that goes on, or ends, is about the row it was about
GoesOn(r, q) == r.at # "rest" => /\ q.at # "rest" /\ r.who = q.who /\ r.subject = q.subject
                                 /\ r.id = q.id /\ r.kind = q.kind

\* Rows keep their ids or get later ones
RowsGrow == \A s \in Target : profiles[s].id <= profiles'[s].id

LEMMA RestIsRequest == Rest \in PageRequest /\ Rest.at = "rest"
BY DEF Rest, PageRequest, Steps, Kinds

LEMMA TabsStay ==
    ASSUME PageTypes, PageTypes', TabsAreTyped, RowsGrow, tabs' \in [Tab -> PageRequest],
           \A t \in Tab : GoesOn(tabs'[t], tabs[t])
    PROVE  TabsAreTyped'
<1> SUFFICES ASSUME NEW t \in Tab, tabs'[t].at # "rest"
             PROVE  /\ tabs'[t].who \in Searcher /\ tabs'[t].subject \in Target
                    /\ tabs'[t].id <= profiles'[tabs'[t].subject].id
    BY DEF TabsAreTyped
<1>1. /\ tabs[t].at # "rest" /\ tabs'[t].who = tabs[t].who /\ tabs'[t].subject = tabs[t].subject
      /\ tabs'[t].id = tabs[t].id
    BY DEF GoesOn
<1>2. tabs[t].who \in Searcher /\ tabs[t].subject \in Target  BY <1>1 DEF TabsAreTyped
<1>3. tabs[t].id <= profiles[tabs[t].subject].id  BY <1>1 DEF TabsAreTyped
<1>4. profiles[tabs[t].subject].id <= profiles'[tabs[t].subject].id  BY <1>2 DEF RowsGrow
<1>5. tabs[t].id \in Int  BY DEF TabsAreTyped, PageRequest
<1>6. profiles[tabs[t].subject].id \in Int /\ profiles'[tabs[t].subject].id \in Int
    BY <1>2 DEF PageTypes, ResearchProfile
<1> HIDE DEF PageTypes, TabsAreTyped
<1>7. tabs[t].id <= profiles'[tabs[t].subject].id  BY <1>3, <1>4, <1>5, <1>6
<1> QED  BY <1>1, <1>2, <1>7

\* Nobody new passes the gate, and no row of a request past it is put into Apollo
LEMMA GateStays ==
    ASSUME GateIsNarrow, TabsAreTyped, \A t \in Tab : GoesOn(tabs'[t], tabs[t]),
           \A t \in Tab : PastGate(t)' => PastGate(t),
           \A t \in Tab : PastGate(t)' /\ SameRow(t)' => SameRow(t),
           \A t \in Tab : PastGate(t)' /\ SameRow(t)' =>
               profiles'[tabs[t].subject].crm = profiles[tabs[t].subject].crm
    PROVE  GateIsNarrow'
<1>1. \A t \in Tab : PastGate(t)' => /\ PastGate(t) /\ tabs'[t].subject = tabs[t].subject
                                     /\ tabs'[t].id = tabs[t].id
    BY DEF PastGate, GoesOn
<1>2. ASSUME NEW t \in Tab, NEW u \in Tab, PastGate(t)', PastGate(u)',
             tabs'[t].subject = tabs'[u].subject, tabs'[t].id = tabs'[u].id
      PROVE  t = u
    BY <1>1, <1>2 DEF GateIsNarrow
<1>3. ASSUME NEW t \in Tab, PastGate(t)', SameRow(t)' PROVE profiles'[tabs'[t].subject].crm = "none"
    BY <1>1, <1>3 DEF GateIsNarrow
<1> QED  BY <1>2, <1>3 DEF GateIsNarrow

\* Nobody asks who did not ask before
LEMMA CountStays ==
    ASSUME BudgetKept, PageIsCounted, ledger' = ledger, \A t \in Tab : GoesOn(tabs'[t], tabs[t]),
           \A t \in Tab : tabs'[t].at = "asked" => tabs[t].at = "asked"
    PROVE  BudgetKept' /\ PageIsCounted'
<1>1. BudgetKept'  BY DEF BudgetKept
<1>2. \A t \in Tab : tabs'[t].at = "asked" => tabs[t].at = "asked" /\ tabs'[t].who = tabs[t].who  BY DEF GoesOn
<1> QED  BY <1>1, <1>2 DEF PageIsCounted

\* The call that ends is written down, and its person's lock is free
LEMMA CallIsCounted ==
    ASSUME PageTypes, TabsAreTyped, BudgetKept, PageIsCounted, NEW t \in Tab, tabs[t].at = "asked",
           Recorded(tabs[t].who), tabs'[t].at # "asked", \A u \in Tab \ {t} : tabs'[u] = tabs[u]
    PROVE  ledger' \in [Searcher -> SpentCalls] /\ BudgetKept' /\ PageIsCounted'
<1> DEFINE w == tabs[t].who
<1>1. w \in Searcher  BY DEF TabsAreTyped
<1>2. ledger[w].page \in Nat /\ ledger[w].all \in Nat  BY <1>1 DEF PageTypes, SpentCalls
<1>3. ledger' = [ledger EXCEPT ![w] = [page |-> ledger[w].page + 1, all |-> ledger[w].all + 1]]  BY DEF Recorded
<1>4. ledger'[w].page = ledger[w].page + 1 /\ ledger'[w].all = ledger[w].all + 1
    BY <1>1, <1>3 DEF PageTypes
<1>5. \A v \in Searcher \ {w} : ledger'[v] = ledger[v]  BY <1>3 DEF PageTypes
<1>6. [page |-> ledger[w].page + 1, all |-> ledger[w].all + 1] \in SpentCalls  BY <1>2 DEF SpentCalls
<1>7. ledger' \in [Searcher -> SpentCalls]  BY <1>3, <1>6 DEF PageTypes
<1>8. ledger[w].page < DailyLimit /\ ledger[w].page <= ledger[w].all  BY <1>1 DEF PageIsCounted
<1> HIDE DEF w
<1>9. ledger'[w].page <= DailyLimit /\ ledger'[w].page <= ledger'[w].all  BY <1>2, <1>4, <1>8
<1>10. BudgetKept'  BY <1>5, <1>9 DEF BudgetKept
<1>11. \A v \in Searcher : ledger'[v].page <= ledger'[v].all  BY <1>5, <1>9 DEF PageIsCounted
<1>12. ASSUME NEW u \in Tab, tabs'[u].at = "asked" PROVE ledger'[tabs'[u].who].page < DailyLimit
    <2>1. u # t /\ tabs'[u] = tabs[u]  BY <1>12
    <2>2. tabs[u].who \in Searcher  BY <1>12, <2>1 DEF TabsAreTyped
    <2>3. tabs[u].who # w  BY <1>12, <2>1 DEF PageIsCounted, w
    <2>4. ledger[tabs[u].who].page < DailyLimit  BY <1>12, <2>1 DEF PageIsCounted
    <2> QED  BY <1>5, <2>1, <2>2, <2>3, <2>4
<1>13. ASSUME NEW u \in Tab, NEW v \in Tab, tabs'[u].at = "asked", tabs'[v].at = "asked", tabs'[u].who = tabs'[v].who
       PROVE  u = v
    <2>1. tabs'[u] = tabs[u] /\ tabs'[v] = tabs[v]  BY <1>13
    <2> QED  BY <1>13, <2>1 DEF PageIsCounted
<1> QED  BY <1>7, <1>10, <1>11, <1>12, <1>13 DEF PageIsCounted

-----------------------------------------------------------------------------
(***************************************************************************)
(* Requests                                                                *)
(***************************************************************************)

\* A request that begins is about a row as it is, and has neither passed the gate nor asked
LEMMA StartKeeps ==
    ASSUME PageInv, NEW t \in Tab, NEW r \in PageRequest, Starts(t, r), UNCHANGED Kept,
           r.at \in {"gate", "queue", "model"}, r.kind = "create" => r.at # "queue",
           r.who \in Searcher, r.subject \in Target, r.id = profiles[r.subject].id
    PROVE  PageInv'
<1> USE DEF PageInv
<1>1. tabs' = [tabs EXCEPT ![t] = r] /\ asks' = asks + 1 /\ asks < MaxAsks /\ tabs[t].at = "rest"  BY DEF Starts
<1>2. /\ profiles' = profiles /\ chats' = chats /\ apollo' = apollo /\ matches' = matches
      /\ known' = known /\ ledger' = ledger /\ losses' = losses
    BY DEF Kept
<1>3. tabs' \in [Tab -> PageRequest] /\ tabs'[t] = r /\ \A u \in Tab \ {t} : tabs'[u] = tabs[u]
    BY <1>1 DEF TabsAreTyped
<1>4. asks' \in 0 .. MaxAsks
    <2>1. asks \in 0 .. MaxAsks  BY DEF PageTypes
    <2> QED  BY <1>1, <2>1
<1>5. PageTypes'  BY <1>2, <1>4 DEF PageTypes
<1>6. profiles[r.subject].id \in Nat  BY DEF PageTypes, ResearchProfile
<1>7. r.id <= profiles'[r.subject].id  BY <1>2, <1>6
<1>8. TabsAreTyped'
    <2> SUFFICES ASSUME NEW u \in Tab, tabs'[u].at # "rest"
                 PROVE  /\ tabs'[u].who \in Searcher /\ tabs'[u].subject \in Target
                        /\ tabs'[u].id <= profiles'[tabs'[u].subject].id
        BY <1>3 DEF TabsAreTyped
    <2>1. CASE u = t  BY <1>3, <1>7, <2>1
    <2>2. CASE u # t  BY <1>2, <1>3, <2>2 DEF TabsAreTyped
    <2> QED  BY <2>1, <2>2
<1>9. BudgetKept' /\ PageIsCounted'
    <2>1. \A u \in Tab : tabs'[u].at = "asked" => tabs'[u] = tabs[u]  BY <1>3
    <2>2. BudgetKept'  BY <1>2 DEF BudgetKept
    <2> QED  BY <1>2, <2>1, <2>2 DEF PageIsCounted
<1>10. GateIsNarrow'
    <2>1. \A u \in Tab : PastGate(u)' => u # t /\ tabs'[u] = tabs[u] /\ PastGate(u)  BY <1>3 DEF PastGate
    <2>2. \A u \in Tab : PastGate(u)' => (SameRow(u)' <=> SameRow(u))  BY <1>2, <2>1 DEF SameRow
    <2> QED  BY <1>2, <2>1, <2>2 DEF GateIsNarrow
<1>11. DeletedHaveNone' /\ OneRecordEach' /\ ChatsOfSavedProfiles'
    BY <1>2 DEF DeletedHaveNone, OneRecordEach, ChatsOfSavedProfiles
<1> QED  BY <1>5, <1>8, <1>9, <1>10, <1>11

\* The shape of a request that begins
LEMMA BeganShape ==
    ASSUME PageTypes, NEW t \in Tab, NEW kind \in Kinds, NEW w \in Searcher, NEW s \in Target
    PROVE  LET r == Began(t, kind, w, s) IN
           /\ r \in PageRequest
           /\ r.kind = kind /\ r.who = w /\ r.subject = s /\ r.id = profiles[s].id
<1> DEFINE r == Began(t, kind, w, s)
<1>1. profiles[s].id \in 0 .. MaxRows  BY DEF PageTypes, ResearchProfile
<1>2. r = [Rest EXCEPT !.kind = kind, !.who = w, !.subject = s, !.id = profiles[s].id]  BY DEF Began
<1>3. Rest \in PageRequest  BY RestIsRequest
<1> QED  BY <1>1, <1>2, <1>3 DEF PageRequest

\* Requests begin, whatever they are for
LEMMA RequestsBegin ==
    ASSUME PageInv, NEW t \in Tab, NEW w \in Searcher, NEW s \in Target,
           \/ Preview(t, w, s)
           \/ \E calls \in 1 .. FactCalls : LookUp(t, w, s, calls)
           \/ \E anyway \in BOOLEAN : SaveToApollo(t, w, s, anyway)
           \/ \E thread \in BOOLEAN : AskAI(t, w, s, thread)
    PROVE  PageInv'
<1>0. PageTypes  BY DEF PageInv
<1>1. CASE Preview(t, w, s)
    <2> DEFINE q == Began(t, "check", w, s)
               r == [q EXCEPT !.at = "queue", !.need = 1]
    <2>0. 1 \in 0 .. FactCalls  OBVIOUS
    <2>1. q \in PageRequest /\ q.kind = "check" /\ q.who = w /\ q.subject = s /\ q.id = profiles[s].id
        BY <1>0, BeganShape DEF Kinds
    <2>2. Starts(t, r) /\ UNCHANGED Kept  BY <1>1 DEF Preview, Asks
    <2> HIDE DEF q
    <2>3. r \in PageRequest  BY <2>0, <2>1 DEF PageRequest, Steps
    <2>4. r.at = "queue" /\ r.kind = "check" /\ r.who = w /\ r.subject = s /\ r.id = profiles[s].id
        BY <2>1 DEF PageRequest
    <2> HIDE DEF r
    <2> QED  BY <2>2, <2>3, <2>4, StartKeeps
<1>2. CASE \E calls \in 1 .. FactCalls : LookUp(t, w, s, calls)
    <2> PICK calls \in 1 .. FactCalls : LookUp(t, w, s, calls)  BY <1>2
    <2> DEFINE kind == IF profiles[s].on THEN "refresh" ELSE "save"
               q == Began(t, kind, w, s)
               r == [q EXCEPT !.at = "queue", !.need = calls]
    <2>0. kind \in Kinds \ {"create"} /\ calls \in 0 .. FactCalls  BY DEF Kinds
    <2>1. q \in PageRequest /\ q.kind = kind /\ q.who = w /\ q.subject = s /\ q.id = profiles[s].id
        <3> HIDE DEF kind
        <3> QED  BY <1>0, <2>0, BeganShape
    <2>2. Starts(t, r) /\ UNCHANGED Kept  BY DEF LookUp, Asks
    <2> HIDE DEF q, kind
    <2>3. r \in PageRequest  BY <2>0, <2>1 DEF PageRequest, Steps
    <2>4. r.at = "queue" /\ r.kind = kind /\ r.who = w /\ r.subject = s /\ r.id = profiles[s].id
        BY <2>1 DEF PageRequest
    <2> HIDE DEF r
    <2> QED  BY <2>0, <2>2, <2>3, <2>4, StartKeeps
<1>3. CASE \E anyway \in BOOLEAN : SaveToApollo(t, w, s, anyway)
    <2> PICK anyway \in BOOLEAN : SaveToApollo(t, w, s, anyway)  BY <1>3
    <2> DEFINE q == Began(t, "create", w, s)
               r == [q EXCEPT !.at = "gate", !.anyway = anyway]
    <2>1. q \in PageRequest /\ q.kind = "create" /\ q.who = w /\ q.subject = s /\ q.id = profiles[s].id
        BY <1>0, BeganShape DEF Kinds
    <2>2. Starts(t, r) /\ UNCHANGED Kept  BY DEF SaveToApollo, Asks
    <2> HIDE DEF q
    <2>3. r \in PageRequest  BY <2>1 DEF PageRequest, Steps
    <2>4. r.at = "gate" /\ r.kind = "create" /\ r.who = w /\ r.subject = s /\ r.id = profiles[s].id
        BY <2>1 DEF PageRequest
    <2> HIDE DEF r
    <2> QED  BY <2>2, <2>3, <2>4, StartKeeps
<1>4. CASE \E thread \in BOOLEAN : AskAI(t, w, s, thread)
    <2> PICK thread \in BOOLEAN : AskAI(t, w, s, thread)  BY <1>4
    <2> DEFINE q == Began(t, "chat", w, s)
               r == [q EXCEPT !.at = "model", !.thread = thread]
    <2>1. q \in PageRequest /\ q.kind = "chat" /\ q.who = w /\ q.subject = s /\ q.id = profiles[s].id
        BY <1>0, BeganShape DEF Kinds
    <2>2. Starts(t, r) /\ UNCHANGED Kept  BY DEF AskAI
    <2> HIDE DEF q
    <2>3. r \in PageRequest  BY <2>1 DEF PageRequest, Steps
    <2>4. r.at = "model" /\ r.kind = "chat" /\ r.who = w /\ r.subject = s /\ r.id = profiles[s].id
        BY <2>1 DEF PageRequest
    <2> HIDE DEF r
    <2> QED  BY <2>2, <2>3, <2>4, StartKeeps
<1> QED  BY <1>1, <1>2, <1>3, <1>4

\* A request that ends without a call
LEMMA ParkedTab ==
    ASSUME PageTypes, TabsAreTyped, NEW t \in Tab, tabs' = [tabs EXCEPT ![t] = Rest]
    PROVE  /\ tabs' \in [Tab -> PageRequest] /\ tabs'[t].at = "rest"
           /\ \A u \in Tab \ {t} : tabs'[u] = tabs[u]
           /\ \A u \in Tab : GoesOn(tabs'[u], tabs[u])
           /\ \A u \in Tab : PastGate(u)' => u # t /\ PastGate(u)
<1>1. tabs' \in [Tab -> PageRequest] /\ tabs'[t] = Rest /\ \A u \in Tab \ {t} : tabs'[u] = tabs[u]
    BY RestIsRequest DEF TabsAreTyped
<1>2. tabs'[t].at = "rest"  BY <1>1, RestIsRequest
<1> QED  BY <1>1, <1>2 DEF GoesOn, PastGate

\* A request that goes on, with another step or need
LEMMA MovedTab ==
    ASSUME PageTypes, TabsAreTyped, NEW t \in Tab, tabs[t].at # "rest",
           NEW at \in Steps \ {"rest"}, NEW need \in 0 .. FactCalls,
           tabs' = [tabs EXCEPT ![t] = [tabs[t] EXCEPT !.at = at, !.need = need]]
    PROVE  /\ tabs' \in [Tab -> PageRequest] /\ tabs'[t].at = at /\ tabs'[t].kind = tabs[t].kind
           /\ \A u \in Tab \ {t} : tabs'[u] = tabs[u]
           /\ \A u \in Tab : GoesOn(tabs'[u], tabs[u])
<1> DEFINE r == [tabs[t] EXCEPT !.at = at, !.need = need]
<1>1. tabs[t] \in PageRequest  BY DEF TabsAreTyped
<1>2. r \in PageRequest  BY <1>1 DEF PageRequest
<1>3. /\ r.at = at /\ r.kind = tabs[t].kind /\ r.who = tabs[t].who /\ r.subject = tabs[t].subject
      /\ r.id = tabs[t].id
    BY <1>1 DEF PageRequest
<1> HIDE DEF r
<1>4. tabs' \in [Tab -> PageRequest] /\ tabs'[t] = r /\ \A u \in Tab \ {t} : tabs'[u] = tabs[u]
    BY <1>2 DEF TabsAreTyped, r
<1> QED  BY <1>3, <1>4 DEF GoesOn

\* Profiles, records and chats as they are
LEMMA RowsStay ==
    ASSUME PageInv, UNCHANGED <<profiles, chats, apollo>>
    PROVE  RowsGrow /\ DeletedHaveNone' /\ OneRecordEach' /\ ChatsOfSavedProfiles'
<1>1. RowsGrow
    <2> SUFFICES ASSUME NEW s \in Target PROVE profiles[s].id <= profiles'[s].id  BY DEF RowsGrow
    <2>1. profiles[s].id \in Nat  BY DEF PageInv, PageTypes, ResearchProfile
    <2> QED  BY <2>1
<1> QED  BY <1>1 DEF PageInv, DeletedHaveNone, OneRecordEach, ChatsOfSavedProfiles

\* Under the lock of the row its profile is not in Apollo, and nobody else is past the gate
LEMMA PassGateKeeps == ASSUME PageInv, NEW t \in Tab, PassGate(t) PROVE PageInv'
<1> USE DEF PageInv
<1> DEFINE need == IF matches[tabs[t].subject] = "unknown" THEN 1 ELSE 0
           leaves == ~SameRow(t) \/ profiles[tabs[t].subject].crm # "none"
                     \/ (matches[tabs[t].subject] = "some" /\ ~tabs[t].anyway)
<1>1. /\ tabs[t].at = "gate" /\ GateOpen(t)
      /\ tabs' = [tabs EXCEPT ![t] = IF leaves THEN Rest ELSE [tabs[t] EXCEPT !.at = "queue", !.need = need]]
    BY DEF PassGate
<1>2. /\ profiles' = profiles /\ chats' = chats /\ apollo' = apollo /\ matches' = matches
      /\ known' = known /\ ledger' = ledger /\ losses' = losses /\ asks' = asks
    BY DEF PassGate, Kept
<1>3. PageTypes'  BY <1>2 DEF PageTypes
<1>4. RowsGrow /\ DeletedHaveNone' /\ OneRecordEach' /\ ChatsOfSavedProfiles'  BY <1>2, RowsStay
<1>5. CASE leaves
    <2>1. tabs' = [tabs EXCEPT ![t] = Rest]  BY <1>1, <1>5
    <2>2. /\ tabs' \in [Tab -> PageRequest] /\ tabs'[t].at = "rest"
          /\ \A u \in Tab \ {t} : tabs'[u] = tabs[u]
          /\ \A u \in Tab : GoesOn(tabs'[u], tabs[u])
          /\ \A u \in Tab : PastGate(u)' => u # t /\ PastGate(u)
        BY <2>1, ParkedTab
    <2>3. TabsAreTyped'  BY <1>3, <1>4, <2>2, TabsStay
    <2>4. BudgetKept' /\ PageIsCounted'  BY <1>2, <2>2, CountStays
    <2>5. GateIsNarrow'
        <3>1. \A u \in Tab : PastGate(u)' /\ SameRow(u)' => SameRow(u)  BY <1>2, <2>2 DEF SameRow
        <3> QED  BY <1>2, <2>2, <3>1, GateStays
    <2> QED  BY <1>3, <1>4, <2>3, <2>4, <2>5
<1>6. CASE ~leaves
    <2>1. SameRow(t) /\ profiles[tabs[t].subject].crm = "none"  BY <1>6
    <2> HIDE DEF leaves
    <2>2. need \in 0 .. FactCalls  OBVIOUS
    <2> HIDE DEF need
    <2>3. tabs' = [tabs EXCEPT ![t] = [tabs[t] EXCEPT !.at = "queue", !.need = need]]  BY <1>1, <1>6
    <2>4. /\ tabs' \in [Tab -> PageRequest] /\ tabs'[t].at = "queue" /\ tabs'[t].kind = tabs[t].kind
          /\ \A u \in Tab \ {t} : tabs'[u] = tabs[u]
          /\ \A u \in Tab : GoesOn(tabs'[u], tabs[u])
        BY <1>1, <2>2, <2>3, MovedTab DEF Steps
    <2>5. TabsAreTyped'  BY <1>3, <1>4, <2>4, TabsStay
    <2>6. \A u \in Tab : tabs'[u].at = "asked" => tabs[u].at = "asked"  BY <2>4
    <2>7. BudgetKept' /\ PageIsCounted'  BY <1>2, <2>4, <2>6, CountStays
    <2>8. tabs'[t].subject = tabs[t].subject /\ tabs'[t].id = tabs[t].id  BY <2>4 DEF GoesOn
    <2>9. \A u \in Tab \ {t} : PastGate(u)' => PastGate(u) /\ (SameRow(u)' <=> SameRow(u))
        BY <1>2, <2>4 DEF PastGate, SameRow
    <2>10. \A u \in Tab \ {t} : ~(PastGate(u)' /\ tabs'[u].subject = tabs'[t].subject /\ tabs'[u].id = tabs'[t].id)
        BY <1>1, <2>4, <2>8 DEF PastGate, GateOpen
    <2>11. GateIsNarrow'
        <3>1. ASSUME NEW u \in Tab, NEW v \in Tab, PastGate(u)', PastGate(v)',
                     tabs'[u].subject = tabs'[v].subject, tabs'[u].id = tabs'[v].id
              PROVE  u = v
            <4>1. CASE u = t \/ v = t  BY <2>10, <3>1, <4>1
            <4>2. CASE u # t /\ v # t  BY <2>4, <2>9, <3>1, <4>2 DEF GateIsNarrow
            <4> QED  BY <4>1, <4>2
        <3>2. ASSUME NEW u \in Tab, PastGate(u)', SameRow(u)' PROVE profiles'[tabs'[u].subject].crm = "none"
            <4>1. CASE u = t  BY <1>2, <2>1, <2>8, <4>1
            <4>2. CASE u # t  BY <1>2, <2>4, <2>9, <3>2, <4>2 DEF GateIsNarrow
            <4> QED  BY <4>1, <4>2
        <3> QED  BY <3>1, <3>2 DEF GateIsNarrow
    <2> QED  BY <1>3, <1>4, <2>5, <2>7, <2>11
<1> QED  BY <1>5, <1>6

\* Who asks Apollo has a call left of all calls, so of the page's
LEMMA EnterKeeps == ASSUME PageInv, NEW t \in Tab, EnterApollo(t) PROVE PageInv'
<1> USE DEF PageInv
<1> DEFINE w == tabs[t].who
<1>1. /\ tabs[t].at = "queue" /\ NobodyAsking(w)
      /\ tabs' = [tabs EXCEPT ![t] = IF HasBudget(w) THEN [tabs[t] EXCEPT !.at = "asked"] ELSE Rest]
    BY DEF EnterApollo
<1>2. /\ profiles' = profiles /\ chats' = chats /\ apollo' = apollo /\ matches' = matches
      /\ known' = known /\ ledger' = ledger /\ losses' = losses /\ asks' = asks
    BY DEF EnterApollo, Kept
<1>3. PageTypes'  BY <1>2 DEF PageTypes
<1>4. RowsGrow /\ DeletedHaveNone' /\ OneRecordEach' /\ ChatsOfSavedProfiles'  BY <1>2, RowsStay
<1>5. w \in Searcher  BY <1>1 DEF TabsAreTyped
<1>6. CASE ~HasBudget(w)
    <2>1. tabs' = [tabs EXCEPT ![t] = Rest]  BY <1>1, <1>6
    <2>2. /\ tabs' \in [Tab -> PageRequest] /\ tabs'[t].at = "rest"
          /\ \A u \in Tab \ {t} : tabs'[u] = tabs[u]
          /\ \A u \in Tab : GoesOn(tabs'[u], tabs[u])
          /\ \A u \in Tab : PastGate(u)' => u # t /\ PastGate(u)
        BY <2>1, ParkedTab
    <2>3. TabsAreTyped'  BY <1>3, <1>4, <2>2, TabsStay
    <2>4. BudgetKept' /\ PageIsCounted'  BY <1>2, <2>2, CountStays
    <2>5. GateIsNarrow'
        <3>1. \A u \in Tab : PastGate(u)' /\ SameRow(u)' => SameRow(u)  BY <1>2, <2>2 DEF SameRow
        <3> QED  BY <1>2, <2>2, <3>1, GateStays
    <2> QED  BY <1>3, <1>4, <2>3, <2>4, <2>5
<1>7. CASE HasBudget(w)
    <2>0. tabs[t] \in PageRequest  BY DEF TabsAreTyped
    <2>1. tabs[t].need \in 0 .. FactCalls  BY <2>0 DEF PageRequest
    <2>2. [tabs[t] EXCEPT !.at = "asked"] = [tabs[t] EXCEPT !.at = "asked", !.need = tabs[t].need]
        BY <2>0 DEF PageRequest
    <2> DEFINE need == tabs[t].need
    <2>3. tabs' = [tabs EXCEPT ![t] = [tabs[t] EXCEPT !.at = "asked", !.need = need]]
        BY <1>1, <1>7, <2>2
    <2> HIDE DEF need, w
    <2>4. /\ tabs' \in [Tab -> PageRequest] /\ tabs'[t].at = "asked" /\ tabs'[t].kind = tabs[t].kind
          /\ \A u \in Tab \ {t} : tabs'[u] = tabs[u]
          /\ \A u \in Tab : GoesOn(tabs'[u], tabs[u])
        <3>1. need \in 0 .. FactCalls  BY <2>1 DEF need
        <3> QED  BY <1>1, <2>3, <3>1, MovedTab DEF Steps
    <2>5. TabsAreTyped'  BY <1>3, <1>4, <2>4, TabsStay
    <2>6. ledger[w].page < DailyLimit
        <3>1. ledger[w].page \in Nat /\ ledger[w].all \in Nat  BY <1>5 DEF PageTypes, SpentCalls
        <3>2. ledger[w].all + 1 <= DailyLimit  BY <1>7 DEF HasBudget, Affords
        <3>3. ledger[w].page <= ledger[w].all  BY <1>5 DEF PageIsCounted
        <3> QED  BY <3>1, <3>2, <3>3
    <2>7. tabs'[t].who = w  BY <2>4 DEF GoesOn, w
    <2>8. BudgetKept'  BY <1>2 DEF BudgetKept
    <2>9. PageIsCounted'
        <3>1. \A v \in Searcher : ledger'[v].page <= ledger'[v].all  BY <1>2 DEF PageIsCounted
        <3>2. ASSUME NEW u \in Tab, tabs'[u].at = "asked" PROVE ledger'[tabs'[u].who].page < DailyLimit
            <4>1. CASE u = t  BY <1>2, <2>6, <2>7, <4>1
            <4>2. CASE u # t  BY <1>2, <2>4, <3>2, <4>2 DEF PageIsCounted
            <4> QED  BY <4>1, <4>2
        <3>3. ASSUME NEW u \in Tab, NEW v \in Tab, tabs'[u].at = "asked", tabs'[v].at = "asked",
                     tabs'[u].who = tabs'[v].who
              PROVE  u = v
            <4>1. \A x \in Tab \ {t} : tabs'[x].at = "asked" => tabs[x].at = "asked" /\ tabs'[x].who # w
                BY <1>1, <2>4 DEF NobodyAsking
            <4>2. CASE u = t \/ v = t  BY <2>7, <3>3, <4>1, <4>2
            <4>3. CASE u # t /\ v # t  BY <2>4, <3>3, <4>1, <4>3 DEF PageIsCounted
            <4> QED  BY <4>2, <4>3
        <3> QED  BY <3>1, <3>2, <3>3 DEF PageIsCounted
    <2>10. GateIsNarrow'
        <3>1. \A u \in Tab : PastGate(u)' => PastGate(u)  BY <1>1, <2>4 DEF PastGate
        <3>2. \A u \in Tab : PastGate(u)' /\ SameRow(u)' => SameRow(u)
            BY <1>2, <2>4 DEF SameRow, PastGate, GoesOn
        <3> QED  BY <1>2, <2>4, <3>1, <3>2, GateStays
    <2> QED  BY <1>3, <1>4, <2>5, <2>8, <2>9, <2>10
<1> QED  BY <1>6, <1>7

\* A call ends, whatever it came to, and the request with it
LEMMA CallEnds ==
    ASSUME PageInv, NEW t \in Tab, tabs[t].at = "asked", Recorded(tabs[t].who), tabs' = [tabs EXCEPT ![t] = Rest],
           profiles' \in [Target -> ResearchProfile], apollo' \in [Target -> ApolloRecord],
           matches' \in [Target -> Duplicates], known' \subseteq Target, losses' \in 0 .. MaxLosses,
           chats' = chats, asks' = asks, RowsGrow, DeletedHaveNone', OneRecordEach',
           \A s \in Target : profiles[s].on => profiles'[s].on,
           \A u \in Tab \ {t} : /\ PastGate(u)
                                /\ profiles'[tabs[u].subject].on /\ profiles'[tabs[u].subject].id = tabs[u].id
                                => profiles'[tabs[u].subject].crm = "none"
    PROVE  PageInv'
<1> USE DEF PageInv
<1>1. /\ tabs' \in [Tab -> PageRequest] /\ tabs'[t].at = "rest"
      /\ \A u \in Tab \ {t} : tabs'[u] = tabs[u]
      /\ \A u \in Tab : GoesOn(tabs'[u], tabs[u])
      /\ \A u \in Tab : PastGate(u)' => u # t /\ PastGate(u)
    BY ParkedTab
<1>2. ledger' \in [Searcher -> SpentCalls] /\ BudgetKept' /\ PageIsCounted'  BY <1>1, CallIsCounted
<1>3. PageTypes'  BY <1>2 DEF PageTypes
<1>4. TabsAreTyped'  BY <1>1, <1>3, TabsStay
<1>5. GateIsNarrow'
    <2>1. ASSUME NEW u \in Tab, NEW v \in Tab, PastGate(u)', PastGate(v)',
                 tabs'[u].subject = tabs'[v].subject, tabs'[u].id = tabs'[v].id
          PROVE  u = v
        BY <1>1, <2>1 DEF GateIsNarrow
    <2>2. ASSUME NEW u \in Tab, PastGate(u)', SameRow(u)' PROVE profiles'[tabs'[u].subject].crm = "none"
        BY <1>1, <2>2 DEF SameRow
    <2> QED  BY <2>1, <2>2 DEF GateIsNarrow
<1>6. ChatsOfSavedProfiles'
    <2>1. \A c \in chats : c[2] \in Target  BY DEF PageTypes, Conversations
    <2> QED  BY <2>1 DEF ChatsOfSavedProfiles
<1> QED  BY <1>2, <1>3, <1>4, <1>5, <1>6

\* A call ends and its request waits for the next one
LEMMA CallGoesOn ==
    ASSUME PageInv, NEW t \in Tab, tabs[t].at = "asked", Recorded(tabs[t].who), NEW need \in 0 .. FactCalls,
           tabs' = [tabs EXCEPT ![t] = [tabs[t] EXCEPT !.at = "queue", !.need = need]],
           matches' \in [Target -> Duplicates], UNCHANGED <<profiles, chats, apollo, known, losses, asks>>
    PROVE  PageInv'
<1> USE DEF PageInv
<1>1. /\ tabs' \in [Tab -> PageRequest] /\ tabs'[t].at = "queue" /\ tabs'[t].kind = tabs[t].kind
      /\ \A u \in Tab \ {t} : tabs'[u] = tabs[u]
      /\ \A u \in Tab : GoesOn(tabs'[u], tabs[u])
    BY MovedTab DEF Steps
<1>2. ledger' \in [Searcher -> SpentCalls] /\ BudgetKept' /\ PageIsCounted'  BY <1>1, CallIsCounted
<1>3. PageTypes'  BY <1>2 DEF PageTypes
<1>4. RowsGrow /\ DeletedHaveNone' /\ OneRecordEach' /\ ChatsOfSavedProfiles'  BY RowsStay
<1>5. TabsAreTyped'  BY <1>1, <1>3, <1>4, TabsStay
<1>6. GateIsNarrow'
    <2>1. \A u \in Tab : PastGate(u)' => PastGate(u)  BY <1>1 DEF PastGate
    <2>2. \A u \in Tab : PastGate(u)' /\ SameRow(u)' => SameRow(u)
        BY <1>1 DEF SameRow, PastGate, GoesOn
    <2> QED  BY <1>1, <2>1, <2>2, GateStays
<1> QED  BY <1>2, <1>3, <1>4, <1>5, <1>6

\* A profile is saved that was not: nothing was made in Apollo for its row
LEMMA NewProfileKeeps ==
    ASSUME PageInv, NEW s \in Target, ~profiles[s].on, profiles' = NewProfile(s), apollo' = apollo
    PROVE  /\ profiles' \in [Target -> ResearchProfile] /\ RowsGrow
           /\ profiles'[s].crm = "none" /\ \A c \in Target \ {s} : profiles'[c] = profiles[c]
           /\ \A c \in Target : profiles[c].on => profiles'[c].on
           /\ DeletedHaveNone' /\ OneRecordEach'
<1> USE DEF PageInv
<1>1. profiles[s].id \in 0 .. MaxRows  BY DEF PageTypes, ResearchProfile
<1>2. [on |-> TRUE, id |-> profiles[s].id, crm |-> "none"] \in ResearchProfile  BY <1>1 DEF ResearchProfile
<1>3. profiles' = [profiles EXCEPT ![s] = [on |-> TRUE, id |-> profiles[s].id, crm |-> "none"]]  BY DEF NewProfile
<1>4. /\ profiles' \in [Target -> ResearchProfile] /\ \A c \in Target \ {s} : profiles'[c] = profiles[c]
      /\ profiles'[s] = [on |-> TRUE, id |-> profiles[s].id, crm |-> "none"]
    BY <1>2, <1>3 DEF PageTypes
<1>5. RowsGrow
    <2> SUFFICES ASSUME NEW c \in Target PROVE profiles[c].id <= profiles'[c].id  BY DEF RowsGrow
    <2>1. profiles[c].id \in Nat /\ profiles'[c].id = profiles[c].id
        BY <1>4 DEF PageTypes, ResearchProfile
    <2> QED  BY <2>1
<1>6. DeletedHaveNone'  BY <1>4 DEF DeletedHaveNone
<1>7. OneRecordEach'
    <2> SUFFICES ASSUME NEW c \in Target, profiles'[c].on, ~apollo[c].unsure
                 PROVE  apollo[c].made = IF profiles'[c].crm = "created" THEN 1 ELSE 0
        BY DEF OneRecordEach
    <2>1. CASE c = s  BY <1>4, <2>1 DEF DeletedHaveNone
    <2>2. CASE c # s  BY <1>4, <2>2 DEF OneRecordEach
    <2> QED  BY <2>1, <2>2
<1> QED  BY <1>4, <1>5, <1>6, <1>7

\* The facts that arrive are saved once: over no row, or over the row the request read
LEMMA FactsKeep == ASSUME PageInv, NEW t \in Tab, FactsArrive(t) PROVE PageInv'
<1> USE DEF PageInv
<1> DEFINE s == tabs[t].subject
<1>1. /\ tabs[t].at = "asked" /\ tabs[t].kind \in {"save", "refresh"} /\ Recorded(tabs[t].who)
      /\ chats' = chats /\ apollo' = apollo /\ matches' = matches /\ losses' = losses /\ asks' = asks
    BY DEF FactsArrive
<1>2. s \in Target /\ tabs[t] \in PageRequest  BY <1>1 DEF TabsAreTyped
<1>3. tabs[t].need \in 0 .. FactCalls  BY <1>2 DEF PageRequest
<1>4. CASE tabs[t].need > 1
    <2> DEFINE need == tabs[t].need - 1
    <2>1. need \in 0 .. FactCalls  BY <1>3, <1>4
    <2>2. [tabs[t] EXCEPT !.at = "queue", !.need = @ - 1] = [tabs[t] EXCEPT !.at = "queue", !.need = need]
        BY <1>2 DEF PageRequest
    <2>3. tabs' = [tabs EXCEPT ![t] = [tabs[t] EXCEPT !.at = "queue", !.need = need]]
        BY <1>4, <2>2 DEF FactsArrive
    <2>4. profiles' = profiles /\ known' = known  BY <1>4 DEF FactsArrive
    <2>5. matches' \in [Target -> Duplicates]  BY <1>1 DEF PageTypes
    <2> HIDE DEF need
    <2> QED  BY <1>1, <2>1, <2>3, <2>4, <2>5, CallGoesOn
<1>5. CASE ~(tabs[t].need > 1)
    <2>1. tabs' = [tabs EXCEPT ![t] = Rest] /\ known' = known \cup {s}  BY <1>5 DEF FactsArrive
    <2>2. profiles' = profiles \/ (~profiles[s].on /\ profiles' = NewProfile(s))
        <3>1. profiles' = IF tabs[t].kind = "save"
                          THEN (IF profiles[s].on THEN profiles ELSE NewProfile(s))
                          ELSE (IF SameRow(t) THEN [profiles EXCEPT ![s].crm = profiles[s].crm] ELSE profiles)
            BY <1>5 DEF FactsArrive, KeptOnRefresh
        <3>2. [profiles EXCEPT ![s].crm = profiles[s].crm] = profiles  BY <1>2 DEF PageTypes, ResearchProfile
        <3> QED  BY <3>1, <3>2
    <2>3. apollo' \in [Target -> ApolloRecord] /\ matches' \in [Target -> Duplicates] /\ losses' \in 0 .. MaxLosses
        BY <1>1 DEF PageTypes
    <2>4. known' \subseteq Target  BY <1>2, <2>1 DEF PageTypes
    <2>5. CASE profiles' = profiles
        <3>1. RowsGrow /\ DeletedHaveNone' /\ OneRecordEach'  BY <1>1, <2>5, RowsStay
        <3>2. ASSUME NEW u \in Tab \ {t}, PastGate(u), profiles'[tabs[u].subject].on,
                     profiles'[tabs[u].subject].id = tabs[u].id
              PROVE  profiles'[tabs[u].subject].crm = "none"
            BY <2>5, <3>2 DEF GateIsNarrow, SameRow
        <3>3. profiles' \in [Target -> ResearchProfile]  BY <2>5 DEF PageTypes
        <3>4. \A c \in Target : profiles[c].on => profiles'[c].on  BY <2>5
        <3> HIDE DEF PageInv, s
        <3> QED  BY <1>1, <2>1, <2>3, <2>4, <3>1, <3>2, <3>3, <3>4, CallEnds
    <2>6. CASE ~profiles[s].on /\ profiles' = NewProfile(s)
        <3>1. /\ profiles' \in [Target -> ResearchProfile] /\ RowsGrow
              /\ profiles'[s].crm = "none" /\ \A c \in Target \ {s} : profiles'[c] = profiles[c]
              /\ \A c \in Target : profiles[c].on => profiles'[c].on
              /\ DeletedHaveNone' /\ OneRecordEach'
            BY <1>1, <1>2, <2>6, NewProfileKeeps
        <3>2. ASSUME NEW u \in Tab \ {t}, PastGate(u), profiles'[tabs[u].subject].on,
                     profiles'[tabs[u].subject].id = tabs[u].id
              PROVE  profiles'[tabs[u].subject].crm = "none"
            <4>1. tabs[u].subject \in Target  BY <3>2 DEF TabsAreTyped, PastGate
            <4>2. CASE tabs[u].subject = s  BY <3>1, <4>2
            <4>3. CASE tabs[u].subject # s  BY <3>1, <3>2, <4>1, <4>3 DEF GateIsNarrow, SameRow
            <4> QED  BY <4>2, <4>3
        <3> HIDE DEF PageInv, s
        <3> QED  BY <1>1, <2>1, <2>3, <2>4, <3>1, <3>2, CallEnds
    <2> QED  BY <2>2, <2>5, <2>6
<1> QED  BY <1>4, <1>5

\* Matches change nothing but what is remembered of them
LEMMA MatchesKeep == ASSUME PageInv, NEW t \in Tab, MatchesArrive(t) PROVE PageInv'
<1> USE DEF PageInv
<1> DEFINE s == tabs[t].subject
           found == IF apollo[s].match THEN "some" ELSE "none"
<1>1. /\ tabs[t].at = "asked" /\ Recorded(tabs[t].who)
      /\ profiles' = profiles /\ chats' = chats /\ apollo' = apollo /\ known' = known
      /\ losses' = losses /\ asks' = asks
    BY DEF MatchesArrive
<1>2. s \in Target  BY <1>1 DEF TabsAreTyped
<1>3. matches' \in [Target -> Duplicates]
    <2>1. matches' = matches \/ matches' = [matches EXCEPT ![s] = found]  BY DEF MatchesArrive
    <2> QED  BY <1>2, <2>1 DEF PageTypes, Duplicates
<1>4. \/ tabs' = [tabs EXCEPT ![t] = Rest]
      \/ tabs' = [tabs EXCEPT ![t] = [tabs[t] EXCEPT !.at = "queue", !.need = 0]]
    BY DEF MatchesArrive
<1> HIDE DEF found
<1>5. CASE tabs' = [tabs EXCEPT ![t] = [tabs[t] EXCEPT !.at = "queue", !.need = 0]]
    <2>1. 0 \in 0 .. FactCalls  OBVIOUS
    <2> HIDE DEF PageInv
    <2> QED  BY <1>1, <1>3, <1>5, <2>1, CallGoesOn
<1>6. CASE tabs' = [tabs EXCEPT ![t] = Rest]
    <2>1. RowsGrow /\ DeletedHaveNone' /\ OneRecordEach'  BY <1>1, RowsStay
    <2>2. ASSUME NEW u \in Tab \ {t}, PastGate(u), profiles'[tabs[u].subject].on,
                 profiles'[tabs[u].subject].id = tabs[u].id
          PROVE  profiles'[tabs[u].subject].crm = "none"
        BY <1>1, <2>2 DEF GateIsNarrow, SameRow
    <2>3. /\ profiles' \in [Target -> ResearchProfile] /\ apollo' \in [Target -> ApolloRecord]
          /\ known' \subseteq Target /\ losses' \in 0 .. MaxLosses
        BY <1>1 DEF PageTypes
    <2>4. \A c \in Target : profiles[c].on => profiles'[c].on  BY <1>1
    <2> HIDE DEF PageInv, s
    <2> QED  BY <1>1, <1>3, <1>6, <2>1, <2>2, <2>3, <2>4, CallEnds
<1> QED  BY <1>4, <1>5, <1>6

\* The records of Apollo after one more
LEMMA OneMoreRecord ==
    ASSUME PageTypes, NEW t \in Tab, tabs[t].subject \in Target, NEW lost \in BOOLEAN
    PROVE  LET s == tabs[t].subject IN
           /\ OneMore(t, lost) \in [Target -> ApolloRecord]
           /\ \A c \in Target \ {s} : OneMore(t, lost)[c] = apollo[c]
           /\ SameRow(t) => /\ OneMore(t, lost)[s].made = apollo[s].made + 1
                            /\ OneMore(t, lost)[s].unsure = (apollo[s].unsure \/ lost)
           /\ ~SameRow(t) => /\ OneMore(t, lost)[s].made = apollo[s].made
                             /\ OneMore(t, lost)[s].unsure = apollo[s].unsure
<1> DEFINE s == tabs[t].subject
<1>1. apollo[s] \in ApolloRecord  BY DEF PageTypes
<1>2. apollo[s].made + 1 \in Nat /\ (apollo[s].unsure \/ lost) \in BOOLEAN  BY <1>1 DEF ApolloRecord
<1>3. CASE SameRow(t)
    <2> DEFINE r == [match |-> TRUE, made |-> apollo[s].made + 1, unsure |-> apollo[s].unsure \/ lost]
    <2>1. OneMore(t, lost) = [apollo EXCEPT ![s] = r]  BY <1>3 DEF OneMore
    <2>2. r \in ApolloRecord  BY <1>2 DEF ApolloRecord
    <2>3. r.made = apollo[s].made + 1 /\ r.unsure = (apollo[s].unsure \/ lost)  OBVIOUS
    <2> HIDE DEF r
    <2> QED  BY <1>3, <2>1, <2>2, <2>3 DEF PageTypes
<1>4. CASE ~SameRow(t)
    <2> DEFINE r == [apollo[s] EXCEPT !.match = TRUE]
    <2>1. OneMore(t, lost) = [apollo EXCEPT ![s] = r]  BY <1>4 DEF OneMore
    <2>2. r \in ApolloRecord /\ r.made = apollo[s].made /\ r.unsure = apollo[s].unsure  BY <1>1 DEF ApolloRecord
    <2> HIDE DEF r
    <2> QED  BY <1>4, <2>1, <2>2 DEF PageTypes
<1> QED  BY <1>3, <1>4

\* One more record, and its answer: the only one of the row, or one nobody is sure of
LEMMA RecordIsCounted ==
    ASSUME PageInv, NEW t \in Tab, tabs[t].at = "asked", tabs[t].kind = "create", NEW lost \in BOOLEAN,
           apollo' = OneMore(t, lost),
           profiles' = IF SameRow(t) /\ ~lost THEN [profiles EXCEPT ![tabs[t].subject].crm = "created"] ELSE profiles
    PROVE  /\ profiles' \in [Target -> ResearchProfile] /\ apollo' \in [Target -> ApolloRecord] /\ RowsGrow
           /\ DeletedHaveNone' /\ OneRecordEach'
           /\ \A c \in Target : profiles'[c].on = profiles[c].on /\ profiles'[c].id = profiles[c].id
           /\ \A c \in Target : profiles'[c].crm = profiles[c].crm \/ (c = tabs[t].subject /\ SameRow(t))
<1> USE DEF PageInv
<1> DEFINE s == tabs[t].subject
<1>1. s \in Target  BY DEF TabsAreTyped
<1>2. /\ apollo' \in [Target -> ApolloRecord]
      /\ \A c \in Target \ {s} : apollo'[c] = apollo[c]
      /\ SameRow(t) => /\ apollo'[s].made = apollo[s].made + 1
                       /\ apollo'[s].unsure = (apollo[s].unsure \/ lost)
      /\ ~SameRow(t) => apollo'[s].made = apollo[s].made /\ apollo'[s].unsure = apollo[s].unsure
    BY <1>1, OneMoreRecord
<1>3. profiles[s] \in ResearchProfile /\ apollo[s] \in ApolloRecord  BY <1>1 DEF PageTypes
<1>4. /\ profiles' \in [Target -> ResearchProfile] /\ \A c \in Target \ {s} : profiles'[c] = profiles[c]
      /\ profiles'[s].on = profiles[s].on /\ profiles'[s].id = profiles[s].id
      /\ profiles'[s].crm = IF SameRow(t) /\ ~lost THEN "created" ELSE profiles[s].crm
    <2>1. CASE SameRow(t) /\ ~lost
        <3> DEFINE r == [profiles[s] EXCEPT !.crm = "created"]
        <3>1. r \in ResearchProfile /\ r.on = profiles[s].on /\ r.id = profiles[s].id /\ r.crm = "created"
            BY <1>3 DEF ResearchProfile
        <3>2. profiles' = [profiles EXCEPT ![s] = r]  BY <2>1
        <3> HIDE DEF r
        <3> QED  BY <1>1, <2>1, <3>1, <3>2 DEF PageTypes
    <2>2. CASE ~(SameRow(t) /\ ~lost)  BY <1>1, <2>2 DEF PageTypes
    <2> QED  BY <2>1, <2>2
<1> HIDE DEF s
<1>5. RowsGrow
    <2> SUFFICES ASSUME NEW c \in Target PROVE profiles[c].id <= profiles'[c].id  BY DEF RowsGrow
    <2>1. profiles[c].id \in Nat  BY DEF PageTypes, ResearchProfile
    <2>2. profiles'[c].id = profiles[c].id  BY <1>4
    <2> QED  BY <2>1, <2>2
<1>6. SameRow(t) => profiles[s].on /\ profiles[s].crm = "none"  BY DEF GateIsNarrow, PastGate, SameRow, s
<1>7. ASSUME NEW c \in Target, ~profiles'[c].on PROVE apollo'[c].made = 0 /\ ~apollo'[c].unsure
    <2>1. CASE c = s
        <3>1. ~SameRow(t)  BY <1>4, <1>6, <1>7, <2>1
        <3>2. apollo[s].made = 0 /\ ~apollo[s].unsure  BY <1>1, <1>4, <1>7, <2>1 DEF DeletedHaveNone
        <3> QED  BY <1>2, <2>1, <3>1, <3>2
    <2>2. CASE c # s  BY <1>2, <1>4, <1>7, <2>2 DEF DeletedHaveNone
    <2> QED  BY <2>1, <2>2
<1>8. ASSUME NEW c \in Target, profiles'[c].on, ~apollo'[c].unsure
      PROVE  apollo'[c].made = IF profiles'[c].crm = "created" THEN 1 ELSE 0
    <2>1. CASE c = s /\ SameRow(t)
        <3>1. ~apollo[s].unsure /\ ~lost  BY <1>2, <1>8, <2>1
        <3>2. apollo[s].made = 0  BY <1>1, <1>6, <2>1, <3>1 DEF OneRecordEach
        <3>3. apollo'[s].made = 1  BY <1>2, <2>1, <3>2
        <3>4. profiles'[s].crm = "created"  BY <1>4, <2>1, <3>1
        <3> QED  BY <2>1, <3>3, <3>4
    <2>2. CASE c = s /\ ~SameRow(t)
        <3>1. ~apollo[s].unsure /\ apollo'[s].made = apollo[s].made  BY <1>2, <1>8, <2>2
        <3>2. profiles[s].on /\ profiles'[s].crm = profiles[s].crm  BY <1>4, <1>8, <2>2
        <3> QED  BY <1>1, <2>2, <3>1, <3>2 DEF OneRecordEach
    <2>3. CASE c # s
        <3>1. apollo'[c] = apollo[c] /\ profiles'[c] = profiles[c]  BY <1>2, <1>4, <2>3
        <3> QED  BY <1>8, <3>1 DEF OneRecordEach
    <2> QED  BY <2>1, <2>2, <2>3
<1>9. DeletedHaveNone' /\ OneRecordEach'  BY <1>7, <1>8 DEF DeletedHaveNone, OneRecordEach
<1>10. \A c \in Target : profiles'[c].on = profiles[c].on /\ profiles'[c].id = profiles[c].id  BY <1>4
<1>11. \A c \in Target : profiles'[c].crm = profiles[c].crm \/ (c = s /\ SameRow(t))  BY <1>4
<1> QED  BY <1>2, <1>4, <1>5, <1>9, <1>10, <1>11 DEF s

\* The lock of a row: who holds it is alone past the gate
LEMMA RecordKeeps == ASSUME PageInv, NEW t \in Tab, RecordMade(t) PROVE PageInv'
<1> DEFINE s == tabs[t].subject
<1>1. /\ tabs[t].at = "asked" /\ tabs[t].kind = "create" /\ Recorded(tabs[t].who)
      /\ apollo' = OneMore(t, FALSE)
      /\ profiles' = IF SameRow(t) THEN [profiles EXCEPT ![s].crm = "created"] ELSE profiles
      /\ tabs' = [tabs EXCEPT ![t] = Rest]
      /\ chats' = chats /\ matches' = matches /\ known' = known /\ losses' = losses /\ asks' = asks
    BY DEF RecordMade
<1>2. /\ profiles' \in [Target -> ResearchProfile] /\ apollo' \in [Target -> ApolloRecord] /\ RowsGrow
      /\ DeletedHaveNone' /\ OneRecordEach'
      /\ \A c \in Target : profiles'[c].on = profiles[c].on /\ profiles'[c].id = profiles[c].id
      /\ \A c \in Target : profiles'[c].crm = profiles[c].crm \/ (c = s /\ SameRow(t))
    BY <1>1, RecordIsCounted
<1>3. matches' \in [Target -> Duplicates] /\ known' \subseteq Target /\ losses' \in 0 .. MaxLosses
    BY <1>1 DEF PageInv, PageTypes
<1>4. ASSUME NEW u \in Tab \ {t}, PastGate(u), profiles'[tabs[u].subject].on,
             profiles'[tabs[u].subject].id = tabs[u].id
      PROVE  profiles'[tabs[u].subject].crm = "none"
    <2>1. tabs[u].subject \in Target  BY <1>4 DEF PageInv, TabsAreTyped, PastGate
    <2>2. SameRow(u)  BY <1>2, <1>4, <2>1 DEF SameRow
    <2>3. profiles[tabs[u].subject].crm = "none"  BY <1>4, <2>2 DEF PageInv, GateIsNarrow
    <2>4. ~(tabs[u].subject = s /\ SameRow(t))
        <3> SUFFICES ASSUME tabs[u].subject = s, SameRow(t) PROVE FALSE  OBVIOUS
        <3>1. tabs[u].id = tabs[t].id  BY <2>2 DEF SameRow
        <3>2. PastGate(t)  BY <1>1 DEF PastGate
        <3> QED  BY <1>4, <3>1, <3>2 DEF PageInv, GateIsNarrow
    <2> QED  BY <1>2, <2>1, <2>3, <2>4
<1>5. \A c \in Target : profiles[c].on => profiles'[c].on  BY <1>2
<1> HIDE DEF s
<1> QED  BY <1>1, <1>2, <1>3, <1>4, <1>5, CallEnds

\* A call that fails may have made a record all the same: then nobody is sure
LEMMA FailureKeeps ==
    ASSUME PageInv, NEW t \in Tab, NEW why \in {"lost", "invalid", "out_of_credit"}, CallFails(t, why)
    PROVE  PageInv'
<1>1. /\ tabs[t].at = "asked" /\ Recorded(tabs[t].who) /\ tabs' = [tabs EXCEPT ![t] = Rest]
      /\ losses < MaxLosses /\ losses' = losses + 1
      /\ profiles' = profiles /\ chats' = chats /\ matches' = matches /\ known' = known /\ asks' = asks
    BY DEF CallFails
<1>2. losses' \in 0 .. MaxLosses
    <2>1. losses \in 0 .. MaxLosses  BY DEF PageInv, PageTypes
    <2> QED  BY <1>1, <2>1
<1>3. /\ profiles' \in [Target -> ResearchProfile] /\ matches' \in [Target -> Duplicates] /\ known' \subseteq Target
      /\ \A c \in Target : profiles[c].on => profiles'[c].on
    BY <1>1 DEF PageInv, PageTypes
<1>4. apollo' \in [Target -> ApolloRecord] /\ RowsGrow /\ DeletedHaveNone' /\ OneRecordEach'
    <2>1. apollo' = apollo \/ (tabs[t].kind = "create" /\ apollo' = OneMore(t, TRUE))  BY DEF CallFails
    <2>2. CASE apollo' = apollo  BY <1>1, <2>2, RowsStay DEF PageInv, PageTypes
    <2>3. CASE tabs[t].kind = "create" /\ apollo' = OneMore(t, TRUE)  BY <1>1, <2>3, RecordIsCounted
    <2> QED  BY <2>1, <2>2, <2>3
<1>5. ASSUME NEW u \in Tab \ {t}, PastGate(u), profiles'[tabs[u].subject].on,
             profiles'[tabs[u].subject].id = tabs[u].id
      PROVE  profiles'[tabs[u].subject].crm = "none"
    BY <1>1, <1>5 DEF PageInv, GateIsNarrow, SameRow
<1> QED  BY <1>1, <1>2, <1>3, <1>4, <1>5, CallEnds

-----------------------------------------------------------------------------
(***************************************************************************)
(* Steps that are over at once                                             *)
(***************************************************************************)

\* What a step that touches no request has to keep
LEMMA TabsRest ==
    ASSUME PageInv, tabs' = tabs, PageTypes', RowsGrow, BudgetKept', PageIsCounted',
           DeletedHaveNone', OneRecordEach', ChatsOfSavedProfiles',
           \A t \in Tab : PastGate(t) /\ SameRow(t)' => profiles'[tabs[t].subject].crm = "none"
    PROVE  PageInv'
<1> USE DEF PageInv
<1>1. TabsAreTyped'
    <2>1. tabs' \in [Tab -> PageRequest]  BY DEF TabsAreTyped
    <2>2. \A t \in Tab : GoesOn(tabs'[t], tabs[t])  BY DEF GoesOn
    <2> QED  BY <2>1, <2>2, TabsStay
<1>2. GateIsNarrow'  BY DEF GateIsNarrow, PastGate
<1> QED  BY <1>1, <1>2

LEMMA SaveKeeps ==
    ASSUME PageInv, NEW t \in Tab, NEW w \in Searcher, NEW s \in Target, SaveFromCache(t, w, s)
    PROVE  PageInv'
<1> USE DEF PageInv
<1>1. /\ ~profiles[s].on /\ profiles' = NewProfile(s)
      /\ chats' = chats /\ apollo' = apollo /\ matches' = matches /\ known' = known /\ ledger' = ledger
      /\ losses' = losses /\ tabs' = tabs /\ asks' = asks
    BY DEF SaveFromCache
<1>2. /\ profiles' \in [Target -> ResearchProfile] /\ RowsGrow
      /\ profiles'[s].crm = "none" /\ \A c \in Target \ {s} : profiles'[c] = profiles[c]
      /\ \A c \in Target : profiles[c].on => profiles'[c].on
      /\ DeletedHaveNone' /\ OneRecordEach'
    BY <1>1, NewProfileKeeps
<1>3. PageTypes'  BY <1>1, <1>2 DEF PageTypes
<1>4. BudgetKept' /\ PageIsCounted'  BY <1>1 DEF BudgetKept, PageIsCounted
<1>5. ChatsOfSavedProfiles'
    <2>1. \A c \in chats : c[2] \in Target  BY DEF PageTypes, Conversations
    <2> QED  BY <1>1, <1>2, <2>1 DEF ChatsOfSavedProfiles
<1>6. ASSUME NEW u \in Tab, PastGate(u), SameRow(u)' PROVE profiles'[tabs[u].subject].crm = "none"
    <2>1. tabs[u].subject \in Target  BY <1>6 DEF TabsAreTyped, PastGate
    <2>2. CASE tabs[u].subject = s  BY <1>2, <2>2
    <2>3. CASE tabs[u].subject # s
        <3>1. SameRow(u)  BY <1>1, <1>2, <1>6, <2>1, <2>3 DEF SameRow
        <3> QED  BY <1>2, <1>6, <2>1, <2>3, <3>1 DEF GateIsNarrow
    <2> QED  BY <2>2, <2>3
<1> HIDE DEF PageInv
<1> QED  BY <1>1, <1>2, <1>3, <1>4, <1>5, <1>6, TabsRest

\* A profile is linked only while nobody is past the gate of its row
LEMMA LinkKeeps ==
    ASSUME PageInv, NEW w \in Searcher, NEW s \in Target, LinkToApollo(w, s)
    PROVE  PageInv'
<1> USE DEF PageInv
<1>1. /\ profiles[s].on /\ profiles[s].crm = "none"
      /\ \A u \in Tab : ~(PastGate(u) /\ tabs[u].subject = s /\ tabs[u].id = profiles[s].id)
      /\ profiles' = [profiles EXCEPT ![s].crm = "linked"]
      /\ chats' = chats /\ apollo' = apollo /\ matches' = matches /\ known' = known /\ ledger' = ledger
      /\ losses' = losses /\ tabs' = tabs /\ asks' = asks
    BY DEF LinkToApollo, MaySaveToApollo, PastGate
<1>2. /\ profiles' \in [Target -> ResearchProfile] /\ \A c \in Target \ {s} : profiles'[c] = profiles[c]
      /\ profiles'[s].on = profiles[s].on /\ profiles'[s].id = profiles[s].id /\ profiles'[s].crm = "linked"
    <2> DEFINE r == [profiles[s] EXCEPT !.crm = "linked"]
    <2>1. profiles[s] \in ResearchProfile  BY DEF PageTypes
    <2>2. r \in ResearchProfile /\ r.on = profiles[s].on /\ r.id = profiles[s].id /\ r.crm = "linked"
        BY <2>1 DEF ResearchProfile
    <2>3. profiles' = [profiles EXCEPT ![s] = r]  BY <1>1
    <2> HIDE DEF r
    <2> QED  BY <2>2, <2>3 DEF PageTypes
<1>3. PageTypes'  BY <1>1, <1>2 DEF PageTypes
<1>4. RowsGrow
    <2> SUFFICES ASSUME NEW c \in Target PROVE profiles[c].id <= profiles'[c].id  BY DEF RowsGrow
    <2>1. profiles[c].id \in Nat  BY DEF PageTypes, ResearchProfile
    <2>2. profiles'[c].id = profiles[c].id  BY <1>2
    <2> QED  BY <2>1, <2>2
<1>5. BudgetKept' /\ PageIsCounted'  BY <1>1 DEF BudgetKept, PageIsCounted
<1>6. DeletedHaveNone'  BY <1>1, <1>2 DEF DeletedHaveNone
<1>7. OneRecordEach'
    <2> SUFFICES ASSUME NEW c \in Target, profiles'[c].on, ~apollo[c].unsure
                 PROVE  apollo[c].made = IF profiles'[c].crm = "created" THEN 1 ELSE 0
        BY <1>1 DEF OneRecordEach
    <2>1. CASE c = s  BY <1>1, <1>2, <2>1 DEF OneRecordEach
    <2>2. CASE c # s  BY <1>2, <2>2 DEF OneRecordEach
    <2> QED  BY <2>1, <2>2
<1>8. ChatsOfSavedProfiles'
    <2>1. \A c \in chats : c[2] \in Target  BY DEF PageTypes, Conversations
    <2> QED  BY <1>1, <1>2, <2>1 DEF ChatsOfSavedProfiles
<1>9. ASSUME NEW u \in Tab, PastGate(u), SameRow(u)' PROVE profiles'[tabs[u].subject].crm = "none"
    <2>1. tabs[u].subject \in Target  BY <1>9 DEF TabsAreTyped, PastGate
    <2>2. tabs[u].subject # s  BY <1>1, <1>2, <1>9 DEF SameRow
    <2>3. SameRow(u)  BY <1>1, <1>2, <1>9, <2>1, <2>2 DEF SameRow
    <2> QED  BY <1>2, <1>9, <2>1, <2>2, <2>3 DEF GateIsNarrow
<1> HIDE DEF PageInv
<1> QED  BY <1>1, <1>3, <1>4, <1>5, <1>6, <1>7, <1>8, <1>9, TabsRest

\* A deleted row takes its chats and its records with it; no request reads its id again
LEMMA DeleteProfileKeeps == ASSUME PageInv, NEW s \in Target, DeleteProfile(s) PROVE PageInv'
<1> USE DEF PageInv
<1> DEFINE gone == [on |-> FALSE, id |-> profiles[s].id + 1, crm |-> "none"]
<1>1. /\ profiles[s].id < MaxRows /\ profiles' = [profiles EXCEPT ![s] = gone]
      /\ chats' = {c \in chats : c[2] # s} /\ matches' = [matches EXCEPT ![s] = "unknown"]
      /\ apollo' = [apollo EXCEPT ![s] = [apollo[s] EXCEPT !.made = 0, !.unsure = FALSE]]
      /\ known' = known /\ ledger' = ledger /\ losses' = losses /\ tabs' = tabs /\ asks' = asks
    BY DEF DeleteProfile, ChatsAfterDelete
<1>2. profiles[s].id \in 0 .. MaxRows  BY DEF PageTypes, ResearchProfile
<1>3. gone \in ResearchProfile
    <2>1. profiles[s].id + 1 \in 0 .. MaxRows  BY <1>1, <1>2
    <2> QED  BY <2>1 DEF ResearchProfile
<1>4. /\ profiles' \in [Target -> ResearchProfile] /\ \A c \in Target \ {s} : profiles'[c] = profiles[c]
      /\ profiles'[s] = gone
    BY <1>1, <1>3 DEF PageTypes
<1>5. /\ apollo' \in [Target -> ApolloRecord] /\ \A c \in Target \ {s} : apollo'[c] = apollo[c]
      /\ apollo'[s].made = 0 /\ apollo'[s].unsure = FALSE
    <2> DEFINE r == [apollo[s] EXCEPT !.made = 0, !.unsure = FALSE]
    <2>1. apollo[s] \in ApolloRecord  BY DEF PageTypes
    <2>2. r \in ApolloRecord /\ r.made = 0 /\ r.unsure = FALSE  BY <2>1 DEF ApolloRecord
    <2>3. apollo' = [apollo EXCEPT ![s] = r]  BY <1>1
    <2> HIDE DEF r
    <2> QED  BY <2>2, <2>3 DEF PageTypes
<1>6. matches' \in [Target -> Duplicates]  BY <1>1 DEF PageTypes, Duplicates
<1>7. PageTypes'  BY <1>1, <1>4, <1>5, <1>6 DEF PageTypes
<1>8. RowsGrow
    <2> SUFFICES ASSUME NEW c \in Target PROVE profiles[c].id <= profiles'[c].id  BY DEF RowsGrow
    <2>1. CASE c = s  BY <1>2, <1>4, <2>1
    <2>2. CASE c # s
        <3>1. profiles[c].id \in Nat  BY DEF PageTypes, ResearchProfile
        <3> QED  BY <1>4, <2>2, <3>1
    <2> QED  BY <2>1, <2>2
<1>9. BudgetKept' /\ PageIsCounted'  BY <1>1 DEF BudgetKept, PageIsCounted
<1>10. DeletedHaveNone'
    <2> SUFFICES ASSUME NEW c \in Target, ~profiles'[c].on PROVE apollo'[c].made = 0 /\ ~apollo'[c].unsure
        BY DEF DeletedHaveNone
    <2>1. CASE c = s  BY <1>5, <2>1
    <2>2. CASE c # s  BY <1>4, <1>5, <2>2 DEF DeletedHaveNone
    <2> QED  BY <2>1, <2>2
<1>11. OneRecordEach'
    <2> SUFFICES ASSUME NEW c \in Target, profiles'[c].on, ~apollo'[c].unsure
                 PROVE  apollo'[c].made = IF profiles'[c].crm = "created" THEN 1 ELSE 0
        BY DEF OneRecordEach
    <2>1. c # s  BY <1>4
    <2> QED  BY <1>4, <1>5, <2>1 DEF OneRecordEach
<1>12. ChatsOfSavedProfiles'
    <2>1. \A c \in chats' : c \in chats /\ c[2] # s  BY <1>1
    <2>2. \A c \in chats : c[2] \in Target  BY DEF PageTypes, Conversations
    <2> QED  BY <1>4, <2>1, <2>2 DEF ChatsOfSavedProfiles
<1>13. ASSUME NEW u \in Tab, PastGate(u), SameRow(u)' PROVE profiles'[tabs[u].subject].crm = "none"
    <2>1. tabs[u].subject \in Target  BY <1>13 DEF TabsAreTyped, PastGate
    <2>2. tabs[u].subject # s  BY <1>1, <1>4, <1>13 DEF SameRow
    <2>3. SameRow(u)  BY <1>1, <1>4, <1>13, <2>1, <2>2 DEF SameRow
    <2> QED  BY <1>4, <1>13, <2>1, <2>2, <2>3 DEF GateIsNarrow
<1> HIDE DEF PageInv, gone
<1> QED  BY <1>1, <1>7, <1>8, <1>9, <1>10, <1>11, <1>12, <1>13, TabsRest

\* Steps that leave the rows and the requests alone
LEMMA RowsRest ==
    ASSUME PageInv, UNCHANGED <<profiles, tabs, asks>>, ledger' = ledger,
           matches' \in [Target -> Duplicates], known' \subseteq Target, losses' \in 0 .. MaxLosses,
           chats' \subseteq chats, apollo' \in [Target -> ApolloRecord],
           \A c \in Target : apollo'[c].made = apollo[c].made /\ apollo'[c].unsure = apollo[c].unsure
    PROVE  PageInv'
<1> USE DEF PageInv
<1>1. PageTypes'
    <2>1. chats' \subseteq Conversations  BY DEF PageTypes
    <2> QED  BY <2>1 DEF PageTypes
<1>2. RowsGrow
    <2> SUFFICES ASSUME NEW s \in Target PROVE profiles[s].id <= profiles'[s].id  BY DEF RowsGrow
    <2>1. profiles[s].id \in Nat  BY DEF PageTypes, ResearchProfile
    <2> QED  BY <2>1
<1>3. BudgetKept' /\ PageIsCounted'  BY DEF BudgetKept, PageIsCounted
<1>4. DeletedHaveNone'  BY DEF DeletedHaveNone
<1>5. OneRecordEach'  BY DEF OneRecordEach
<1>6. ChatsOfSavedProfiles'  BY DEF ChatsOfSavedProfiles
<1>7. \A t \in Tab : PastGate(t) /\ SameRow(t)' => profiles'[tabs[t].subject].crm = "none"
    BY DEF GateIsNarrow, SameRow
<1> HIDE DEF PageInv
<1> QED  BY <1>1, <1>2, <1>3, <1>4, <1>5, <1>6, <1>7, TabsRest

LEMMA DeleteChatKeeps ==
    ASSUME PageInv, NEW w \in Searcher, NEW s \in Target, DeleteConversation(w, s)
    PROVE  PageInv'
<1>1. /\ matches' \in [Target -> Duplicates] /\ known' \subseteq Target /\ losses' \in 0 .. MaxLosses
      /\ apollo' \in [Target -> ApolloRecord]
    BY DEF PageInv, PageTypes, DeleteConversation
<1> QED  BY <1>1, RowsRest DEF DeleteConversation

LEMMA ExpireKeeps == ASSUME PageInv, NEW s \in Target, Expire(s) PROVE PageInv'
<1>1. matches' = [matches EXCEPT ![s] = "unknown"] /\ known' = known \ {s}  BY DEF Expire
<1>2. matches' \in [Target -> Duplicates] /\ known' \subseteq Target
    BY <1>1 DEF PageInv, PageTypes, Duplicates
<1>3. losses' \in 0 .. MaxLosses /\ apollo' \in [Target -> ApolloRecord]  BY DEF PageInv, PageTypes, Expire
<1> QED  BY <1>2, <1>3, RowsRest DEF Expire

\* A loss is counted
LEMMA LossCounted ==
    ASSUME PageInv, losses < MaxLosses, losses' = losses + 1
    PROVE  losses' \in 0 .. MaxLosses
<1>1. losses \in 0 .. MaxLosses  BY DEF PageInv, PageTypes
<1> QED  BY <1>1

LEMMA AddedKeeps == ASSUME PageInv, NEW s \in Target, AddedElsewhere(s) PROVE PageInv'
<1>1. losses' \in 0 .. MaxLosses  BY LossCounted DEF AddedElsewhere
<1>2. /\ apollo' \in [Target -> ApolloRecord]
      /\ \A c \in Target : apollo'[c].made = apollo[c].made /\ apollo'[c].unsure = apollo[c].unsure
    <2> DEFINE r == [apollo[s] EXCEPT !.match = TRUE]
    <2>1. apollo[s] \in ApolloRecord /\ apollo \in [Target -> ApolloRecord]  BY DEF PageInv, PageTypes
    <2>2. r \in ApolloRecord /\ r.made = apollo[s].made /\ r.unsure = apollo[s].unsure  BY <2>1 DEF ApolloRecord
    <2>3. apollo' = [apollo EXCEPT ![s] = r]  BY DEF AddedElsewhere
    <2> HIDE DEF r
    <2> QED  BY <2>1, <2>2, <2>3
<1>3. matches' \in [Target -> Duplicates] /\ known' \subseteq Target
    BY DEF PageInv, PageTypes, AddedElsewhere
<1> QED  BY <1>1, <1>2, <1>3, RowsRest DEF AddedElsewhere

\* The ledger changes without the page asking: the page's calls stay among all calls
LEMMA LedgerMoves ==
    ASSUME PageInv, UNCHANGED <<profiles, chats, apollo, matches, known, tabs, asks>>,
           losses' \in 0 .. MaxLosses, ledger' \in [Searcher -> SpentCalls],
           \A w \in Searcher : ledger'[w].page <= ledger'[w].all,
           \A w \in Searcher : ledger'[w].page = ledger[w].page \/ ledger'[w].page = 0
    PROVE  PageInv'
<1> USE DEF PageInv
<1>1. PageTypes'  BY DEF PageTypes
<1>2. RowsGrow /\ DeletedHaveNone' /\ OneRecordEach' /\ ChatsOfSavedProfiles'  BY RowsStay
<1>3. BudgetKept'
    <2> SUFFICES ASSUME NEW w \in Searcher PROVE ledger'[w].page <= DailyLimit  BY DEF BudgetKept
    <2>1. ledger[w].page <= DailyLimit  BY DEF BudgetKept
    <2>2. ledger'[w].page = ledger[w].page \/ ledger'[w].page = 0  OBVIOUS
    <2> QED  BY <2>1, <2>2
<1>4. PageIsCounted'
    <2>1. ASSUME NEW t \in Tab, tabs'[t].at = "asked" PROVE ledger'[tabs'[t].who].page < DailyLimit
        <3>1. tabs[t].who \in Searcher  BY <2>1 DEF TabsAreTyped
        <3>2. ledger[tabs[t].who].page < DailyLimit  BY <2>1 DEF PageIsCounted
        <3>3. ledger'[tabs[t].who].page = ledger[tabs[t].who].page \/ ledger'[tabs[t].who].page = 0  BY <3>1
        <3>4. ledger'[tabs[t].who].page < DailyLimit  BY <3>2, <3>3
        <3> QED  BY <3>4
    <2> QED  BY <2>1 DEF PageIsCounted
<1>5. \A t \in Tab : PastGate(t) /\ SameRow(t)' => profiles'[tabs[t].subject].crm = "none"
    BY DEF GateIsNarrow, SameRow
<1> HIDE DEF PageInv
<1> QED  BY <1>1, <1>2, <1>3, <1>4, <1>5, TabsRest

LEMMA BriefingKeeps == ASSUME PageInv, NEW w \in Searcher, BriefingCall(w) PROVE PageInv'
<1> DEFINE r == [ledger[w] EXCEPT !.all = @ + 1]
<1>1. ledger \in [Searcher -> SpentCalls] /\ losses \in 0 .. MaxLosses  BY DEF PageInv, PageTypes
<1>2. ledger[w].page \in Nat /\ ledger[w].all \in Nat /\ ledger[w] \in SpentCalls  BY <1>1 DEF SpentCalls
<1>3. r \in SpentCalls /\ r.page = ledger[w].page /\ r.all = ledger[w].all + 1  BY <1>2 DEF SpentCalls
<1>4. ledger[w].page <= ledger[w].all  BY DEF PageInv, PageIsCounted
<1>5. ledger' = [ledger EXCEPT ![w] = r]  BY DEF BriefingCall
<1> HIDE DEF r
<1>6. ledger' \in [Searcher -> SpentCalls] /\ ledger'[w] = r /\ \A v \in Searcher \ {w} : ledger'[v] = ledger[v]
    BY <1>1, <1>3, <1>5
<1>7. r.page <= r.all  BY <1>2, <1>3, <1>4
<1>8. \A v \in Searcher : ledger'[v].page <= ledger'[v].all  BY <1>6, <1>7 DEF PageInv, PageIsCounted
<1>9. \A v \in Searcher : ledger'[v].page = ledger[v].page  BY <1>3, <1>6
<1> QED  BY <1>1, <1>6, <1>8, <1>9, LedgerMoves DEF BriefingCall

LEMMA MidnightKeeps == ASSUME PageInv, Midnight PROVE PageInv'
<1>1. losses' \in 0 .. MaxLosses  BY LossCounted DEF Midnight
<1>2. ledger' = [w \in Searcher |-> [page |-> 0, all |-> 0]]  BY DEF Midnight
<1>3. ledger' \in [Searcher -> SpentCalls]  BY <1>2 DEF SpentCalls
<1>4. \A w \in Searcher : ledger'[w].page = 0 /\ ledger'[w].page <= ledger'[w].all  BY <1>2
<1> QED  BY <1>1, <1>3, <1>4, LedgerMoves DEF Midnight

\* Requests end without a call
LEMMA RequestsEnd ==
    ASSUME PageInv, tabs' \in [Tab -> PageRequest], \A t \in Tab : tabs'[t] = tabs[t] \/ tabs'[t] = Rest,
           UNCHANGED <<profiles, matches, known, ledger, asks>>, losses' \in 0 .. MaxLosses,
           chats' \subseteq Conversations, ChatsOfSavedProfiles', apollo' \in [Target -> ApolloRecord],
           DeletedHaveNone', OneRecordEach'
    PROVE  PageInv'
<1> USE DEF PageInv
<1>1. PageTypes'  BY DEF PageTypes
<1>2. RowsGrow
    <2> SUFFICES ASSUME NEW s \in Target PROVE profiles[s].id <= profiles'[s].id  BY DEF RowsGrow
    <2>1. profiles[s].id \in Nat  BY DEF PageTypes, ResearchProfile
    <2> QED  BY <2>1
<1>3. \A t \in Tab : GoesOn(tabs'[t], tabs[t])  BY RestIsRequest DEF GoesOn
<1>4. \A t \in Tab : tabs'[t].at # "rest" => tabs'[t] = tabs[t]  BY RestIsRequest
<1>5. TabsAreTyped'  BY <1>1, <1>2, <1>3, TabsStay
<1>6. \A t \in Tab : tabs'[t].at = "asked" => tabs[t].at = "asked"  BY <1>4
<1>7. BudgetKept' /\ PageIsCounted'  BY <1>3, <1>6, CountStays
<1>8. \A t \in Tab : PastGate(t)' => PastGate(t)  BY <1>4 DEF PastGate
<1>9. \A t \in Tab : PastGate(t)' /\ SameRow(t)' => SameRow(t)  BY <1>4 DEF PastGate, SameRow
<1>10. GateIsNarrow'  BY <1>3, <1>8, <1>9, GateStays
<1> QED  BY <1>1, <1>5, <1>7, <1>10

\* An answer is kept in a chat of a profile that is there, or not at all
LEMMA AnswerKeeps == ASSUME PageInv, NEW t \in Tab, Answered(t) PROVE PageInv'
<1> USE DEF PageInv
<1>1. /\ tabs[t].at = "model" /\ tabs' = [tabs EXCEPT ![t] = Rest] /\ chats' \in {chats, Exchange(t)}
      /\ profiles' = profiles /\ apollo' = apollo /\ matches' = matches /\ known' = known
      /\ ledger' = ledger /\ losses' = losses /\ asks' = asks
    BY DEF Answered
<1>2. tabs' \in [Tab -> PageRequest] /\ \A u \in Tab : tabs'[u] = tabs[u] \/ tabs'[u] = Rest
    BY <1>1, RestIsRequest DEF TabsAreTyped
<1>3. DeletedHaveNone' /\ OneRecordEach'  BY <1>1 DEF DeletedHaveNone, OneRecordEach
<1>4. losses' \in 0 .. MaxLosses /\ apollo' \in [Target -> ApolloRecord]  BY <1>1 DEF PageTypes
<1>5. chats' = chats \/ (SameRow(t) /\ chats' = chats \cup {<<tabs[t].who, tabs[t].subject>>})
    BY <1>1 DEF Exchange
<1>6. chats' \subseteq Conversations /\ ChatsOfSavedProfiles'
    <2>1. tabs[t].who \in Searcher /\ tabs[t].subject \in Target  BY <1>1 DEF TabsAreTyped
    <2>2. CASE chats' = chats  BY <1>1, <2>2 DEF PageTypes, ChatsOfSavedProfiles
    <2>3. CASE SameRow(t) /\ chats' = chats \cup {<<tabs[t].who, tabs[t].subject>>}
        <3>1. chats' \subseteq Conversations  BY <2>1, <2>3 DEF PageTypes, Conversations
        <3>2. profiles[tabs[t].subject].on  BY <2>3 DEF SameRow
        <3>3. ASSUME NEW c \in chats' PROVE profiles'[c[2]].on
            <4>1. CASE c \in chats  BY <1>1, <4>1 DEF ChatsOfSavedProfiles
            <4>2. CASE c = <<tabs[t].who, tabs[t].subject>>
                <5>1. c[2] = tabs[t].subject  BY <4>2
                <5> QED  BY <1>1, <3>2, <5>1
            <4> QED  BY <2>3, <4>1, <4>2
        <3> QED  BY <3>1, <3>3 DEF ChatsOfSavedProfiles
    <2> QED  BY <1>5, <2>2, <2>3
<1> HIDE DEF PageInv
<1> QED  BY <1>1, <1>2, <1>3, <1>4, <1>6, RequestsEnd

\* What Apollo had been asked when the process ended may still be done
LEMMA ExplorerRestartKeeps == ASSUME PageInv, Restart PROVE PageInv'
<1>1. losses' \in 0 .. MaxLosses  BY LossCounted DEF Restart
<1>2. /\ tabs' = [t \in Tab |-> Rest]
      /\ profiles' = profiles /\ chats' = chats /\ matches' = matches /\ known' = known
      /\ ledger' = ledger /\ asks' = asks
    BY DEF Restart
<1>3. tabs' \in [Tab -> PageRequest] /\ \A t \in Tab : tabs'[t] = tabs[t] \/ tabs'[t] = Rest
    BY <1>2, RestIsRequest
<1>4. chats' \subseteq Conversations /\ ChatsOfSavedProfiles'
    BY <1>2 DEF PageInv, PageTypes, ChatsOfSavedProfiles
<1>5. apollo' \in [Target -> ApolloRecord] /\ DeletedHaveNone' /\ OneRecordEach'
    <2>1. CASE apollo' = apollo  BY <1>2, <2>1 DEF PageInv, PageTypes, DeletedHaveNone, OneRecordEach
    <2>2. ASSUME NEW t \in Tab, tabs[t].at = "asked", tabs[t].kind = "create", apollo' = OneMore(t, TRUE)
          PROVE  apollo' \in [Target -> ApolloRecord] /\ DeletedHaveNone' /\ OneRecordEach'
        BY <1>2, <2>2, RecordIsCounted
    <2> QED  BY <2>1, <2>2 DEF Restart
<1> QED  BY <1>1, <1>2, <1>3, <1>4, <1>5, RequestsEnd

\* Changes of the connection clear the cache at most
LEMMA ConnectionKeepsPage ==
    ASSUME PageInv, UNCHANGED Page, matches' \in [Target -> Duplicates], known' \subseteq Target
    PROVE  PageInv'
<1>1. /\ profiles' = profiles /\ chats' = chats /\ apollo' = apollo /\ ledger' = ledger /\ tabs' = tabs
      /\ asks' = asks /\ losses' = losses
    BY DEF Page
<1>2. apollo' \in [Target -> ApolloRecord] /\ losses' \in 0 .. MaxLosses  BY <1>1 DEF PageInv, PageTypes
<1> QED  BY <1>1, <1>2, RowsRest

-----------------------------------------------------------------------------
(***************************************************************************)
(* The connection                                                          *)
(***************************************************************************)

\* One change moves, the others stay
LEMMA SetupStep ==
    ASSUME LinkTypes, NEW k \in Setup, NEW at, NEW account, [at |-> at, account |-> account] \in SetupChange,
           setups' = [setups EXCEPT ![k] = [at |-> at, account |-> account]]
    PROVE  /\ setups' \in [Setup -> SetupChange] /\ setups'[k].at = at /\ setups'[k].account = account
           /\ \A j \in Setup \ {k} : setups'[j] = setups[j]
<1> DEFINE r == [at |-> at, account |-> account]
<1>1. r.at = at /\ r.account = account  OBVIOUS
<1> HIDE DEF r
<1>2. setups' = [setups EXCEPT ![k] = r] /\ r \in SetupChange  BY DEF r
<1> QED  BY <1>1, <1>2 DEF LinkTypes

\* The numbers of accounts are numbers
LEMMA AccountNumbers ==
    ASSUME LinkTypes
    PROVE  /\ changes \in Nat /\ integration.account \in Nat
           /\ \A k \in Setup : setups[k].account \in 0 .. MaxChanges
           /\ \A k \in Setup : setups[k] = [at |-> setups[k].at, account |-> setups[k].account]
BY DEF LinkTypes, IntegrationRow, SetupChange

\* A change that ends, or waits for something that takes nothing: its account is known
LEMMA SetupMoves ==
    ASSUME LinkInv, NEW k \in Setup, NEW at \in {"rest", "rechecking", "forgetting", "closing", "closed"},
           NEW account \in {0, integration.account, setups[k].account},
           Sets(k, at, account), severed' = severed,
           integration' \in IntegrationRow, integration'.account = integration.account,
           accounts' \subseteq accounts, changes' \in 0 .. MaxChanges, changes <= changes',
           at = "forgetting" => account \notin {0, integration.account},
           at # "rest" => \A j \in Setup \ {k} : setups[j].at = "testing" => setups[j].account # account,
           \A j \in Setup \ {k} : setups[j].at = "testing" => setups[j].account \in accounts',
           ConnectionExists'
    PROVE  LinkInv'
<1> USE DEF LinkInv
<1>0. LinkTypes /\ AccountsAreOwned  OBVIOUS
<1>1. /\ changes \in Nat /\ integration.account \in 0 .. MaxChanges
      /\ \A j \in Setup : setups[j].account \in 0 .. MaxChanges
    BY AccountNumbers DEF LinkTypes, IntegrationRow
<1>2. account \in 0 .. MaxChanges  BY <1>1
<1>3. [at |-> at, account |-> account] \in SetupChange  BY <1>2 DEF SetupChange
<1>4. /\ setups' \in [Setup -> SetupChange] /\ setups'[k].at = at /\ setups'[k].account = account
      /\ \A j \in Setup \ {k} : setups'[j] = setups[j]
    BY <1>0, <1>3, SetupStep DEF Sets
<1>5. LinkTypes'  BY <1>4 DEF LinkTypes
<1>6. account <= changes
    <2>1. 0 <= changes  BY <1>1
    <2>2. integration.account <= changes /\ setups[k].account <= changes  BY DEF AccountsAreOwned
    <2> QED  BY <2>1, <2>2
<1>7. AccountsAreOwned'
    <2>1. \A n \in Nat : n <= changes => n <= changes'  BY <1>1
    <2>2. integration'.account <= changes'  BY <1>1, <2>1 DEF AccountsAreOwned
    <2>3. \A a \in accounts' : a <= changes'
        <3>1. \A a \in accounts : a \in Nat  BY DEF LinkTypes
        <3> QED  BY <2>1, <3>1 DEF AccountsAreOwned
    <2>4. \A j \in Setup : setups'[j].account <= changes'
        <3> SUFFICES ASSUME NEW j \in Setup PROVE setups'[j].account <= changes'  OBVIOUS
        <3>1. CASE j = k
            <4>1. account \in Nat  BY <1>2
            <4> QED  BY <1>4, <1>6, <2>1, <3>1, <4>1
        <3>2. CASE j # k
            <4>1. setups[j].account \in Nat /\ setups[j].account <= changes  BY <1>1 DEF AccountsAreOwned
            <4> QED  BY <1>4, <2>1, <3>2, <4>1
        <3> QED  BY <3>1, <3>2
    <2>5. ASSUME NEW j \in Setup, setups'[j].at = "testing"
          PROVE  /\ setups'[j].account \in accounts' /\ setups'[j].account # integration'.account
                 /\ \A i \in Setup \ {j} : setups'[i].at # "rest" => setups'[i].account # setups'[j].account
        <3>1. j # k /\ setups'[j] = setups[j]  BY <1>4, <2>5
        <3>2. setups[j].account # integration.account  BY <2>5, <3>1 DEF AccountsAreOwned
        <3>3. ASSUME NEW i \in Setup \ {j}, setups'[i].at # "rest" PROVE setups'[i].account # setups'[j].account
            <4>1. CASE i = k  BY <1>4, <2>5, <3>1, <3>3, <4>1
            <4>2. CASE i # k  BY <1>4, <2>5, <3>1, <3>3, <4>2 DEF AccountsAreOwned
            <4> QED  BY <4>1, <4>2
        <3> QED  BY <2>5, <3>1, <3>2, <3>3
    <2>6. ASSUME NEW j \in Setup, setups'[j].at = "forgetting" PROVE setups'[j].account \notin {0, integration'.account}
        <3>1. CASE j = k  BY <1>4, <2>6, <3>1
        <3>2. CASE j # k  BY <1>4, <2>6, <3>2 DEF AccountsAreOwned
        <3> QED  BY <3>1, <3>2
    <2> QED  BY <2>2, <2>3, <2>4, <2>5, <2>6 DEF AccountsAreOwned
<1> QED  BY <1>5, <1>7

\* The connection is there still, or somebody is taking it away
LEMMA ConnectionStays ==
    ASSUME LinkInv, NEW k \in Setup, setups[k].at # "closed", \A j \in Setup \ {k} : setups'[j] = setups[j],
           severed' = severed, integration'.account = integration.account,
           integration.account \in accounts => integration.account \in accounts'
    PROVE  ConnectionExists'
BY DEF LinkInv, ConnectionExists

\* Nothing of the connection changes but its status
LEMMA LinkStays ==
    ASSUME LinkInv, UNCHANGED <<accounts, setups, changes, severed>>,
           integration' \in IntegrationRow, integration'.account = integration.account
    PROVE  LinkInv'
<1>1. LinkTypes'  BY DEF LinkInv, LinkTypes
<1>2. AccountsAreOwned'  BY DEF LinkInv, AccountsAreOwned
<1>3. ConnectionExists'  BY DEF LinkInv, ConnectionExists
<1> QED  BY <1>1, <1>2, <1>3 DEF LinkInv

\* Another status is of the same connection
LEMMA StatusSet ==
    ASSUME LinkTypes, NEW status \in {"active", "invalid", "out_of_credit"},
           integration' = integration \/ integration' = [integration EXCEPT !.status = status]
    PROVE  integration' \in IntegrationRow /\ integration'.account = integration.account
BY DEF LinkTypes, IntegrationRow

\* A change that begins is counted
LEMMA BeginsCounted ==
    ASSUME LinkTypes, NEW k \in Setup, Begins(k)
    PROVE  changes' = changes + 1 /\ changes' \in 0 .. MaxChanges /\ changes <= changes' /\ setups[k].at = "rest"
<1>1. changes \in Nat /\ changes < MaxChanges /\ changes' = changes + 1 /\ setups[k].at = "rest"
    BY DEF LinkTypes, Begins
<1>2. changes' \in 0 .. MaxChanges  BY <1>1
<1>3. changes <= changes'  BY <1>1
<1> QED  BY <1>1, <1>2, <1>3

\* A new account is nobody's
LEMMA ConnectKeeps == ASSUME LinkInv, NEW k \in Setup, Connect(k) PROVE LinkInv'
<1> USE DEF LinkInv
<1>0. LinkTypes /\ AccountsAreOwned  OBVIOUS
<1>1. changes' = changes + 1 /\ changes' \in 0 .. MaxChanges /\ changes <= changes' /\ setups[k].at = "rest"
    BY <1>0, BeginsCounted DEF Connect
<1>2. /\ changes \in Nat /\ integration.account \in Nat
      /\ \A j \in Setup : setups[j].account \in 0 .. MaxChanges
    BY <1>0, AccountNumbers
<1>3. /\ accounts' = accounts \cup {changes'} /\ integration' = integration /\ severed' = severed
      /\ setups' = [setups EXCEPT ![k] = [at |-> "testing", account |-> changes']]
    BY DEF Connect, Sets
<1>4. [at |-> "testing", account |-> changes'] \in SetupChange  BY <1>1 DEF SetupChange
<1>5. /\ setups' \in [Setup -> SetupChange] /\ setups'[k].at = "testing" /\ setups'[k].account = changes'
      /\ \A j \in Setup \ {k} : setups'[j] = setups[j]
    BY <1>0, <1>3, <1>4, SetupStep
<1>6. \A n \in Nat : n <= changes => n <= changes' /\ n # changes'  BY <1>1, <1>2
<1>7. LinkTypes'
    <2>1. changes' \in 1 .. MaxChanges  BY <1>1, <1>2
    <2>2. accounts' \subseteq 1 .. MaxChanges  BY <1>3, <2>1 DEF LinkTypes
    <2> QED  BY <1>1, <1>3, <1>5, <2>2 DEF LinkTypes
<1>8. \A j \in Setup \ {k} : setups'[j].account <= changes' /\ setups'[j].account # changes'
    <2> SUFFICES ASSUME NEW j \in Setup \ {k}
                 PROVE  setups'[j].account <= changes' /\ setups'[j].account # changes'
        OBVIOUS
    <2>1. setups[j].account \in Nat /\ setups[j].account <= changes  BY <1>2 DEF AccountsAreOwned
    <2> QED  BY <1>5, <1>6, <2>1
<1>9. integration'.account <= changes' /\ integration'.account # changes'
    BY <1>2, <1>3, <1>6 DEF AccountsAreOwned
<1>10. AccountsAreOwned'
    <2>1. \A a \in accounts' : a <= changes'
        <3>1. \A a \in accounts : a \in Nat /\ a <= changes  BY DEF LinkTypes, AccountsAreOwned
        <3>2. changes' <= changes'  BY <1>1
        <3> QED  BY <1>3, <1>6, <3>1, <3>2
    <2>2. \A j \in Setup : setups'[j].account <= changes'
        <3>1. changes' <= changes'  BY <1>1
        <3> QED  BY <1>5, <1>8, <3>1
    <2>3. ASSUME NEW j \in Setup, setups'[j].at = "testing"
          PROVE  /\ setups'[j].account \in accounts' /\ setups'[j].account # integration'.account
                 /\ \A i \in Setup \ {j} : setups'[i].at # "rest" => setups'[i].account # setups'[j].account
        <3>1. CASE j = k  BY <1>3, <1>5, <1>8, <1>9, <3>1
        <3>2. CASE j # k
            <4>1. setups'[j] = setups[j]  BY <1>5, <3>2
            <4>2. setups[j].account \in accounts /\ setups[j].account # integration.account
                BY <2>3, <4>1 DEF AccountsAreOwned
            <4>3. ASSUME NEW i \in Setup \ {j}, setups'[i].at # "rest" PROVE setups'[i].account # setups'[j].account
                <5>1. CASE i = k  BY <1>5, <1>8, <3>2, <5>1
                <5>2. CASE i # k  BY <1>5, <2>3, <4>1, <4>3, <5>2 DEF AccountsAreOwned
                <5> QED  BY <5>1, <5>2
            <4> QED  BY <1>3, <4>1, <4>2, <4>3
        <3> QED  BY <3>1, <3>2
    <2>4. \A j \in Setup : setups'[j].at = "forgetting" => setups'[j].account \notin {0, integration'.account}
        BY <1>3, <1>5 DEF AccountsAreOwned
    <2> QED  BY <1>9, <2>1, <2>2, <2>3, <2>4 DEF AccountsAreOwned
<1>11. ConnectionExists'
    <2>1. setups[k].at # "closed"  BY <1>1
    <2> HIDE DEF LinkInv
    <2> QED  BY <1>3, <1>5, <2>1, ConnectionStays
<1> QED  BY <1>7, <1>10, <1>11

\* The account that was tested takes the place of the one in use, which is forgotten
LEMMA TestedKeeps == ASSUME LinkInv, NEW k \in Setup, NEW ok \in BOOLEAN, Tested(k, ok) PROVE LinkInv'
<1> USE DEF LinkInv
<1>0. LinkTypes /\ AccountsAreOwned  OBVIOUS
<1>1. setups[k].at = "testing" /\ accounts' = accounts /\ changes' = changes /\ severed' = severed  BY DEF Tested
<1>2. /\ setups[k].account \in accounts /\ setups[k].account # integration.account
      /\ \A j \in Setup \ {k} : setups[j].at # "rest" => setups[j].account # setups[k].account
    BY <1>1 DEF AccountsAreOwned
<1>3. /\ changes \in Nat /\ integration.account \in 0 .. MaxChanges
      /\ \A j \in Setup : setups[j].account \in 0 .. MaxChanges
    BY <1>0, AccountNumbers DEF LinkTypes, IntegrationRow
<1>4. setups[k].account \in 1 .. MaxChanges  BY <1>2 DEF LinkTypes
<1>5. setups[k].account # 0  BY <1>4
<1>6. CASE ok
    <2> DEFINE row == Replaced(k)
    <2>1. PICK status \in {"active", "out_of_credit"} : integration' = [account |-> setups[k].account, status |-> status]
        BY <1>6 DEF Tested
    <2>2. integration' \in IntegrationRow /\ integration'.account = setups[k].account
        BY <1>3, <2>1 DEF IntegrationRow
    <2>3. setups' = [setups EXCEPT ![k] = row]  BY <1>6 DEF Tested
    <2>4. /\ row \in SetupChange /\ row.at \in {"rest", "forgetting"} /\ row.account = integration.account
          /\ row.at = "forgetting" => integration.account # 0
        BY <1>3 DEF Replaced, Still, SetupChange
    <2> HIDE DEF row
    <2>5. /\ setups' \in [Setup -> SetupChange] /\ setups'[k] = row
          /\ \A j \in Setup \ {k} : setups'[j] = setups[j]
        BY <2>3, <2>4 DEF LinkTypes
    <2>6. LinkTypes'  BY <1>1, <2>2, <2>5 DEF LinkTypes
    <2>7. AccountsAreOwned'
        <3>1. integration'.account <= changes' /\ \A a \in accounts' : a <= changes'
            BY <1>1, <2>2 DEF AccountsAreOwned
        <3>2. \A j \in Setup : setups'[j].account <= changes'  BY <1>1, <2>4, <2>5 DEF AccountsAreOwned
        <3>3. ASSUME NEW j \in Setup, setups'[j].at = "testing"
              PROVE  /\ setups'[j].account \in accounts' /\ setups'[j].account # integration'.account
                     /\ \A i \in Setup \ {j} : setups'[i].at # "rest" => setups'[i].account # setups'[j].account
            <4>1. j # k /\ setups'[j] = setups[j] /\ setups[j].at = "testing"  BY <2>4, <2>5, <3>3
            <4>2. setups[j].account # setups[k].account  BY <1>2, <4>1
            <4>3. setups[j].account \in accounts /\ setups[j].account # integration.account
                BY <4>1 DEF AccountsAreOwned
            <4>4. ASSUME NEW i \in Setup \ {j}, setups'[i].at # "rest" PROVE setups'[i].account # setups'[j].account
                <5>1. CASE i = k  BY <2>4, <2>5, <4>1, <4>3, <5>1
                <5>2. CASE i # k  BY <2>5, <4>1, <4>4, <5>2 DEF AccountsAreOwned
                <5> QED  BY <5>1, <5>2
            <4> QED  BY <1>1, <2>2, <4>1, <4>2, <4>3, <4>4
        <3>4. ASSUME NEW j \in Setup, setups'[j].at = "forgetting"
              PROVE  setups'[j].account \notin {0, integration'.account}
            <4>1. CASE j = k  BY <1>2, <2>2, <2>4, <2>5, <3>4, <4>1
            <4>2. CASE j # k
                <5>1. setups'[j] = setups[j] /\ setups[j].at = "forgetting"  BY <2>5, <3>4, <4>2
                <5>2. setups[j].account # 0  BY <5>1 DEF AccountsAreOwned
                <5>3. setups[j].account # setups[k].account  BY <1>2, <4>2, <5>1
                <5> QED  BY <2>2, <5>1, <5>2, <5>3
            <4> QED  BY <4>1, <4>2
        <3> QED  BY <3>1, <3>2, <3>3, <3>4 DEF AccountsAreOwned
    <2>8. ConnectionExists'  BY <1>1, <1>2, <2>2 DEF ConnectionExists
    <2> QED  BY <2>6, <2>7, <2>8
<1>7. CASE ~ok
    <2>1. Sets(k, "forgetting", setups[k].account) /\ integration' = integration  BY <1>7 DEF Tested
    <2>2. \A j \in Setup \ {k} : setups'[j] = setups[j]  BY <2>1 DEF Sets, LinkTypes
    <2>3. ConnectionExists'
        <3> HIDE DEF LinkInv
        <3> QED  BY <1>1, <2>1, <2>2, ConnectionStays
    <2>4. \A j \in Setup \ {k} : setups[j].at = "testing" =>
              setups[j].account # setups[k].account /\ setups[j].account \in accounts'
        BY <1>1, <1>2 DEF AccountsAreOwned
    <2>5. integration' \in IntegrationRow /\ changes' \in 0 .. MaxChanges  BY <1>1, <2>1 DEF LinkTypes
    <2>6. changes <= changes'  BY <1>1, <1>3
    <2>7. setups[k].account \notin {0, integration.account}  BY <1>2, <1>5
    <2> HIDE DEF LinkInv
    <2> QED  BY <1>1, <2>1, <2>3, <2>4, <2>5, <2>6, <2>7, SetupMoves
<1> QED  BY <1>6, <1>7

\* An account that is forgotten or closed is not one under test
LEMMA ForgetKeeps == ASSUME LinkInv, NEW k \in Setup, NEW gone \in BOOLEAN, Forget(k, gone) PROVE LinkInv'
<1>1. /\ setups[k].at = "forgetting" /\ Sets(k, "rest", 0) /\ integration' = integration
      /\ changes' = changes /\ severed' = severed /\ accounts \ {setups[k].account} \subseteq accounts'
      /\ accounts' \subseteq accounts
    BY DEF Forget
<1>2. \A j \in Setup \ {k} : setups'[j] = setups[j]  BY <1>1 DEF Sets, LinkInv, LinkTypes
<1>3. integration.account # setups[k].account  BY <1>1 DEF LinkInv, AccountsAreOwned
<1>4. ConnectionExists'  BY <1>1, <1>2, <1>3, ConnectionStays
<1>5. \A j \in Setup \ {k} : setups[j].at = "testing" => setups[j].account \in accounts'
    BY <1>1 DEF LinkInv, AccountsAreOwned
<1>6. integration' \in IntegrationRow /\ changes' \in 0 .. MaxChanges  BY <1>1 DEF LinkInv, LinkTypes
<1>7. changes <= changes'  BY <1>1, AccountNumbers DEF LinkInv
<1> QED  BY <1>1, <1>4, <1>5, <1>6, <1>7, SetupMoves

\* A disconnect, or a test of the key in use, begins with the account it read
LEMMA AccountReadKeeps ==
    ASSUME LinkInv, NEW k \in Setup, NEW at \in {"closing", "rechecking"}, Begins(k), Sets(k, at, integration.account),
           UNCHANGED <<integration, accounts, severed>>
    PROVE  LinkInv'
<1>1. changes' \in 0 .. MaxChanges /\ changes <= changes' /\ setups[k].at = "rest"
    BY BeginsCounted DEF LinkInv
<1>2. \A j \in Setup \ {k} : setups'[j] = setups[j]  BY DEF Sets, LinkInv, LinkTypes
<1>3. ConnectionExists'  BY <1>1, <1>2, ConnectionStays
<1>4. \A j \in Setup \ {k} : setups[j].at = "testing" =>
          setups[j].account # integration.account /\ setups[j].account \in accounts'
    BY DEF LinkInv, AccountsAreOwned
<1>5. integration' \in IntegrationRow  BY DEF LinkInv, LinkTypes
<1> QED  BY <1>1, <1>3, <1>4, <1>5, SetupMoves

LEMMA CloseKeeps == ASSUME LinkInv, NEW k \in Setup, NEW closed \in BOOLEAN, CloseAccount(k, closed) PROVE LinkInv'
<1>1. /\ setups[k].at = "closing" /\ integration' = integration /\ changes' = changes /\ severed' = severed
    BY DEF CloseAccount
<1>2. integration' \in IntegrationRow /\ changes' \in 0 .. MaxChanges  BY <1>1 DEF LinkInv, LinkTypes
<1>3. changes <= changes'  BY <1>1, AccountNumbers DEF LinkInv
<1>4. CASE closed
    <2>1. Sets(k, "closed", setups[k].account) /\ accounts' = accounts \ {setups[k].account}
        BY <1>4 DEF CloseAccount
    <2>2. setups' = [setups EXCEPT ![k] = [at |-> "closed", account |-> setups[k].account]]  BY <2>1 DEF Sets
    <2>3. /\ setups'[k] = [at |-> "closed", account |-> setups[k].account]
          /\ \A j \in Setup \ {k} : setups'[j] = setups[j]
        BY <2>2 DEF LinkInv, LinkTypes
    <2>4. ConnectionExists'
        <3>1. CASE integration.account = setups[k].account  BY <1>1, <2>3, <3>1 DEF ConnectionExists
        <3>2. CASE integration.account # setups[k].account  BY <1>1, <2>1, <2>3, <3>2, ConnectionStays
        <3> QED  BY <3>1, <3>2
    <2>5. \A j \in Setup \ {k} : setups[j].at = "testing" =>
              setups[j].account # setups[k].account /\ setups[j].account \in accounts'
        BY <1>1, <2>1 DEF LinkInv, AccountsAreOwned
    <2> QED  BY <1>1, <1>2, <1>3, <2>1, <2>4, <2>5, SetupMoves
<1>5. CASE ~closed
    <2>1. Sets(k, "rest", 0) /\ accounts' = accounts  BY <1>5 DEF CloseAccount
    <2>2. \A j \in Setup \ {k} : setups'[j] = setups[j]  BY <2>1 DEF Sets, LinkInv, LinkTypes
    <2>3. ConnectionExists'  BY <1>1, <2>1, <2>2, ConnectionStays
    <2>4. \A j \in Setup \ {k} : setups[j].at = "testing" => setups[j].account \in accounts'
        BY <2>1 DEF LinkInv, AccountsAreOwned
    <2> QED  BY <1>1, <1>2, <1>3, <2>1, <2>3, <2>4, SetupMoves
<1> QED  BY <1>4, <1>5

LEMMA RecheckedKeeps ==
    ASSUME LinkInv, NEW k \in Setup, NEW status \in {"active", "invalid", "out_of_credit"}, Rechecked(k, status)
    PROVE  LinkInv'
<1>1. /\ setups[k].at = "rechecking" /\ Sets(k, "rest", 0) /\ accounts' = accounts
      /\ changes' = changes /\ severed' = severed
    BY DEF Rechecked
<1>2. integration' \in IntegrationRow /\ integration'.account = integration.account
    <2>1. integration' = integration \/ integration' = [integration EXCEPT !.status = status]  BY DEF Rechecked
    <2> QED  BY <2>1, StatusSet DEF LinkInv
<1>3. \A j \in Setup \ {k} : setups'[j] = setups[j]  BY <1>1 DEF Sets, LinkInv, LinkTypes
<1>4. ConnectionExists'  BY <1>1, <1>2, <1>3, ConnectionStays
<1>5. \A j \in Setup \ {k} : setups[j].at = "testing" => setups[j].account \in accounts'
    BY <1>1 DEF LinkInv, AccountsAreOwned
<1>6. changes' \in 0 .. MaxChanges  BY <1>1 DEF LinkInv, LinkTypes
<1>7. changes <= changes'  BY <1>1, AccountNumbers DEF LinkInv
<1> QED  BY <1>1, <1>2, <1>4, <1>5, <1>6, <1>7, SetupMoves

\* Nothing is left to be there
LEMMA DisconnectedKeeps == ASSUME LinkInv, NEW k \in Setup, Disconnected(k) PROVE LinkInv'
<1> USE DEF LinkInv
<1>0. LinkTypes /\ AccountsAreOwned  OBVIOUS
<1>1. /\ setups' = [setups EXCEPT ![k] = [at |-> "rest", account |-> 0]]
      /\ integration' = [account |-> 0, status |-> "active"]
      /\ accounts' = accounts /\ changes' = changes /\ severed' = severed
    BY DEF Disconnected, Sets
<1>2. [at |-> "rest", account |-> 0] \in SetupChange  BY DEF SetupChange
<1>3. /\ setups' \in [Setup -> SetupChange] /\ setups'[k].at = "rest" /\ setups'[k].account = 0
      /\ \A j \in Setup \ {k} : setups'[j] = setups[j]
    BY <1>0, <1>1, <1>2, SetupStep
<1>4. integration' \in IntegrationRow /\ integration'.account = 0  BY <1>1 DEF IntegrationRow
<1>5. LinkTypes'  BY <1>1, <1>3, <1>4 DEF LinkTypes
<1>6. 0 <= changes  BY <1>0, AccountNumbers
<1>7. AccountsAreOwned'
    <2>1. integration'.account <= changes' /\ \A a \in accounts' : a <= changes'
        BY <1>1, <1>4, <1>6 DEF AccountsAreOwned
    <2>2. \A j \in Setup : setups'[j].account <= changes'  BY <1>1, <1>3, <1>6 DEF AccountsAreOwned
    <2>3. ASSUME NEW j \in Setup, setups'[j].at = "testing"
          PROVE  /\ setups'[j].account \in accounts' /\ setups'[j].account # integration'.account
                 /\ \A i \in Setup \ {j} : setups'[i].at # "rest" => setups'[i].account # setups'[j].account
        <3>1. j # k /\ setups'[j] = setups[j]  BY <1>3, <2>3
        <3>2. setups[j].account \in accounts  BY <2>3, <3>1 DEF AccountsAreOwned
        <3>3. setups[j].account # 0
            <4>1. setups[j].account \in 1 .. MaxChanges  BY <3>2 DEF LinkTypes
            <4> QED  BY <4>1
        <3>4. \A i \in Setup \ {j} : setups'[i].at # "rest" => setups'[i].account # setups'[j].account
            BY <1>3, <2>3, <3>1 DEF AccountsAreOwned
        <3> QED  BY <1>1, <1>4, <3>1, <3>2, <3>3, <3>4
    <2>4. \A j \in Setup : setups'[j].at = "forgetting" => setups'[j].account \notin {0, integration'.account}
        BY <1>3, <1>4 DEF AccountsAreOwned
    <2> QED  BY <2>1, <2>2, <2>3, <2>4 DEF AccountsAreOwned
<1>8. ConnectionExists'  BY <1>4 DEF ConnectionExists
<1> QED  BY <1>5, <1>7, <1>8

\* A restart ends every change, and remembers one it cut in two
LEMMA SetupsEnd == ASSUME LinkInv, Restart PROVE LinkInv'
<1>1. /\ setups' = [k \in Setup |-> Still] /\ severed' = (severed \/ \E k \in Setup : setups[k].at = "closed")
      /\ integration' = integration /\ accounts' = accounts /\ changes' = changes
    BY DEF Restart
<1>2. LinkTypes'
    <2>1. setups' \in [Setup -> SetupChange]  BY <1>1 DEF Still, SetupChange
    <2>2. severed' \in BOOLEAN  BY <1>1 DEF LinkInv, LinkTypes
    <2> QED  BY <1>1, <2>1, <2>2 DEF LinkInv, LinkTypes
<1>3. AccountsAreOwned'
    <2>1. \A k \in Setup : setups'[k].at = "rest" /\ setups'[k].account = 0  BY <1>1 DEF Still
    <2>2. 0 <= changes  BY AccountNumbers DEF LinkInv
    <2> QED  BY <1>1, <2>1, <2>2 DEF LinkInv, AccountsAreOwned
<1>4. ConnectionExists'
    <2> SUFFICES ASSUME integration.account # 0 PROVE integration.account \in accounts \/ severed'
        BY <1>1 DEF ConnectionExists
    <2>1. CASE \E k \in Setup : setups[k].at = "closed"  BY <1>1, <2>1
    <2>2. CASE ~ \E k \in Setup : setups[k].at = "closed"
        <3>1. \A k \in Setup : setups[k] # [at |-> "closed", account |-> integration.account]  BY <2>2
        <3>2. integration.account \in accounts \/ severed  BY <3>1 DEF LinkInv, ConnectionExists
        <3> QED  BY <1>1, <3>2
    <2> QED  BY <2>1, <2>2
<1> QED  BY <1>2, <1>3, <1>4 DEF LinkInv

-----------------------------------------------------------------------------
LEMMA ConnectionKeeps == ExplorerInv /\ ConnectionSteps => ExplorerInv'
<1> SUFFICES ASSUME ExplorerInv, NEW k \in Setup,
                    \/ Connect(k) \/ Disconnect(k) \/ Disconnected(k) \/ Recheck(k)
                    \/ \E ok \in BOOLEAN : Tested(k, ok) \/ Forget(k, ok) \/ CloseAccount(k, ok)
                    \/ \E status \in {"active", "invalid", "out_of_credit"} : Rechecked(k, status)
             PROVE  PageInv' /\ LinkInv'
    BY DEF ConnectionSteps, ExplorerInv
<1>1. PageInv /\ LinkInv  BY DEF ExplorerInv
<1>2. matches \in [Target -> Duplicates] /\ known \subseteq Target  BY <1>1 DEF PageInv, PageTypes
<1>3. CASE Connect(k)
    <2>1. UNCHANGED Page /\ matches' = matches /\ known' = known  BY <1>3 DEF Connect
    <2> QED  BY <1>1, <1>2, <1>3, <2>1, ConnectKeeps, ConnectionKeepsPage
<1>4. CASE Disconnect(k)
    <2>1. UNCHANGED Page /\ matches' = matches /\ known' = known  BY <1>4 DEF Disconnect
    <2>2. LinkInv'  BY <1>1, <1>4, AccountReadKeeps DEF Disconnect
    <2> QED  BY <1>1, <1>2, <2>1, <2>2, ConnectionKeepsPage
<1>5. CASE Disconnected(k)
    <2>1. UNCHANGED Page /\ matches' \in [Target -> Duplicates] /\ known' \subseteq Target
        BY <1>5 DEF Disconnected, Duplicates
    <2> QED  BY <1>1, <1>5, <2>1, DisconnectedKeeps, ConnectionKeepsPage
<1>6. CASE Recheck(k)
    <2>1. UNCHANGED Page /\ matches' = matches /\ known' = known  BY <1>6 DEF Recheck
    <2>2. LinkInv'  BY <1>1, <1>6, AccountReadKeeps DEF Recheck
    <2> QED  BY <1>1, <1>2, <2>1, <2>2, ConnectionKeepsPage
<1>7. ASSUME NEW ok \in BOOLEAN, Tested(k, ok) \/ Forget(k, ok) \/ CloseAccount(k, ok) PROVE PageInv' /\ LinkInv'
    <2>1. UNCHANGED Page /\ matches' = matches /\ known' = known  BY <1>7 DEF Tested, Forget, CloseAccount
    <2>2. LinkInv'  BY <1>1, <1>7, TestedKeeps, ForgetKeeps, CloseKeeps
    <2> QED  BY <1>1, <1>2, <2>1, <2>2, ConnectionKeepsPage
<1>8. ASSUME NEW status \in {"active", "invalid", "out_of_credit"}, Rechecked(k, status) PROVE PageInv' /\ LinkInv'
    <2>1. UNCHANGED Page /\ matches' = matches /\ known' = known  BY <1>8 DEF Rechecked
    <2> QED  BY <1>1, <1>2, <1>8, <2>1, RecheckedKeeps, ConnectionKeepsPage
<1> QED  BY <1>3, <1>4, <1>5, <1>6, <1>7, <1>8

\* Nothing of the connection changes
LEMMA LinkRests == ASSUME LinkInv, UNCHANGED Setups PROVE LinkInv'
<1>1. /\ accounts' = accounts /\ setups' = setups /\ changes' = changes /\ severed' = severed
      /\ integration' = integration
    BY DEF Setups
<1>2. integration' \in IntegrationRow  BY <1>1 DEF LinkInv, LinkTypes
<1> QED  BY <1>1, <1>2, LinkStays

LEMMA SearchersKeep == ExplorerInv /\ SearcherSteps => ExplorerInv'
<1> SUFFICES ASSUME ExplorerInv, SearcherSteps PROVE PageInv' /\ LinkInv'  BY DEF ExplorerInv
<1>1. PageInv /\ LinkInv  BY DEF ExplorerInv
<1>2. ASSUME NEW t \in Tab, NEW w \in Searcher, NEW s \in Target, SaveFromCache(t, w, s) PROVE PageInv' /\ LinkInv'
    <2>1. UNCHANGED Setups  BY <1>2 DEF SaveFromCache
    <2> QED  BY <1>1, <1>2, <2>1, SaveKeeps, LinkRests
<1>3. ASSUME NEW t \in Tab, NEW w \in Searcher, NEW s \in Target,
             \/ Preview(t, w, s)
             \/ \E calls \in 1 .. FactCalls : LookUp(t, w, s, calls)
             \/ \E anyway \in BOOLEAN : SaveToApollo(t, w, s, anyway)
             \/ \E thread \in BOOLEAN : AskAI(t, w, s, thread)
      PROVE  PageInv' /\ LinkInv'
    <2>1. UNCHANGED Setups  BY <1>3 DEF Preview, LookUp, SaveToApollo, AskAI
    <2> QED  BY <1>1, <1>3, <2>1, RequestsBegin, LinkRests
<1>4. ASSUME NEW w \in Searcher, NEW s \in Target, LinkToApollo(w, s) PROVE PageInv' /\ LinkInv'
    <2>1. UNCHANGED Setups  BY <1>4 DEF LinkToApollo
    <2> QED  BY <1>1, <1>4, <2>1, LinkKeeps, LinkRests
<1>5. ASSUME NEW w \in Searcher, NEW s \in Target, DeleteConversation(w, s) PROVE PageInv' /\ LinkInv'
    <2>1. UNCHANGED Setups  BY <1>5 DEF DeleteConversation
    <2> QED  BY <1>1, <1>5, <2>1, DeleteChatKeeps, LinkRests
<1>6. ASSUME NEW s \in Target, DeleteProfile(s) PROVE PageInv' /\ LinkInv'
    <2>1. UNCHANGED Setups  BY <1>6 DEF DeleteProfile
    <2> QED  BY <1>1, <1>6, <2>1, DeleteProfileKeeps, LinkRests
<1> QED  BY <1>2, <1>3, <1>4, <1>5, <1>6 DEF SearcherSteps

LEMMA RequestsKeep == ExplorerInv /\ RequestSteps => ExplorerInv'
<1> SUFFICES ASSUME ExplorerInv, RequestSteps PROVE PageInv' /\ LinkInv'  BY DEF ExplorerInv
<1>1. PageInv /\ LinkInv  BY DEF ExplorerInv
<1>2. ASSUME NEW t \in Tab, PassGate(t) \/ EnterApollo(t) PROVE PageInv' /\ LinkInv'
    <2>1. UNCHANGED Setups  BY <1>2 DEF PassGate, EnterApollo
    <2> QED  BY <1>1, <1>2, <2>1, PassGateKeeps, EnterKeeps, LinkRests
<1>3. ASSUME NEW t \in Tab, FactsArrive(t) \/ MatchesArrive(t) PROVE PageInv' /\ LinkInv'
    <2>1. UNCHANGED Setups  BY <1>3 DEF FactsArrive, MatchesArrive
    <2> QED  BY <1>1, <1>3, <2>1, FactsKeep, MatchesKeep, LinkRests
<1>4. ASSUME NEW t \in Tab, RecordMade(t) \/ Answered(t) PROVE PageInv' /\ LinkInv'
    <2>1. UNCHANGED Setups  BY <1>4 DEF RecordMade, Answered
    <2> QED  BY <1>1, <1>4, <2>1, RecordKeeps, AnswerKeeps, LinkRests
<1>5. ASSUME NEW t \in Tab, NEW why \in {"lost", "invalid", "out_of_credit"}, CallFails(t, why)
      PROVE  PageInv' /\ LinkInv'
    <2>1. PageInv'  BY <1>1, <1>5, FailureKeeps
    <2>2. accounts' = accounts /\ setups' = setups /\ changes' = changes /\ severed' = severed
        BY <1>5 DEF CallFails
    <2>3. integration' = integration \/ integration' = [integration EXCEPT !.status = why]  BY <1>5 DEF CallFails
    <2>4. integration' \in IntegrationRow /\ integration'.account = integration.account
        <3>1. LinkTypes /\ why \in {"active", "invalid", "out_of_credit"} \cup {"lost"}  BY <1>1, <1>5 DEF LinkInv
        <3>2. CASE why = "lost"
            <4>1. integration' = integration  BY <1>5, <3>2 DEF CallFails
            <4> QED  BY <3>1, <4>1 DEF LinkTypes
        <3>3. CASE why # "lost"
            <4>1. why \in {"active", "invalid", "out_of_credit"}  BY <3>1, <3>3
            <4> QED  BY <2>3, <3>1, <4>1, StatusSet
        <3> QED  BY <3>2, <3>3
    <2> QED  BY <1>1, <2>1, <2>2, <2>4, LinkStays
<1> QED  BY <1>2, <1>3, <1>4, <1>5 DEF RequestSteps

LEMMA OutsideKeeps == ExplorerInv /\ OutsideSteps => ExplorerInv'
<1> SUFFICES ASSUME ExplorerInv, OutsideSteps PROVE PageInv' /\ LinkInv'  BY DEF ExplorerInv
<1>1. PageInv /\ LinkInv  BY DEF ExplorerInv
<1>2. ASSUME NEW s \in Target, Expire(s) \/ AddedElsewhere(s) PROVE PageInv' /\ LinkInv'
    <2>1. UNCHANGED Setups  BY <1>2 DEF Expire, AddedElsewhere
    <2> QED  BY <1>1, <1>2, <2>1, ExpireKeeps, AddedKeeps, LinkRests
<1>3. ASSUME NEW w \in Searcher, BriefingCall(w) PROVE PageInv' /\ LinkInv'
    <2>1. UNCHANGED Setups  BY <1>3 DEF BriefingCall
    <2> QED  BY <1>1, <1>3, <2>1, BriefingKeeps, LinkRests
<1>4. CASE Midnight
    <2>1. UNCHANGED Setups  BY <1>4 DEF Midnight
    <2> QED  BY <1>1, <1>4, <2>1, MidnightKeeps, LinkRests
<1>5. CASE Restart  BY <1>1, <1>5, ExplorerRestartKeeps, SetupsEnd
<1> QED  BY <1>2, <1>3, <1>4, <1>5 DEF OutsideSteps

LEMMA ExplorerInductive == ExplorerInv /\ [ExplorerNext]_explorerVars => ExplorerInv'
<1>1. ASSUME ExplorerInv, UNCHANGED explorerVars PROVE ExplorerInv'
    <2>1. PageInv /\ LinkInv  BY <1>1 DEF ExplorerInv
    <2>2. UNCHANGED Page /\ matches' = matches /\ known' = known /\ UNCHANGED Setups
        BY <1>1 DEF explorerVars, Page, Setups
    <2>3. matches' \in [Target -> Duplicates] /\ known' \subseteq Target  BY <2>1, <2>2 DEF PageInv, PageTypes
    <2> QED  BY <2>1, <2>2, <2>3, ConnectionKeepsPage, LinkRests DEF ExplorerInv
<1> QED  BY <1>1, SearchersKeep, RequestsKeep, ConnectionKeeps, OutsideKeeps DEF ExplorerNext

\* The invariant gives the property
LEMMA ExplorerInvSuffices == ExplorerInv => ExplorerKeepsItsWord
<1> SUFFICES ASSUME ExplorerInv PROVE ExplorerKeepsItsWord  OBVIOUS
<1> USE DEF ExplorerInv, PageInv, LinkInv
<1>1. ExplorerTypeOK
    <2>1. \A t \in Tab : tabs[t].at \in Steps /\ tabs[t].kind \in Kinds /\ tabs[t].need \in 0 .. FactCalls
        BY DEF TabsAreTyped, PageRequest
    <2>2. \A w \in Searcher : ledger[w] \in SpentCalls  BY DEF PageTypes
    <2> QED  BY <2>1, <2>2 DEF ExplorerTypeOK, PageTypes, LinkTypes, ApolloRecord, SetupChange
<1> QED  BY <1>1 DEF ExplorerKeepsItsWord

\* No call past the daily limit, one record in Apollo for each saved profile, no
\* chat of a deleted one, and a connection that is there: for any number of people,
\* tabs, companies and changes of the connection, of lost answers and of restarts
\* (research_service.py, research_apollo.py, research_crm.py, apollo_integration.py).
THEOREM ResearchKeepsItsWord == ExplorerSpec => []ExplorerKeepsItsWord
<1>1. ExplorerInit => ExplorerInv  BY ExplorerBegun
<1>2. ExplorerInv /\ [ExplorerNext]_explorerVars => ExplorerInv'  BY ExplorerInductive
<1>3. ExplorerInv => ExplorerKeepsItsWord  BY ExplorerInvSuffices
<1> QED  BY <1>1, <1>2, <1>3, PTL DEF ExplorerSpec

-----------------------------------------------------------------------------
(***************************************************************************)
(* Providers.  A profile with a saved key is there, and the key is of its   *)
(* host: it is checked in the transaction that writes the profile, and a    *)
(* key in use is not deleted.  Profiles are made once, so one named as      *)
(* local is local until it is moved; and a request under way has copies     *)
(* that were right when it read them.                                       *)
(***************************************************************************)
Policy    == {"local_only", "local_then_cloud", "cloud_only", "cloud_then_local"}
Selection == [policy : Policy \cup {Unset, "chosen"}, local : Provider \cup {Unset}, cloud : Provider \cup {Unset}]
RouteWork == [at : {"idle", "editing", "vaulted", "selecting", "routing", "trying", "asking"},
              p : Provider \cup {Unset}, copy : ProfileRow \cup {Unset}, sel : Selection,
              left : Seq(Provider), spoke : BOOLEAN]

RouteTypes ==
    /\ profs \in [Provider -> ProfileRow]
    /\ vaultHost \in [SavedKey -> Host \cup {Unset, "deleted"}]
    /\ chatRoute \in Provider \cup {Unset} /\ default \in Selection
    /\ edits \in 0 .. MaxEdits /\ moved \subseteq Provider /\ strays \subseteq Provider

\* What a stored profile is
RowsAreSound ==
    \A p \in Provider :
        /\ profs[p].own \notin SavedKey /\ (profs[p].on => profs[p].was)
        /\ profs[p].link # Unset => profs[p].on /\ vaultHost[profs[p].link] = profs[p].host

\* What may be written over it
CopyIsSound(c) == c \in ProfileRow /\ c.on /\ c.was /\ c.own \notin SavedKey

\* The local profile of a selection was made before, and has not been elsewhere unless it moved
LocalIsLocal(sel) ==
    sel.local # Unset => /\ profs[sel.local].was
                         /\ sel.local \notin moved => profs[sel.local].loc = "local"

\* A selection names what its policy needs
NamesItsNeeds(sel) == /\ "local" \in Needs(sel.policy) => sel.local # Unset
                      /\ "cloud" \in Needs(sel.policy) => sel.cloud # Unset

\* A copy that is sent out: its key is the host's, or has been deleted since
KeyIsHome(c) == c.link # Unset => vaultHost[c.link] \in {c.host, "deleted"}

WorkIsSound(w) ==
    /\ w \in RouteWork
    /\ w.spoke => w.at = "asking"
    /\ w.at \in {"editing", "vaulted"} => w.p \in Provider /\ CopyIsSound(w.copy)
    /\ w.at = "selecting" => w.sel.policy \in Policy /\ NamesItsNeeds(w.sel)
    /\ w.at \in {"selecting", "trying", "asking"} => LocalIsLocal(w.sel)
    /\ w.at \in {"trying", "asking"} =>
           /\ w.left # <<>>
           /\ w.sel.policy = "local_only" => \A i \in 1 .. Len(w.left) : w.left[i] = w.sel.local
    /\ w.at = "asking" =>
           /\ w.copy \in ProfileRow /\ KeyIsHome(w.copy)
           /\ w.sel.policy = "local_only" /\ w.p \notin moved => w.copy.loc = "local"

WorksAreSound == work = [t \in Thread |-> work[t]] /\ \A t \in Thread : WorkIsSound(work[t])

RoutesInv == RouteTypes /\ RowsAreSound /\ WorksAreSound /\ LocalIsLocal(default) /\ RoutesLeadSomewhere

HIDE ExplorerAssumption DEF ExplorerAssumption
USE RoutesAssumption DEF RoutesAssumption, Unset, Pasted

-----------------------------------------------------------------------------
LEMMA IdlingIsSound == Idling \in RouteWork /\ Idling.at = "idle" /\ Idling.spoke = FALSE /\ WorkIsSound(Idling)
<1>1. NoDefault \in Selection  BY DEF NoDefault, Selection
<1>2. <<>> \in Seq(Provider)  BY EmptySeq
<1>3. Idling \in RouteWork  BY <1>1, <1>2 DEF Idling, RouteWork
<1>4. Idling.at = "idle" /\ Idling.spoke = FALSE  BY DEF Idling
<1> QED  BY <1>3, <1>4 DEF WorkIsSound

LEMMA RoutesBegun == RoutesInit => RoutesInv
<1> SUFFICES ASSUME RoutesInit PROVE RoutesInv  OBVIOUS
<1>1. \A p \in Provider : profs[p] \in NewProfiles \cup {Absentee}  BY DEF RoutesInit
<1>2. \A c \in NewProfiles \cup {Absentee} :
          c \in ProfileRow /\ c.own \notin SavedKey /\ (c.on => c.was) /\ c.link = Unset
    <2>1. ASSUME NEW c \in NewProfiles
          PROVE  c \in ProfileRow /\ c.own \notin SavedKey /\ (c.on => c.was) /\ c.link = Unset
        BY <2>1 DEF NewProfiles, ProfileRow
    <2>2. Absentee \in ProfileRow  BY DEF Absentee, ProfileRow, Location, Host
    <2>3. Absentee.own \notin SavedKey /\ (Absentee.on => Absentee.was) /\ Absentee.link = Unset  BY DEF Absentee
    <2> QED  BY <2>1, <2>2, <2>3
<1>3. profs \in [Provider -> ProfileRow]  BY <1>1, <1>2 DEF RoutesInit
<1>4. RouteTypes  BY <1>3 DEF RoutesInit, RouteTypes, NoDefault, Selection
<1>5. RowsAreSound  BY <1>1, <1>2 DEF RowsAreSound
<1>6. WorksAreSound  BY IdlingIsSound DEF RoutesInit, WorksAreSound
<1>7. LocalIsLocal(default) /\ RoutesLeadSomewhere
    BY DEF RoutesInit, LocalIsLocal, RoutesLeadSomewhere, NoDefault
<1> QED  BY <1>4, <1>5, <1>6, <1>7 DEF RoutesInv

-----------------------------------------------------------------------------
(***************************************************************************)
(* What a step leaves as it is                                             *)
(***************************************************************************)

\* Profiles stay made, and where they are unless they are moved; keys stay where they are or go
Lasts ==
    /\ moved \subseteq moved'
    /\ \A p \in Provider : profs[p].was => /\ profs'[p].was
                                           /\ p \notin moved' => profs'[p].loc = profs[p].loc
    /\ \A k \in SavedKey : vaultHost[k] # Unset => vaultHost'[k] \in {vaultHost[k], "deleted"}

LEMMA SelectionLasts ==
    ASSUME Lasts, NEW sel \in Selection, LocalIsLocal(sel)
    PROVE  LocalIsLocal(sel)'
BY DEF Lasts, LocalIsLocal, Selection

LEMMA KeyLasts == ASSUME Lasts, NEW c \in ProfileRow, KeyIsHome(c) PROVE KeyIsHome(c)'
BY DEF Lasts, KeyIsHome, ProfileRow, Host

LEMMA WorkLasts == ASSUME Lasts, NEW w, WorkIsSound(w) PROVE WorkIsSound(w)'
<1>1. w.sel \in Selection  BY DEF WorkIsSound, RouteWork
<1>2. LocalIsLocal(w.sel) => LocalIsLocal(w.sel)'  BY <1>1, SelectionLasts
<1>3. w.copy \in ProfileRow /\ KeyIsHome(w.copy) => KeyIsHome(w.copy)'  BY KeyLasts
<1>4. moved \subseteq moved'  BY DEF Lasts
<1> QED  BY <1>2, <1>3, <1>4 DEF WorkIsSound, CopyIsSound, NamesItsNeeds

\* One request moves on, the others stay
LEMMA WorksLast ==
    ASSUME WorksAreSound, Lasts, NEW t \in Thread, NEW w, WorkIsSound(w)', Does(t, w)
    PROVE  WorksAreSound'
<1>1. work' = [work EXCEPT ![t] = w]  BY DEF Does
<1>2. work' = [u \in Thread |-> work'[u]] /\ work'[t] = w /\ \A u \in Thread \ {t} : work'[u] = work[u]
    BY <1>1 DEF WorksAreSound
<1>3. ASSUME NEW u \in Thread PROVE WorkIsSound(work[u])'
    <2>1. PICK old : old = work[u]  OBVIOUS
    <2>2. WorkIsSound(old)  BY <2>1 DEF WorksAreSound
    <2>3. WorkIsSound(old)'  BY <2>2, WorkLasts
    <2>4. work'[u] = old \/ work'[u] = w  BY <1>2, <2>1
    <2>5. CASE work'[u] = old  BY <2>3, <2>5 DEF WorkIsSound, LocalIsLocal, KeyIsHome
    <2>6. CASE work'[u] = w  BY <2>6 DEF WorkIsSound, LocalIsLocal, KeyIsHome
    <2> QED  BY <2>4, <2>5, <2>6
<1> QED  BY <1>2, <1>3 DEF WorksAreSound

\* Nothing moves where nothing of the profiles and keys changes
LEMMA UnchangedLasts == UNCHANGED <<profs, vaultHost, moved>> => Lasts
BY DEF Lasts

\* The routes lead where they led
LEMMA RoutesStayLed ==
    ASSUME RoutesInv, UNCHANGED <<default, chatRoute>>, strays \subseteq strays',
           \A p \in Provider : profs[p].on => profs'[p].on
    PROVE  RoutesLeadSomewhere'
<1>1. {default.local, default.cloud, chatRoute} \ {Unset} \subseteq Provider
    BY DEF RoutesInv, RouteTypes, Selection
<1> QED  BY <1>1 DEF RoutesInv, RoutesLeadSomewhere

\* An edit is counted
LEMMA EditCounted == ASSUME RouteTypes, Edit PROVE edits' \in 0 .. MaxEdits
<1>1. edits \in 0 .. MaxEdits /\ edits < MaxEdits /\ edits' = edits + 1  BY DEF RouteTypes, Edit
<1> QED  BY <1>1

\* Steps of a request that leave profiles, keys and routes alone
LEMMA WorkMoves ==
    ASSUME RoutesInv, NEW t \in Thread, NEW w, WorkIsSound(w), Does(t, w), edits' \in 0 .. MaxEdits,
           UNCHANGED <<profs, vaultHost, default, chatRoute, moved, strays>>
    PROVE  RoutesInv'
<1>1. Lasts  BY UnchangedLasts
<1>2. WorkIsSound(w)'  BY <1>1, WorkLasts
<1>3. WorksAreSound'  BY <1>1, <1>2, WorksLast DEF RoutesInv
<1>4. RouteTypes'  BY DEF RoutesInv, RouteTypes
<1>5. RowsAreSound'  BY DEF RoutesInv, RowsAreSound
<1>6. LocalIsLocal(default)'  BY DEF RoutesInv, LocalIsLocal
<1>7. RoutesLeadSomewhere'  BY RoutesStayLed
<1> QED  BY <1>3, <1>4, <1>5, <1>6, <1>7 DEF RoutesInv

-----------------------------------------------------------------------------
(***************************************************************************)
(* Profiles and keys                                                       *)
(***************************************************************************)

\* A profile is written: for the first time, or over itself and counted as moved if it was
LEMMA ProfileWritten ==
    ASSUME RoutesInv, NEW p \in Provider, NEW c, CopyIsSound(c), KeyFits(c),
           profs' = [profs EXCEPT ![p] = c], vaultHost' = vaultHost, moved' \subseteq Provider, moved \subseteq moved',
           profs[p].was => p \in moved' \/ c.loc = profs[p].loc,
           UNCHANGED <<default, chatRoute, strays>>, edits' \in 0 .. MaxEdits
    PROVE  Lasts /\ RouteTypes' /\ RowsAreSound' /\ LocalIsLocal(default)' /\ RoutesLeadSomewhere'
<1> USE DEF RoutesInv
<1>1. c \in ProfileRow /\ c.on /\ c.was /\ c.own \notin SavedKey  BY DEF CopyIsSound
<1>2. profs' \in [Provider -> ProfileRow] /\ profs'[p] = c /\ \A q \in Provider \ {p} : profs'[q] = profs[q]
    BY <1>1 DEF RouteTypes
<1>3. Lasts
    <2>1. ASSUME NEW q \in Provider, profs[q].was
          PROVE  profs'[q].was /\ (q \notin moved' => profs'[q].loc = profs[q].loc)
        <3>1. CASE q = p  BY <1>1, <1>2, <2>1, <3>1
        <3>2. CASE q # p  BY <1>2, <2>1, <3>2
        <3> QED  BY <3>1, <3>2
    <2>2. \A k \in SavedKey : vaultHost'[k] = vaultHost[k]  OBVIOUS
    <2> QED  BY <2>1, <2>2 DEF Lasts
<1>4. RouteTypes'  BY <1>2 DEF RouteTypes
<1>5. RowsAreSound'
    <2> SUFFICES ASSUME NEW q \in Provider
                 PROVE  /\ profs'[q].own \notin SavedKey /\ (profs'[q].on => profs'[q].was)
                        /\ profs'[q].link # Unset => profs'[q].on /\ vaultHost[profs'[q].link] = profs'[q].host
        BY DEF RowsAreSound
    <2>1. CASE q = p  BY <1>1, <1>2, <2>1 DEF KeyFits
    <2>2. CASE q # p  BY <1>2, <2>2 DEF RowsAreSound
    <2> QED  BY <2>1, <2>2
<1>6. LocalIsLocal(default)'
    <2>1. default \in Selection  BY DEF RouteTypes
    <2>2. PICK sel : sel = default  OBVIOUS
    <2>3. LocalIsLocal(sel)'
        <3>1. LocalIsLocal(sel)  BY <2>2 DEF LocalIsLocal
        <3> QED  BY <1>3, <2>1, <2>2, <3>1, SelectionLasts
    <2> QED  BY <2>2, <2>3 DEF LocalIsLocal
<1>7. \A q \in Provider : profs[q].on => profs'[q].on  BY <1>1, <1>2
<1> HIDE DEF RoutesInv
<1>8. RoutesLeadSomewhere'  BY <1>7, RoutesStayLed
<1> QED  BY <1>3, <1>4, <1>5, <1>6, <1>8

LEMMA CreateProfileKeeps ==
    ASSUME RoutesInv, NEW p \in Provider, NEW c \in NewProfiles, CreateProfile(p, c)
    PROVE  RoutesInv'
<1>1. CopyIsSound(c)  BY DEF NewProfiles, CopyIsSound, ProfileRow
<1>2. /\ ~profs[p].was /\ KeyFits(c) /\ profs' = [profs EXCEPT ![p] = c]
      /\ vaultHost' = vaultHost /\ default' = default /\ chatRoute' = chatRoute /\ work' = work
      /\ moved' = moved /\ strays' = strays
    BY DEF CreateProfile, ValidProfile
<1>3. edits' \in 0 .. MaxEdits  BY EditCounted DEF CreateProfile, RoutesInv
<1>4. moved' \subseteq Provider  BY <1>2 DEF RoutesInv, RouteTypes
<1>5. Lasts /\ RouteTypes' /\ RowsAreSound' /\ LocalIsLocal(default)' /\ RoutesLeadSomewhere'
    BY <1>1, <1>2, <1>3, <1>4, ProfileWritten
<1>6. WorksAreSound'
    <2> SUFFICES ASSUME NEW u \in Thread PROVE WorkIsSound(work[u])'  BY <1>2 DEF RoutesInv, WorksAreSound
    <2>1. PICK old : old = work[u]  OBVIOUS
    <2>2. WorkIsSound(old)  BY <2>1 DEF RoutesInv, WorksAreSound
    <2>3. WorkIsSound(old)'  BY <1>5, <2>2, WorkLasts
    <2>4. work'[u] = old  BY <1>2, <2>1
    <2> QED  BY <2>3, <2>4 DEF WorkIsSound, LocalIsLocal, KeyIsHome
<1> QED  BY <1>5, <1>6 DEF RoutesInv

\* A request reads a profile that is there
LEMMA UpdateReadsKeeps ==
    ASSUME RoutesInv, NEW t \in Thread, NEW p \in Provider, UpdateReads(t, p)
    PROVE  RoutesInv'
<1> DEFINE w == [Idling EXCEPT !.at = "editing", !.p = p, !.copy = profs[p]]
<1>1. profs[p] \in ProfileRow /\ profs[p].on /\ profs[p].was /\ profs[p].own \notin SavedKey
    BY DEF UpdateReads, RoutesInv, RouteTypes, RowsAreSound
<1>2. Idling \in RouteWork /\ Idling.spoke = FALSE  BY IdlingIsSound
<1>3. w \in RouteWork /\ w.at = "editing" /\ w.p = p /\ w.copy = profs[p] /\ w.spoke = FALSE
    BY <1>1, <1>2 DEF RouteWork
<1>4. Does(t, w)  BY DEF UpdateReads
<1> HIDE DEF w
<1>5. WorkIsSound(w)  BY <1>1, <1>3 DEF WorkIsSound, CopyIsSound
<1>6. edits' \in 0 .. MaxEdits  BY EditCounted DEF UpdateReads, RoutesInv
<1>7. PICK v : v = w  OBVIOUS
<1>8. WorkIsSound(v)  BY <1>5, <1>7 DEF WorkIsSound, LocalIsLocal, KeyIsHome
<1>9. Does(t, v)  BY <1>4, <1>7 DEF Does
<1> QED  BY <1>6, <1>8, <1>9, WorkMoves DEF UpdateReads

\* Requests that stay as they are stay sound
LEMMA WorksStay == ASSUME WorksAreSound, Lasts, work' = work PROVE WorksAreSound'
<1> SUFFICES ASSUME NEW u \in Thread PROVE WorkIsSound(work[u])'  BY DEF WorksAreSound
<1>1. PICK old : old = work[u]  OBVIOUS
<1>2. WorkIsSound(old)  BY <1>1 DEF WorksAreSound
<1>3. WorkIsSound(old)'  BY <1>2, WorkLasts
<1>4. work'[u] = old  BY <1>1
<1> QED  BY <1>3, <1>4 DEF WorkIsSound, LocalIsLocal, KeyIsHome

\* The default stays local where it was
LEMMA DefaultLasts == ASSUME RoutesInv, Lasts, default' = default PROVE LocalIsLocal(default)'
<1>1. PICK sel : sel = default  OBVIOUS
<1>2. LocalIsLocal(sel) /\ sel \in Selection  BY <1>1 DEF RoutesInv, RouteTypes, LocalIsLocal
<1>3. LocalIsLocal(sel)'  BY <1>2, SelectionLasts
<1> QED  BY <1>1, <1>3 DEF LocalIsLocal

\* A key that is saved is new, so nobody uses it yet
LEMMA SaveToVaultKeeps ==
    ASSUME RoutesInv, NEW t \in Thread, NEW k \in SavedKey, SaveToVault(t, k)
    PROVE  RoutesInv'
<1> DEFINE w == [work[t] EXCEPT !.at = "vaulted", !.copy.own = Unset, !.copy.link = k]
           c == [work[t].copy EXCEPT !.own = Unset, !.link = k]
<1>1. /\ work[t].at = "editing" /\ vaultHost[k] = Unset /\ Does(t, w)
      /\ vaultHost' = [vaultHost EXCEPT ![k] = work[t].copy.host]
      /\ UNCHANGED <<profs, default, chatRoute, edits, moved, strays>>
    BY DEF SaveToVault
<1>2. WorkIsSound(work[t]) /\ work[t] \in RouteWork  BY DEF RoutesInv, WorksAreSound, WorkIsSound
<1>3. CopyIsSound(work[t].copy) /\ work[t].p \in Provider /\ ~work[t].spoke
    BY <1>1, <1>2 DEF WorkIsSound, RouteWork
<1>4. work[t].copy \in ProfileRow  BY <1>3 DEF CopyIsSound
<1>5. c \in ProfileRow /\ CopyIsSound(c)  BY <1>3, <1>4 DEF CopyIsSound, ProfileRow
<1>6. w = [work[t] EXCEPT !.at = "vaulted", !.copy = c]  BY <1>2, <1>4 DEF RouteWork, ProfileRow
<1>7. w \in RouteWork /\ w.at = "vaulted" /\ w.copy = c /\ w.p = work[t].p /\ w.spoke = FALSE
    <2> HIDE DEF c, w
    <2> QED  BY <1>2, <1>3, <1>5, <1>6 DEF RouteWork
<1>8. work[t].copy.host \in Host  BY <1>4 DEF ProfileRow
<1> HIDE DEF w, c
<1>9. vaultHost' \in [SavedKey -> Host \cup {Unset, "deleted"}] /\ \A j \in SavedKey \ {k} : vaultHost'[j] = vaultHost[j]
    BY <1>1, <1>8 DEF RoutesInv, RouteTypes
<1>10. Lasts  BY <1>1, <1>9 DEF Lasts
<1>11. WorksAreSound'
    <2>1. PICK v : v = w  OBVIOUS
    <2>2. WorkIsSound(v)  BY <1>3, <1>5, <1>7, <2>1 DEF WorkIsSound
    <2>3. WorkIsSound(v)'  BY <1>10, <2>2, WorkLasts
    <2>4. Does(t, v)  BY <1>1, <2>1 DEF Does
    <2> QED  BY <1>10, <2>3, <2>4, WorksLast DEF RoutesInv
<1>12. RouteTypes'  BY <1>1, <1>9 DEF RoutesInv, RouteTypes
<1>13. RowsAreSound'
    <2> SUFFICES ASSUME NEW q \in Provider
                 PROVE  /\ profs[q].own \notin SavedKey /\ (profs[q].on => profs[q].was)
                        /\ profs[q].link # Unset => profs[q].on /\ vaultHost'[profs[q].link] = profs[q].host
        BY <1>1 DEF RowsAreSound
    <2>1. profs[q].link # Unset => profs[q].link # k /\ profs[q].link \in SavedKey
        BY <1>1 DEF RoutesInv, RouteTypes, RowsAreSound, ProfileRow, Host
    <2> QED  BY <1>9, <2>1 DEF RoutesInv, RowsAreSound
<1>14. LocalIsLocal(default)'  BY <1>1, <1>10, DefaultLasts
<1>15. RoutesLeadSomewhere'  BY <1>1, RoutesStayLed
<1> QED  BY <1>11, <1>12, <1>13, <1>14, <1>15 DEF RoutesInv

\* A change of one field leaves a copy sound: the key of a linked profile is not its own
LEMMA ChangedIsSound ==
    ASSUME vaultHost \in [SavedKey -> Host \cup {Unset, "deleted"}], NEW c, CopyIsSound(c), NEW d \in Changed(c)
    PROVE  CopyIsSound(d)
<1> DEFINE own == [c EXCEPT !.own = OwnKey(c)]
<1>1. c \in ProfileRow /\ c.on /\ c.was /\ c.own \notin SavedKey  BY DEF CopyIsSound
<1>2. OwnKey(c) \in {Unset, Pasted}  BY <1>1 DEF OwnKey, ProfileRow
<1>3. own \in ProfileRow /\ own.on /\ own.was /\ own.own \notin SavedKey  BY <1>1, <1>2 DEF ProfileRow
<1> HIDE DEF own
<1>4. \/ \E l \in Location : d = [own EXCEPT !.loc = l]
      \/ \E h \in Host : d = [own EXCEPT !.host = h]
      \/ \E b \in BOOLEAN : d = [own EXCEPT !.text = b]
      \/ d = [c EXCEPT !.own = Pasted, !.link = Unset]
      \/ d = [own EXCEPT !.link = Unset]
      \/ \E k \in SavedKey : vaultHost[k] \in Host /\ d = [c EXCEPT !.own = Unset, !.link = k, !.host = vaultHost[k]]
    BY DEF Changed, own
<1>5. CASE \E l \in Location : d = [own EXCEPT !.loc = l]  BY <1>3, <1>5 DEF CopyIsSound, ProfileRow
<1>6. CASE \E h \in Host : d = [own EXCEPT !.host = h]  BY <1>3, <1>6 DEF CopyIsSound, ProfileRow
<1>7. CASE \E b \in BOOLEAN : d = [own EXCEPT !.text = b]  BY <1>3, <1>7 DEF CopyIsSound, ProfileRow
<1>8. CASE d = [c EXCEPT !.own = Pasted, !.link = Unset]  BY <1>1, <1>8 DEF CopyIsSound, ProfileRow
<1>9. CASE d = [own EXCEPT !.link = Unset]  BY <1>3, <1>9 DEF CopyIsSound, ProfileRow
<1>10. CASE \E k \in SavedKey :
                vaultHost[k] \in Host /\ d = [c EXCEPT !.own = Unset, !.link = k, !.host = vaultHost[k]]
    <2> PICK k \in SavedKey :
            vaultHost[k] \in Host /\ d = [c EXCEPT !.own = Unset, !.link = k, !.host = vaultHost[k]]
        BY <1>10
    <2> QED  BY <1>1 DEF CopyIsSound, ProfileRow
<1> QED  BY <1>4, <1>5, <1>6, <1>7, <1>8, <1>9, <1>10

\* What is written was checked in the same transaction, and counts as moved if it is elsewhere now
LEMMA UpdateSavesKeeps ==
    ASSUME RoutesInv, NEW t \in Thread, work[t].at \in {"editing", "vaulted"},
           NEW c, CopyIsSound(c), UpdateSaves(t, c)
    PROVE  RoutesInv'
<1> DEFINE p == work[t].p
<1>1. WorkIsSound(work[t])  BY DEF RoutesInv, WorksAreSound
<1>2. p \in Provider  BY <1>1 DEF WorkIsSound
<1>3. Does(t, Idling) /\ UNCHANGED <<vaultHost, default, chatRoute, edits, strays>>  BY DEF UpdateSaves
<1>4. edits' \in 0 .. MaxEdits  BY <1>3 DEF RoutesInv, RouteTypes
<1>5. CASE ~ValidProfile(c)
    <2>1. UNCHANGED <<profs, moved>>  BY <1>5 DEF UpdateSaves
    <2> QED  BY <1>3, <1>4, <2>1, IdlingIsSound, WorkMoves
<1>6. CASE ValidProfile(c)
    <2>1. /\ profs' = [profs EXCEPT ![p] = c] /\ KeyFits(c)
          /\ moved' = IF c.loc # profs[p].loc THEN moved \cup {p} ELSE moved
        BY <1>6 DEF UpdateSaves, ValidProfile
    <2>2. moved' \subseteq Provider /\ moved \subseteq moved'  BY <1>2, <2>1 DEF RoutesInv, RouteTypes
    <2>3. profs[p].was => p \in moved' \/ c.loc = profs[p].loc  BY <2>1
    <2> HIDE DEF p
    <2>4. Lasts /\ RouteTypes' /\ RowsAreSound' /\ LocalIsLocal(default)' /\ RoutesLeadSomewhere'
        BY <1>2, <1>3, <1>4, <2>1, <2>2, <2>3, ProfileWritten
    <2>5. WorkIsSound(Idling)'
        <3>1. PICK w : w = Idling  OBVIOUS
        <3>2. WorkIsSound(w)  BY <3>1, IdlingIsSound
        <3>3. WorkIsSound(w)'  BY <2>4, <3>2, WorkLasts
        <3> QED  BY <3>1, <3>3
    <2>6. WorksAreSound'  BY <1>3, <2>4, <2>5, WorksLast DEF RoutesInv
    <2> QED  BY <2>4, <2>6 DEF RoutesInv
<1> QED  BY <1>5, <1>6

\* A key in use is not deleted
LEMMA DeleteSavedKeyKeeps == ASSUME RoutesInv, NEW k \in SavedKey, DeleteSavedKey(k) PROVE RoutesInv'
<1>1. /\ vaultHost[k] \in Host /\ \A p \in Provider : profs[p].on => profs[p].link # k
      /\ vaultHost' = [vaultHost EXCEPT ![k] = "deleted"]
      /\ UNCHANGED <<profs, default, chatRoute, work, moved, strays>>
    BY DEF DeleteSavedKey
<1>2. /\ vaultHost' \in [SavedKey -> Host \cup {Unset, "deleted"}] /\ vaultHost'[k] = "deleted"
      /\ \A j \in SavedKey \ {k} : vaultHost'[j] = vaultHost[j]
    BY <1>1 DEF RoutesInv, RouteTypes
<1>3. Lasts  BY <1>1, <1>2 DEF Lasts
<1>4. edits' \in 0 .. MaxEdits  BY EditCounted DEF DeleteSavedKey, RoutesInv
<1>5. RouteTypes'  BY <1>1, <1>2, <1>4 DEF RoutesInv, RouteTypes
<1>6. RowsAreSound'
    <2> SUFFICES ASSUME NEW q \in Provider
                 PROVE  /\ profs[q].own \notin SavedKey /\ (profs[q].on => profs[q].was)
                        /\ profs[q].link # Unset => profs[q].on /\ vaultHost'[profs[q].link] = profs[q].host
        BY <1>1 DEF RowsAreSound
    <2>1. profs[q].link # Unset => profs[q].link # k /\ profs[q].link \in SavedKey
        BY <1>1 DEF RoutesInv, RouteTypes, RowsAreSound, ProfileRow
    <2> QED  BY <1>2, <2>1 DEF RoutesInv, RowsAreSound
<1>7. LocalIsLocal(default)'  BY <1>1, <1>3, DefaultLasts
<1>8. RoutesLeadSomewhere'  BY <1>1, RoutesStayLed
<1>9. WorksAreSound'  BY <1>1, <1>3, WorksStay DEF RoutesInv
<1> QED  BY <1>5, <1>6, <1>7, <1>8, <1>9 DEF RoutesInv

\* A default without a profile is a default, and names what its policy needs
LEMMA WithoutIsSelection ==
    ASSUME default \in Selection, NEW p \in Provider
    PROVE  LET d == DefaultWithout(default, p) IN
           /\ d \in Selection
           /\ d.local \in {Unset, default.local} \ {p} /\ d.cloud \in {Unset, default.cloud} \ {p}
           /\ d.policy # Unset => NamesItsNeeds(d)
<1> DEFINE l == IF default.local = p THEN Unset ELSE default.local
           c == IF default.cloud = p THEN Unset ELSE default.cloud
           d == DefaultWithout(default, p)
<1>1. /\ l \in Provider \cup {Unset} /\ l \in {Unset, default.local} \ {p}
      /\ c \in Provider \cup {Unset} /\ c \in {Unset, default.cloud} \ {p}
    BY DEF Selection
<1>2. CASE l = Unset /\ c = Unset
    <2>1. d = NoDefault  BY <1>2 DEF DefaultWithout
    <2> QED  BY <2>1 DEF NoDefault, Selection
<1>3. CASE ~(l = Unset /\ c = Unset)
    <2> DEFINE policy == CASE l = Unset -> "cloud_only" [] c = Unset -> "local_only" [] OTHER -> default.policy
    <2>1. d = [policy |-> policy, local |-> l, cloud |-> c]  BY <1>3 DEF DefaultWithout
    <2>2. policy \in Policy \cup {Unset, "chosen"}  BY <1>3 DEF Selection, Policy
    <2>3. /\ l = Unset => policy = "cloud_only" /\ c # Unset
          /\ c = Unset => policy = "local_only" /\ l # Unset
        BY <1>3
    <2> HIDE DEF l, c, policy, d
    <2>4. d \in Selection /\ d.local = l /\ d.cloud = c /\ d.policy = policy  BY <1>1, <2>1, <2>2 DEF Selection
    <2>5. NamesItsNeeds(d)  BY <2>3, <2>4 DEF NamesItsNeeds, Needs
    <2> QED  BY <1>1, <2>4, <2>5 DEF d
<1> QED  BY <1>2, <1>3

\* No route names a profile that is deleted
LEMMA DeleteRowKeeps == ASSUME RoutesInv, NEW p \in Provider, DeleteProfileRow(p) PROVE RoutesInv'
<1> DEFINE c == [profs[p] EXCEPT !.on = FALSE, !.link = Unset, !.own = Unset]
<1>1. /\ profs' = [profs EXCEPT ![p].on = FALSE, ![p].link = Unset, ![p].own = Unset]
      /\ default' = DefaultWithout(default, p) /\ chatRoute' = RouteWithout(p)
      /\ UNCHANGED <<vaultHost, work, moved, strays>>
    BY DEF DeleteProfileRow
<1>2. profs \in [Provider -> ProfileRow] /\ profs[p] \in ProfileRow  BY DEF RoutesInv, RouteTypes
<1>3. profs' = [profs EXCEPT ![p] = c]  BY <1>1, <1>2 DEF ProfileRow
<1>4. /\ c \in ProfileRow /\ c.on = FALSE /\ c.was = profs[p].was /\ c.loc = profs[p].loc
      /\ c.own = Unset /\ c.link = Unset
    BY <1>2 DEF ProfileRow
<1> HIDE DEF c
<1>5. profs' \in [Provider -> ProfileRow] /\ profs'[p] = c /\ \A q \in Provider \ {p} : profs'[q] = profs[q]
    BY <1>2, <1>3, <1>4
<1>6. Lasts
    <2>1. \A q \in Provider : profs'[q].was = profs[q].was /\ profs'[q].loc = profs[q].loc  BY <1>4, <1>5
    <2> QED  BY <1>1, <2>1 DEF Lasts
<1>7. /\ default' \in Selection
      /\ default'.local \in {Unset, default.local} \ {p} /\ default'.cloud \in {Unset, default.cloud} \ {p}
      /\ default'.policy # Unset => NamesItsNeeds(default')
    BY <1>1, WithoutIsSelection DEF RoutesInv, RouteTypes
<1>8. chatRoute' \in {Unset, chatRoute} \ {p}  BY <1>1 DEF RouteWithout
<1>9. edits' \in 0 .. MaxEdits  BY EditCounted DEF DeleteProfileRow, RoutesInv
<1>10. RouteTypes'  BY <1>1, <1>5, <1>7, <1>8, <1>9 DEF RoutesInv, RouteTypes
<1>11. RowsAreSound'  BY <1>1, <1>4, <1>5 DEF RoutesInv, RowsAreSound
<1>12. LocalIsLocal(default)'
    <2>1. PICK sel : sel = default  OBVIOUS
    <2>2. LocalIsLocal(sel) /\ sel \in Selection  BY <2>1 DEF RoutesInv, RouteTypes, LocalIsLocal
    <2>3. LocalIsLocal(sel)'  BY <1>6, <2>2, SelectionLasts
    <2> QED  BY <1>7, <2>1, <2>3 DEF LocalIsLocal
<1>13. RoutesLeadSomewhere'
    <2>1. ASSUME NEW q \in {default'.local, default'.cloud, chatRoute'} \ {Unset} PROVE profs'[q].on \/ q \in strays'
        <3>1. q # p /\ q \in {default.local, default.cloud, chatRoute} \ {Unset}  BY <1>7, <1>8
        <3>2. q \in Provider  BY <3>1 DEF RoutesInv, RouteTypes, Selection
        <3>3. profs[q].on \/ q \in strays  BY <3>1 DEF RoutesInv, RoutesLeadSomewhere
        <3> QED  BY <1>1, <1>5, <3>1, <3>2, <3>3
    <2> QED  BY <1>7, <2>1 DEF RoutesLeadSomewhere, NamesItsNeeds
<1>14. WorksAreSound'  BY <1>1, <1>6, WorksStay DEF RoutesInv
<1> QED  BY <1>10, <1>11, <1>12, <1>13, <1>14 DEF RoutesInv

-----------------------------------------------------------------------------
(***************************************************************************)
(* Routes                                                                  *)
(***************************************************************************)

\* A selection that was checked names local profiles as local ones
LEMMA SelectChecksKeeps ==
    ASSUME RoutesInv, NEW t \in Thread, NEW policy \in Policy, NEW l \in Provider \cup {Unset},
           NEW c \in Provider \cup {Unset}, SelectChecks(t, policy, l, c)
    PROVE  RoutesInv'
<1> DEFINE sel == [policy |-> policy, local |-> l, cloud |-> c]
           w == [Idling EXCEPT !.at = "selecting", !.sel = sel]
<1>1. sel \in Selection /\ sel.policy = policy /\ sel.local = l /\ sel.cloud = c  BY DEF Selection
<1>2. /\ "local" \in Needs(policy) => l # Unset
      /\ "cloud" \in Needs(policy) => c # Unset
      /\ Fits(l, "local") /\ Does(t, w) /\ Edit
      /\ UNCHANGED <<profs, vaultHost, default, chatRoute, moved, strays>>
    BY DEF SelectChecks
<1>3. Idling \in RouteWork /\ Idling.spoke = FALSE  BY IdlingIsSound
<1> HIDE DEF sel
<1>4. w \in RouteWork /\ w.at = "selecting" /\ w.sel = sel /\ w.spoke = FALSE  BY <1>1, <1>3 DEF RouteWork
<1> HIDE DEF w
<1>5. NamesItsNeeds(sel)  BY <1>1, <1>2 DEF NamesItsNeeds
<1>6. LocalIsLocal(sel)  BY <1>1, <1>2 DEF LocalIsLocal, Fits, RoutesInv, RowsAreSound
<1>7. PICK v : v = w  OBVIOUS
<1>8. WorkIsSound(v)
    <2>1. v \in RouteWork /\ v.at = "selecting" /\ v.spoke = FALSE /\ v.sel = sel  BY <1>4, <1>7
    <2>2. v.sel.policy \in Policy /\ NamesItsNeeds(v.sel)  BY <1>1, <1>5, <2>1
    <2>3. LocalIsLocal(v.sel)  BY <1>6, <2>1 DEF LocalIsLocal
    <2> QED  BY <2>1, <2>2, <2>3 DEF WorkIsSound
<1>9. Does(t, v)  BY <1>2, <1>7 DEF Does
<1>10. edits' \in 0 .. MaxEdits  BY <1>2, EditCounted DEF RoutesInv
<1> QED  BY <1>2, <1>8, <1>9, <1>10, WorkMoves

LEMMA NoEdit == RouteTypes /\ edits' = edits => edits' \in 0 .. MaxEdits
BY DEF RouteTypes

LEMMA SelectFailsKeeps == ASSUME RoutesInv, NEW t \in Thread, SelectFails(t) PROVE RoutesInv'
<1>1. edits' \in 0 .. MaxEdits  BY NoEdit DEF RoutesInv, SelectFails
<1> QED  BY <1>1, IdlingIsSound, WorkMoves DEF SelectFails

\* What was deleted since the check is a stray of the default
LEMMA SelectWritesKeeps == ASSUME RoutesInv, NEW t \in Thread, SelectWrites(t) PROVE RoutesInv'
<1>1. /\ work[t].at = "selecting" /\ Does(t, Idling) /\ default' = work[t].sel
      /\ strays' = strays \cup Absent({work[t].sel.local, work[t].sel.cloud})
      /\ UNCHANGED <<profs, vaultHost, chatRoute, edits, moved>>
    BY DEF SelectWrites
<1>2. WorkIsSound(work[t]) /\ work[t] \in RouteWork  BY DEF RoutesInv, WorksAreSound, WorkIsSound
<1>3. work[t].sel \in Selection /\ NamesItsNeeds(work[t].sel) /\ LocalIsLocal(work[t].sel)
    BY <1>1, <1>2 DEF WorkIsSound, RouteWork
<1>4. Lasts  BY <1>1, UnchangedLasts
<1>5. Absent({work[t].sel.local, work[t].sel.cloud}) \subseteq Provider  BY <1>3 DEF Absent, Selection
<1>6. RouteTypes'  BY <1>1, <1>3, <1>5 DEF RoutesInv, RouteTypes
<1>7. RowsAreSound'  BY <1>1 DEF RoutesInv, RowsAreSound
<1>8. LocalIsLocal(default)'  BY <1>1, <1>3 DEF LocalIsLocal
<1>9. RoutesLeadSomewhere'
    <2>1. ASSUME NEW q \in {default'.local, default'.cloud, chatRoute'} \ {Unset} PROVE profs'[q].on \/ q \in strays'
        <3>1. CASE q \in {work[t].sel.local, work[t].sel.cloud}  BY <1>1, <2>1, <3>1 DEF Absent
        <3>2. CASE q = chatRoute
            <4>1. profs[q].on \/ q \in strays  BY <2>1, <3>2 DEF RoutesInv, RoutesLeadSomewhere
            <4> QED  BY <1>1, <4>1
        <3> QED  BY <1>1, <2>1, <3>1, <3>2
    <2> QED  BY <1>1, <1>3, <2>1 DEF RoutesLeadSomewhere, NamesItsNeeds
<1>10. WorkIsSound(Idling)'
    <2>1. PICK w : w = Idling  OBVIOUS
    <2>2. WorkIsSound(w)  BY <2>1, IdlingIsSound
    <2>3. WorkIsSound(w)'  BY <1>4, <2>2, WorkLasts
    <2> QED  BY <2>1, <2>3
<1>11. WorksAreSound'  BY <1>1, <1>4, <1>10, WorksLast DEF RoutesInv
<1> QED  BY <1>6, <1>7, <1>8, <1>9, <1>11 DEF RoutesInv

LEMMA RouteChecksKeeps ==
    ASSUME RoutesInv, NEW t \in Thread, NEW p \in Provider \cup {Unset}, RouteChecks(t, p)
    PROVE  RoutesInv'
<1> DEFINE w == [Idling EXCEPT !.at = "routing", !.p = p]
<1>1. Does(t, w) /\ Edit /\ UNCHANGED <<profs, vaultHost, default, chatRoute, moved, strays>>  BY DEF RouteChecks
<1>2. Idling \in RouteWork /\ Idling.spoke = FALSE  BY IdlingIsSound
<1>3. w \in RouteWork /\ w.at = "routing" /\ w.spoke = FALSE  BY <1>2 DEF RouteWork
<1> HIDE DEF w
<1>4. WorkIsSound(w)  BY <1>3 DEF WorkIsSound
<1>5. PICK v : v = w  OBVIOUS
<1>6. WorkIsSound(v)  BY <1>3, <1>5 DEF WorkIsSound
<1>7. Does(t, v)  BY <1>1, <1>5 DEF Does
<1>8. edits' \in 0 .. MaxEdits  BY <1>1, EditCounted DEF RoutesInv
<1> QED  BY <1>1, <1>6, <1>7, <1>8, WorkMoves

LEMMA RouteWritesKeeps == ASSUME RoutesInv, NEW t \in Thread, RouteWrites(t) PROVE RoutesInv'
<1>1. /\ Does(t, Idling) /\ chatRoute' = work[t].p /\ strays' = strays \cup Absent({work[t].p})
      /\ UNCHANGED <<profs, vaultHost, default, edits, moved>>
    BY DEF RouteWrites
<1>2. work[t].p \in Provider \cup {Unset}  BY DEF RoutesInv, WorksAreSound, WorkIsSound, RouteWork
<1>3. Absent({work[t].p}) \subseteq Provider  BY <1>2 DEF Absent
<1>4. Lasts  BY <1>1, UnchangedLasts
<1>5. RouteTypes'  BY <1>1, <1>2, <1>3 DEF RoutesInv, RouteTypes
<1>6. RowsAreSound'  BY <1>1 DEF RoutesInv, RowsAreSound
<1>7. LocalIsLocal(default)'  BY <1>1, <1>4, DefaultLasts
<1>8. RoutesLeadSomewhere'
    <2>1. ASSUME NEW q \in {default'.local, default'.cloud, chatRoute'} \ {Unset} PROVE profs'[q].on \/ q \in strays'
        <3>1. CASE q = work[t].p  BY <1>1, <2>1, <3>1 DEF Absent
        <3>2. CASE q \in {default.local, default.cloud}
            <4>1. profs[q].on \/ q \in strays  BY <2>1, <3>2 DEF RoutesInv, RoutesLeadSomewhere
            <4> QED  BY <1>1, <4>1
        <3> QED  BY <1>1, <2>1, <3>1, <3>2
    <2> QED  BY <1>1, <2>1 DEF RoutesInv, RoutesLeadSomewhere
<1>9. WorkIsSound(Idling)'
    <2>1. PICK w : w = Idling  OBVIOUS
    <2>2. WorkIsSound(w)  BY <2>1, IdlingIsSound
    <2>3. WorkIsSound(w)'  BY <1>4, <2>2, WorkLasts
    <2> QED  BY <2>1, <2>3
<1>10. WorksAreSound'  BY <1>1, <1>4, <1>9, WorksLast DEF RoutesInv
<1> QED  BY <1>5, <1>6, <1>7, <1>8, <1>10 DEF RoutesInv

-----------------------------------------------------------------------------
(***************************************************************************)
(* Calls                                                                   *)
(***************************************************************************)

\* What a default is asked in: profiles, and of "local only" the local one
LEMMA OrderIsKept ==
    ASSUME NEW d \in Selection
    PROVE  /\ Ordered(d) \in Seq(Provider)
           /\ d.policy = "local_only" => \A i \in 1 .. Len(Ordered(d)) : Ordered(d)[i] = d.local
<1>1. ASSUME NEW p \in Provider \cup {Unset}
      PROVE  Chosen(p) \in Seq(Provider) /\ \A i \in 1 .. Len(Chosen(p)) : Chosen(p)[i] = p
    <2>1. CASE p = Unset
        <3>1. Chosen(p) = <<>>  BY <2>1 DEF Chosen
        <3> QED  BY <3>1, EmptySeq
    <2>2. CASE p # Unset
        <3>1. Chosen(p) = <<p>> /\ p \in Provider  BY <1>1, <2>2 DEF Chosen
        <3>2. <<p>> \in Seq(Provider) /\ Len(<<p>>) = 1 /\ <<p>>[1] = p  BY <3>1
        <3> QED  BY <3>1, <3>2
    <2> QED  BY <2>1, <2>2
<1>2. d.local \in Provider \cup {Unset} /\ d.cloud \in Provider \cup {Unset}  BY DEF Selection
<1>3. Chosen(d.local) \in Seq(Provider) /\ Chosen(d.cloud) \in Seq(Provider)  BY <1>1, <1>2
<1>4. /\ Chosen(d.local) \o Chosen(d.cloud) \in Seq(Provider)
      /\ Chosen(d.cloud) \o Chosen(d.local) \in Seq(Provider)
    BY <1>3
<1>5. Ordered(d) \in Seq(Provider)  BY <1>3, <1>4 DEF Ordered
<1>6. ASSUME d.policy = "local_only" PROVE Ordered(d) = Chosen(d.local)  BY <1>6 DEF Ordered
<1> QED  BY <1>1, <1>2, <1>5, <1>6

LEMMA CallAsksKeeps == ASSUME RoutesInv, NEW t \in Thread, NEW ai \in BOOLEAN, CallAsks(t, ai) PROVE RoutesInv'
<1> DEFINE order == IF ai THEN <<chatRoute>> ELSE Ordered(default)
           sel == IF ai THEN [default EXCEPT !.policy = "chosen"] ELSE default
           w == [Idling EXCEPT !.at = "trying", !.left = order, !.sel = sel]
<1>1. (ai => chatRoute # Unset) /\ order # <<>> /\ Does(t, w) /\ UNCHANGED RoutesStay  BY DEF CallAsks
<1>2. default \in Selection /\ chatRoute \in Provider \cup {Unset} /\ LocalIsLocal(default)
    BY DEF RoutesInv, RouteTypes
<1>3. sel \in Selection /\ sel.local = default.local /\ (ai => sel.policy = "chosen") /\ (~ai => sel = default)
    BY <1>2 DEF Selection
<1>4. LocalIsLocal(sel)  BY <1>2, <1>3 DEF LocalIsLocal
<1>5. order \in Seq(Provider) /\ (sel.policy = "local_only" => \A i \in 1 .. Len(order) : order[i] = sel.local)
    <2>1. CASE ai
        <3>1. order = <<chatRoute>> /\ chatRoute \in Provider  BY <1>1, <1>2, <2>1
        <3>2. sel.policy # "local_only"  BY <1>3, <2>1
        <3> HIDE DEF order, sel
        <3> QED  BY <3>1, <3>2
    <2>2. CASE ~ai
        <3>1. order = Ordered(default) /\ sel = default  BY <2>2
        <3> HIDE DEF order, sel
        <3> QED  BY <1>2, <3>1, OrderIsKept
    <2> QED  BY <2>1, <2>2
<1>6. Idling \in RouteWork /\ Idling.spoke = FALSE  BY IdlingIsSound
<1> HIDE DEF order, sel
<1>7. w \in RouteWork /\ w.at = "trying" /\ w.left = order /\ w.sel = sel /\ w.spoke = FALSE
    BY <1>3, <1>5, <1>6 DEF RouteWork
<1> HIDE DEF w
<1>8. PICK v : v = w  OBVIOUS
<1>9. WorkIsSound(v)
    <2>1. v \in RouteWork /\ v.at = "trying" /\ v.left = order /\ v.sel = sel /\ v.spoke = FALSE  BY <1>7, <1>8
    <2>2. LocalIsLocal(v.sel)  BY <1>4, <2>1 DEF LocalIsLocal
    <2>3. v.left # <<>>  BY <1>1, <2>1
    <2>4. v.sel.policy = "local_only" => \A i \in 1 .. Len(v.left) : v.left[i] = v.sel.local  BY <1>5, <2>1
    <2> QED  BY <2>1, <2>2, <2>3, <2>4 DEF WorkIsSound
<1>10. Does(t, v)  BY <1>1, <1>8 DEF Does
<1>11. edits' \in 0 .. MaxEdits  BY <1>1, NoEdit DEF RoutesInv, RoutesStay
<1> QED  BY <1>1, <1>9, <1>10, <1>11, WorkMoves DEF RoutesStay

LEMMA RestOfOrder ==
    ASSUME NEW s \in Seq(Provider), Len(s) > 1
    PROVE  /\ Tail(s) \in Seq(Provider) /\ Len(Tail(s)) = Len(s) - 1 /\ Len(s) \in Nat /\ Tail(s) # <<>>
           /\ \A i \in 1 .. Len(Tail(s)) : i + 1 \in 1 .. Len(s) /\ Tail(s)[i] = s[i + 1]
<1>1. Tail(s) \in Seq(Provider) /\ Len(Tail(s)) = Len(s) - 1 /\ Len(s) \in Nat  OBVIOUS
<1>2. PICK n : n = Len(s)  OBVIOUS
<1>3. PICK rest \in Seq(Provider) : rest = Tail(s) /\ Len(rest) = n - 1  BY <1>1, <1>2
<1>4. n \in Nat /\ n > 1  BY <1>1, <1>2
<1>5. Len(rest) # 0  BY <1>3, <1>4
<1>6. rest # <<>>  BY <1>5, EmptySeq
<1>7. \A i \in 1 .. Len(Tail(s)) : i + 1 \in 1 .. Len(s) /\ Tail(s)[i] = s[i + 1]  OBVIOUS
<1> QED  BY <1>1, <1>3, <1>6, <1>7

\* Going on to the next provider, or giving up
LEMMA OnwardIsSound ==
    ASSUME NEW t \in Thread, WorkIsSound(work[t]), work[t].at \in {"trying", "asking"}
    PROVE  WorkIsSound(Onward(t))
<1>1. CASE ~MayGoOn(t)
    <2>1. Onward(t) = Idling  BY <1>1 DEF Onward
    <2> QED  BY <2>1, IdlingIsSound
<1>2. CASE MayGoOn(t)
    <2> DEFINE w == work[t]
               v == [w EXCEPT !.at = "trying", !.left = Tail(w.left)]
    <2>1. Onward(t) = v /\ w.spoke # TRUE /\ Len(w.left) > 1  BY <1>2 DEF Onward, MayGoOn
    <2>2. w \in RouteWork  BY DEF WorkIsSound
    <2>3. w.left \in Seq(Provider)  BY <2>2 DEF RouteWork
    <2> DEFINE rest == Tail(w.left)
    <2>4. rest \in Seq(Provider) /\ rest # <<>>
        <3> HIDE DEF w
        <3> QED  BY <2>1, <2>3, RestOfOrder
    <2>5. \A i \in 1 .. Len(rest) : i + 1 \in 1 .. Len(w.left) /\ rest[i] = w.left[i + 1]
        <3> HIDE DEF w
        <3> QED  BY <2>1, <2>3, RestOfOrder
    <2>6. LocalIsLocal(w.sel) /\ (w.sel.policy = "local_only" => \A i \in 1 .. Len(w.left) : w.left[i] = w.sel.local)
        BY DEF WorkIsSound
    <2> HIDE DEF rest
    <2>8. v = [w EXCEPT !.at = "trying", !.left = rest]  BY DEF rest
    <2>9. v \in RouteWork /\ v.at = "trying" /\ v.left = rest /\ v.sel = w.sel /\ v.spoke = w.spoke
        <3> HIDE DEF v, w
        <3> QED  BY <2>2, <2>4, <2>8 DEF RouteWork
    <2>10. v.spoke = FALSE  BY <2>1, <2>2, <2>9 DEF RouteWork
    <2> HIDE DEF v
    <2>11. v.sel.policy = "local_only" => \A i \in 1 .. Len(v.left) : v.left[i] = v.sel.local
        BY <2>5, <2>6, <2>9
    <2>12. LocalIsLocal(v.sel)  BY <2>6, <2>9 DEF LocalIsLocal
    <2>13. WorkIsSound(v)  BY <2>4, <2>9, <2>10, <2>11, <2>12 DEF WorkIsSound
    <2>14. Onward(t) = v  BY <2>1
    <2> QED  BY <2>13, <2>14
<1> QED  BY <1>1, <1>2

\* The provider that is asked is the one the call named, as it was then
LEMMA CallTriesKeeps == ASSUME RoutesInv, NEW t \in Thread, CallTries(t) PROVE RoutesInv'
<1> DEFINE p == Head(work[t].left)
           asking == [work[t] EXCEPT !.at = "asking", !.p = p, !.copy = profs[p]]
<1>1. work[t].at = "trying" /\ UNCHANGED RoutesStay
      /\ (Does(t, Idling) \/ Does(t, Onward(t)) \/ Does(t, asking))
    BY DEF CallTries
<1>2. WorkIsSound(work[t]) /\ work[t] \in RouteWork  BY DEF RoutesInv, WorksAreSound, WorkIsSound
<1>3. edits' \in 0 .. MaxEdits  BY <1>1, NoEdit DEF RoutesInv, RoutesStay
<1>4. CASE Does(t, Idling)  BY <1>1, <1>3, <1>4, IdlingIsSound, WorkMoves DEF RoutesStay
<1>5. CASE Does(t, Onward(t))
    <2>1. PICK v : v = Onward(t)  OBVIOUS
    <2>2. WorkIsSound(v)  BY <1>1, <1>2, <2>1, OnwardIsSound
    <2>3. Does(t, v)  BY <1>5, <2>1 DEF Does
    <2> QED  BY <1>1, <1>3, <2>2, <2>3, WorkMoves DEF RoutesStay
<1>6. CASE Does(t, asking)
    <2>1. work[t].left \in Seq(Provider) /\ work[t].left # <<>> /\ LocalIsLocal(work[t].sel)
        BY <1>1, <1>2 DEF WorkIsSound, RouteWork
    <2>2. p \in Provider /\ p = work[t].left[1] /\ 1 \in 1 .. Len(work[t].left)  BY <2>1
    <2>3. profs[p] \in ProfileRow  BY <2>2 DEF RoutesInv, RouteTypes
    <2>4. KeyIsHome(profs[p])  BY <2>2 DEF RoutesInv, RowsAreSound, KeyIsHome
    <2>5. work[t].sel.policy = "local_only" => p = work[t].sel.local  BY <1>1, <1>2, <2>2 DEF WorkIsSound
    <2> HIDE DEF p
    <2>6. work[t].sel.policy = "local_only" /\ p \notin moved => profs[p].loc = "local"
        BY <2>1, <2>2, <2>5 DEF LocalIsLocal
    <2>7. /\ asking \in RouteWork /\ asking.at = "asking" /\ asking.p = p /\ asking.copy = profs[p]
          /\ asking.sel = work[t].sel /\ asking.left = work[t].left
        BY <1>2, <2>2, <2>3 DEF RouteWork
    <2> HIDE DEF asking
    <2>8. PICK v : v = asking  OBVIOUS
    <2>9. WorkIsSound(v)
        <3>1. /\ v \in RouteWork /\ v.at = "asking" /\ v.p = p /\ v.copy = profs[p] /\ v.sel = work[t].sel
              /\ v.left = work[t].left
            BY <2>7, <2>8
        <3>2. LocalIsLocal(v.sel)  BY <2>1, <3>1 DEF LocalIsLocal
        <3>3. v.copy \in ProfileRow /\ KeyIsHome(v.copy)  BY <2>3, <2>4, <3>1 DEF KeyIsHome
        <3>4. v.sel.policy = "local_only" => \A i \in 1 .. Len(v.left) : v.left[i] = v.sel.local
            BY <1>1, <1>2, <3>1 DEF WorkIsSound
        <3>5. v.sel.policy = "local_only" /\ v.p \notin moved => v.copy.loc = "local"  BY <2>6, <3>1
        <3> QED  BY <2>1, <3>1, <3>2, <3>3, <3>4, <3>5 DEF WorkIsSound
    <2>10. Does(t, v)  BY <1>6, <2>8 DEF Does
    <2> QED  BY <1>1, <1>3, <2>9, <2>10, WorkMoves DEF RoutesStay
<1> QED  BY <1>1, <1>4, <1>5, <1>6

LEMMA CallSpeaksKeeps == ASSUME RoutesInv, NEW t \in Thread, CallSpeaks(t) PROVE RoutesInv'
<1> DEFINE w == [work[t] EXCEPT !.spoke = TRUE]
<1>1. work[t].at = "asking" /\ Does(t, w) /\ UNCHANGED RoutesStay  BY DEF CallSpeaks
<1>2. WorkIsSound(work[t]) /\ work[t] \in RouteWork  BY DEF RoutesInv, WorksAreSound, WorkIsSound
<1>3. /\ w \in RouteWork /\ w.at = "asking" /\ w.p = work[t].p /\ w.copy = work[t].copy
      /\ w.sel = work[t].sel /\ w.left = work[t].left
    BY <1>1, <1>2 DEF RouteWork
<1> HIDE DEF w
<1>4. PICK v : v = w  OBVIOUS
<1>5. WorkIsSound(v)
    <2>1. /\ v \in RouteWork /\ v.at = "asking" /\ v.p = work[t].p /\ v.copy = work[t].copy
          /\ v.sel = work[t].sel /\ v.left = work[t].left
        BY <1>3, <1>4
    <2>2. LocalIsLocal(v.sel) /\ KeyIsHome(v.copy)  BY <1>1, <1>2, <2>1 DEF WorkIsSound, LocalIsLocal, KeyIsHome
    <2> QED  BY <1>1, <1>2, <2>1, <2>2 DEF WorkIsSound
<1>6. Does(t, v)  BY <1>1, <1>4 DEF Does
<1>7. edits' \in 0 .. MaxEdits  BY <1>1, NoEdit DEF RoutesInv, RoutesStay
<1> QED  BY <1>1, <1>5, <1>6, <1>7, WorkMoves DEF RoutesStay

LEMMA CallEndsKeeps == ASSUME RoutesInv, NEW t \in Thread, CallAnswers(t) \/ CallBreaks(t) PROVE RoutesInv'
<1>1. work[t].at = "asking" /\ UNCHANGED RoutesStay /\ (Does(t, Idling) \/ Does(t, Onward(t)))
    BY DEF CallAnswers, CallBreaks
<1>2. WorkIsSound(work[t])  BY DEF RoutesInv, WorksAreSound
<1>3. edits' \in 0 .. MaxEdits  BY <1>1, NoEdit DEF RoutesInv, RoutesStay
<1>4. CASE Does(t, Idling)  BY <1>1, <1>3, <1>4, IdlingIsSound, WorkMoves DEF RoutesStay
<1>5. CASE Does(t, Onward(t))
    <2>1. PICK v : v = Onward(t)  OBVIOUS
    <2>2. WorkIsSound(v)  BY <1>1, <1>2, <2>1, OnwardIsSound
    <2>3. Does(t, v)  BY <1>5, <2>1 DEF Does
    <2> QED  BY <1>1, <1>3, <2>2, <2>3, WorkMoves DEF RoutesStay
<1> QED  BY <1>1, <1>4, <1>5

-----------------------------------------------------------------------------
LEMMA RoutesInductive == RoutesInv /\ [RoutesNext]_routesVars => RoutesInv'
<1> SUFFICES ASSUME RoutesInv, [RoutesNext]_routesVars PROVE RoutesInv'  OBVIOUS
<1>1. CASE ProfileSteps
    <2>1. ASSUME NEW p \in Provider, NEW c \in NewProfiles, CreateProfile(p, c) PROVE RoutesInv'
        BY <2>1, CreateProfileKeeps
    <2>2. ASSUME NEW t \in Thread, work[t].at = "editing", NEW c \in Changed(work[t].copy), UpdateSaves(t, c)
          PROVE  RoutesInv'
        <3>1. CopyIsSound(work[t].copy)  BY <2>2 DEF RoutesInv, WorksAreSound, WorkIsSound
        <3>2. PICK old : old = work[t].copy  OBVIOUS
        <3>3. CopyIsSound(c)  BY <3>1, <3>2, ChangedIsSound DEF RoutesInv, RouteTypes
        <3> QED  BY <2>2, <3>3, UpdateSavesKeeps
    <2>3. ASSUME NEW t \in Thread, work[t].at = "vaulted", UpdateSaves(t, work[t].copy) PROVE RoutesInv'
        <3>1. CopyIsSound(work[t].copy)  BY <2>3 DEF RoutesInv, WorksAreSound, WorkIsSound
        <3>2. PICK c : c = work[t].copy  OBVIOUS
        <3>3. UpdateSaves(t, c) /\ CopyIsSound(c)  BY <2>3, <3>1, <3>2
        <3> QED  BY <2>3, <3>3, UpdateSavesKeeps
    <2>4. ASSUME NEW p \in Provider, DeleteProfileRow(p) PROVE RoutesInv'  BY <2>4, DeleteRowKeeps
    <2>5. ASSUME NEW t \in Thread, NEW p \in Provider, UpdateReads(t, p) PROVE RoutesInv'  BY <2>5, UpdateReadsKeeps
    <2>6. ASSUME NEW t \in Thread, NEW k \in SavedKey, SaveToVault(t, k) PROVE RoutesInv'  BY <2>6, SaveToVaultKeeps
    <2>7. ASSUME NEW k \in SavedKey, DeleteSavedKey(k) PROVE RoutesInv'  BY <2>7, DeleteSavedKeyKeeps
    <2> QED  BY <1>1, <2>1, <2>2, <2>3, <2>4, <2>5, <2>6, <2>7 DEF ProfileSteps
<1>2. CASE RouteSteps
    <2>1. ASSUME NEW t \in Thread, NEW policy \in Policy, NEW l \in Provider \cup {Unset},
                 NEW c \in Provider \cup {Unset}, SelectChecks(t, policy, l, c)
          PROVE  RoutesInv'
        BY <2>1, SelectChecksKeeps
    <2> QED  BY <1>2, <2>1, RouteChecksKeeps, SelectFailsKeeps, SelectWritesKeeps, RouteWritesKeeps DEF RouteSteps, Policy
<1>3. CASE CallSteps
    BY <1>3, CallAsksKeeps, CallTriesKeeps, CallSpeaksKeeps, CallEndsKeeps DEF CallSteps
<1>4. CASE UNCHANGED routesVars
    <2>1. /\ UNCHANGED <<profs, vaultHost, default, chatRoute, moved, strays>>
          /\ work' = work /\ edits' = edits
        BY <1>4 DEF routesVars
    <2>2. WorksAreSound'  BY <2>1, UnchangedLasts, WorksStay DEF RoutesInv
    <2>3. RouteTypes' /\ RowsAreSound'  BY <2>1 DEF RoutesInv, RouteTypes, RowsAreSound
    <2>4. LocalIsLocal(default)' /\ RoutesLeadSomewhere'
        BY <2>1, RoutesStayLed DEF RoutesInv, LocalIsLocal
    <2> QED  BY <2>2, <2>3, <2>4 DEF RoutesInv
<1> QED  BY <1>1, <1>2, <1>3, <1>4 DEF RoutesNext

LEMMA RoutesInvSuffices ==
    RoutesInv => RoutesTypeOK /\ KeysStayHome /\ LocalStaysLocal /\ RoutesLeadSomewhere
<1> SUFFICES ASSUME RoutesInv PROVE RoutesTypeOK /\ KeysStayHome /\ LocalStaysLocal /\ RoutesLeadSomewhere  OBVIOUS
<1>1. \A t \in Thread : WorkIsSound(work[t]) /\ work[t] \in RouteWork
    BY DEF RoutesInv, WorksAreSound, WorkIsSound
<1>2. RoutesTypeOK
    <2>1. \A p \in Provider : profs[p] \in ProfileRow  BY DEF RoutesInv, RouteTypes
    <2>2. default.local \in Provider \cup {Unset} /\ default.cloud \in Provider \cup {Unset}
        BY DEF RoutesInv, RouteTypes, Selection
    <2>3. \A t \in Thread : work[t].at \in {"idle", "editing", "vaulted", "selecting", "routing", "trying", "asking"}
        BY <1>1 DEF RouteWork
    <2> QED  BY <2>1, <2>2, <2>3 DEF RoutesInv, RouteTypes, RoutesTypeOK
<1>3. KeysStayHome
    <2>1. ASSUME NEW t \in Thread, work[t].at = "asking", work[t].copy.link # Unset
          PROVE  vaultHost[work[t].copy.link] \in {work[t].copy.host, "deleted"}
        BY <1>1, <2>1 DEF WorkIsSound, KeyIsHome
    <2> QED  BY <2>1 DEF KeysStayHome, RoutesInv, RowsAreSound
<1>4. LocalStaysLocal
    <2>1. ASSUME NEW t \in Thread, work[t].at = "asking", work[t].sel.policy = "local_only", work[t].p \notin moved
          PROVE  work[t].copy.loc = "local"
        BY <1>1, <2>1 DEF WorkIsSound
    <2> QED  BY <2>1 DEF LocalStaysLocal
<1> QED  BY <1>2, <1>3, <1>4 DEF RoutesInv

\* A request whose first words are out is only ended
LEMMA SpokenIsLeft ==
    ASSUME WorksAreSound, RoutesNext, NEW t \in Thread, work[t].spoke
    PROVE  work'[t].at = "idle" \/ work'[t] = work[t]
<1>1. work[t].at = "asking"  BY DEF WorksAreSound, WorkIsSound
<1>2. ASSUME NEW u \in Thread, u # t, NEW w, Does(u, w) PROVE work'[t] = work[t]
    BY <1>2 DEF Does, WorksAreSound
<1>3. ASSUME Does(t, Idling) PROVE work'[t].at = "idle"  BY <1>3, IdlingIsSound DEF Does, WorksAreSound
<1>4. CASE ProfileSteps
    <2>1. CASE work' = work  BY <2>1
    <2>2. CASE \E u \in Thread : work[u].at # "asking" /\ \E w : Does(u, w)  BY <1>1, <1>2, <2>2
    <2> QED  BY <1>4, <2>1, <2>2 DEF ProfileSteps, DeleteProfileRow, CreateProfile, UpdateReads, SaveToVault,
                                     UpdateSaves, DeleteSavedKey, Idle
<1>5. CASE RouteSteps
    <2>1. \E u \in Thread : work[u].at # "asking" /\ \E w : Does(u, w)
        BY <1>5 DEF RouteSteps, SelectChecks, RouteChecks, SelectFails, SelectWrites, RouteWrites, Idle
    <2> QED  BY <1>1, <1>2, <2>1
<1>6. CASE CallSteps
    <2>1. PICK u \in Thread : (\E ai \in BOOLEAN : CallAsks(u, ai)) \/ CallTries(u) \/ CallSpeaks(u)
                                                               \/ CallAnswers(u) \/ CallBreaks(u)
        BY <1>6 DEF CallSteps
    <2>2. \E w : Does(u, w)  BY <2>1 DEF CallAsks, CallTries, CallSpeaks, CallAnswers, CallBreaks
    <2>3. CASE u # t  BY <1>2, <2>2, <2>3
    <2>4. CASE u = t
        <3>1. Onward(t) = Idling  BY DEF Onward, MayGoOn
        <3>2. Does(t, Idling)
            BY <1>1, <2>1, <2>4, <3>1 DEF CallAsks, CallTries, CallSpeaks, CallAnswers, CallBreaks, Idle
        <3> QED  BY <1>3, <3>2
    <2> QED  BY <2>3, <2>4
<1> QED  BY <1>4, <1>5, <1>6 DEF RoutesNext

LEMMA SpokenStepsAreLeft ==
    RoutesInv /\ [RoutesNext]_routesVars =>
        [\A t \in Thread : work[t].spoke => work'[t].at = "idle" \/ work'[t] = work[t]]_routesVars
BY SpokenIsLeft DEF RoutesInv, routesVars

\* Whatever is changed or deleted under it, a request goes where its route said, with a key of
\* that place; what the routes name is there; and an answer that has begun has one author
THEOREM RequestsGoWhereTheyWereSent == RoutesSpec => RoutesAreKept
<1>1. RoutesInit => RoutesInv  BY RoutesBegun
<1>2. RoutesInv /\ [RoutesNext]_routesVars => RoutesInv'  BY RoutesInductive
<1>3. RoutesInv => RoutesTypeOK /\ KeysStayHome /\ LocalStaysLocal /\ RoutesLeadSomewhere  BY RoutesInvSuffices
<1>4. RoutesInv /\ [RoutesNext]_routesVars =>
          [\A t \in Thread : work[t].spoke => work'[t].at = "idle" \/ work'[t] = work[t]]_routesVars
    BY SpokenStepsAreLeft
<1> QED  BY <1>1, <1>2, <1>3, <1>4, PTL DEF RoutesSpec, RoutesAreKept, OneAuthor

=============================================================================
