---------------------------- MODULE PrepResearch ----------------------------
(***************************************************************************)
(* Writing a briefing for one event (MeetingPrepService.generate): the paid *)
(* searches that run side by side (prep_research.py, exa_client.py), the    *)
(* model calls with their fall-backs (service.py), the ledger every call is *)
(* written to (usage.py), and the spend a saved briefing shows.  Texts,     *)
(* prices and sources are data.  One API process, as meeting_prep.py says.  *)
(***************************************************************************)
EXTENDS Integers, FiniteSets, FiniteSetsExt, Functions

CONSTANTS Writer,          \* people who prepare the event
          Brief,           \* requests to do so, numbered as they come
          MaxExaCalls,     \* MAX_EXA_CALLS
          MaxLlmCalls,     \* MAX_LLM_CALLS
          CompanyQueries,  \* searches for the company, MAX_COMPANY_SEARCHES at most
          Attendees,       \* people worth a search, MAX_PEOPLE_SEARCHES at most
          ExaConcurrency,  \* EXA_CONCURRENCY
          MaxRetries,      \* max_retries of ExaClient
          Providers,       \* profiles of the workspace default, in order
          MaxTroubles      \* bound: failed calls, lost rows, ends of the process

ASSUME ResearchAssumption ==
    /\ {MaxExaCalls, MaxLlmCalls, CompanyQueries, Attendees, ExaConcurrency, MaxRetries, Providers, MaxTroubles} \subseteq Nat
    /\ Brief \subseteq Nat /\ MaxExaCalls > 0 /\ MaxLlmCalls > 1 /\ CompanyQueries > 0 /\ ExaConcurrency > 0 /\ Providers > 0

VARIABLES briefs,    \* every request, the briefing it writes and the rows of the ledger it sees
          active,    \* MeetingPrepService._active
          troubles

researchVars == <<briefs, active, troubles>>

NoOne == "nobody"
Query == 1 .. CompanyQueries + Attendees
\* search: the state of every query; tried: its retries; company: queries for the company
\* profiles: how many a model call may try, 0 until one fails; llmCalls: _LlmBudget.calls
\* exa, llm: calls made; unlogged: those the ledger lost; shownExa, shownLlm: _usage_totals
Unasked == [pc |-> "idle", by |-> NoOne, search |-> <<>>, tried |-> <<>>, company |-> 0, profiles |-> 0, profile |-> 1,
            llmCalls |-> 0, exa |-> 0, llm |-> 0, unlogged |-> 0, shownExa |-> 0, shownLlm |-> 0]
\* Nothing is saved of a briefing that fails
Broken == [Unasked EXCEPT !.pc = "failed"]
Asking == {"planning", "writing", "repairing"}
Most(n) == Max({1, n})
Running == Asking \cup {"searching", "toRead", "reading", "written"}

ResearchTypeOK ==
    /\ \A b \in Brief : LET r == briefs[b] IN
          /\ r.pc \in {"idle", "saved", "failed"} \cup Running /\ r.by \in Writer \cup {NoOne}
          /\ DOMAIN r.search \subseteq Query /\ Range(r.search) \subseteq {"waits", "flies", "sleeps", "found", "failed"}
          /\ Range(r.tried) \subseteq 0 .. MaxRetries /\ r.company \in 0 .. CompanyQueries
          /\ r.profile \in 1 .. Most(r.profiles) /\ r.profiles \in 0 .. Providers /\ r.llmCalls \in 0 .. MaxLlmCalls
          /\ {r.exa, r.llm, r.unlogged, r.shownExa, r.shownLlm} \subseteq Nat
    /\ active \subseteq Writer /\ troubles \in 0 .. MaxTroubles

-----------------------------------------------------------------------------
(***************************************************************************)
(* Plausible bugs, see PROJECT.json                                        *)
(***************************************************************************)
NobodyIsBusy(w) == TRUE
OfAnybody(q, w) == briefs[q].pc \in Running

-----------------------------------------------------------------------------
(***************************************************************************)
(* The ledger                                                              *)
(***************************************************************************)
\* _usage_totals(): rows of this person since the briefing was started
Counts(q, w) == briefs[q].pc \in Running /\ briefs[q].by = w

\* The briefing after a step, and the rows of the ledger it wrote: the calls
\* that ended.  record_event() never raises: a row the database refuses is lost.
Gives(b, rec, exa, llm, trouble) ==
    \E lost \in BOOLEAN :
       LET told(q, r) == IF ~lost /\ Counts(q, briefs[b].by)
                         THEN [r EXCEPT !.shownExa = @ + exa, !.shownLlm = @ + llm] ELSE r
           mine == IF lost THEN [rec EXCEPT !.unlogged = @ + exa + llm] ELSE rec
       IN  /\ lost => exa + llm > 0
           /\ troubles' = troubles + trouble + (IF lost THEN 1 ELSE 0) /\ troubles' <= MaxTroubles
           /\ briefs' = [q \in Brief |-> told(q, IF q = b THEN mine ELSE briefs[q])]

Goes(b, rec) == Gives(b, rec, 0, 0, 0) /\ UNCHANGED active

\* generate() ends, whatever the reason: _active is left
Leaves(b, rec, exa, llm, trouble) ==
    /\ Gives(b, rec, exa, llm, trouble)
    /\ active' = active \ {briefs[b].by}

-----------------------------------------------------------------------------
(***************************************************************************)
(* The request                                                             *)
(***************************************************************************)
NotBusy(w) == w \notin active

Comes(b) == briefs[b].pc = "idle" /\ \A q \in Brief : q < b => briefs[q].pc # "idle"

\* _search(): one call is kept for reading pages
Reserved == MaxExaCalls - 1
ForCompany(company) == Min({company, Reserved})
ForPeople(company, people) == Min({people, Reserved - ForCompany(company)})

\* The model call of a stage
Calls(r, stage) == [r EXCEPT !.pc = stage, !.llmCalls = @ + 1, !.llm = @ + 1, !.profile = 1]

\* Without a key a researched briefing is refused (PrepConfigError)
Generate(b, w, research, company, people) ==
    /\ Comes(b) /\ NotBusy(w)
    /\ LET queries == 1 .. ForCompany(company) + ForPeople(company, people)
           r == [Unasked EXCEPT !.by = w, !.company = ForCompany(company),
                                !.search = [i \in queries |-> "waits"], !.tried = [i \in queries |-> 0]]
       IN  briefs' = [briefs EXCEPT ![b] = IF research /\ company + people > 0 THEN Calls(r, "planning")
                                           ELSE Calls([r EXCEPT !.search = <<>>, !.tried = <<>>], "writing")]
    /\ active' = active \cup {w}
    /\ UNCHANGED troubles

Refused(b, w) ==
    /\ Comes(b) /\ NotBusy(w)
    /\ briefs' = [briefs EXCEPT ![b] = Broken]
    /\ UNCHANGED <<active, troubles>>

-----------------------------------------------------------------------------
(***************************************************************************)
(* Model calls: generate_text() with its fall-backs                        *)
(***************************************************************************)
\* _plan() falls back to the default queries
AfterPlan(r) == [r EXCEPT !.pc = "searching"]

\* A well-formed answer; the plan's may hold anything
ModelAnswers(b) ==
    LET r == briefs[b] IN
    \/ r.pc = "planning" /\ Gives(b, AfterPlan(r), 0, 1, 0) /\ UNCHANGED active
    \/ r.pc \in {"writing", "repairing"} /\ Gives(b, [r EXCEPT !.pc = "written"], 0, 1, 0) /\ UNCHANGED active

\* An answer that is no briefing is sent back once, while calls are left
ModelMistakes(b) ==
    LET r == briefs[b] IN
    \/ /\ r.pc = "writing" /\ r.llmCalls < MaxLlmCalls
       /\ Gives(b, Calls(r, "repairing"), 0, 1, 1) /\ UNCHANGED active
    \/ /\ r.pc = "repairing" \/ (r.pc = "writing" /\ r.llmCalls = MaxLlmCalls)
       /\ Leaves(b, Broken, 0, 1, 1)

\* A failed call is a row too; then the next profile is tried: one selected for
\* research is the only one
ModelFails(b) ==
    \E n \in IF briefs[b].profiles = 0 THEN {1, Providers} ELSE {briefs[b].profiles} :
       LET r == [briefs[b] EXCEPT !.profiles = n] IN
       /\ r.pc \in Asking
       /\ IF r.profile < n THEN Gives(b, [r EXCEPT !.profile = @ + 1, !.llm = @ + 1], 0, 1, 1) /\ UNCHANGED active
          ELSE IF r.pc = "planning" THEN Gives(b, AfterPlan(r), 0, 1, 1) /\ UNCHANGED active
          ELSE Leaves(b, Broken, 0, 1, 1)

-----------------------------------------------------------------------------
(***************************************************************************)
(* Searches: asyncio.gather under a semaphore                              *)
(***************************************************************************)
\* A call that sleeps before its retry keeps its place
Holding(r) == {i \in DOMAIN r.search : r.search[i] \in {"flies", "sleeps"}}

SearchStarts(b, i) ==
    LET r == briefs[b] IN
    /\ r.pc = "searching" /\ r.search[i] = "waits" /\ Cardinality(Holding(r)) < ExaConcurrency
    /\ Goes(b, [r EXCEPT !.search[i] = "flies", !.exa = @ + 1])

SearchFinds(b, i) ==
    LET r == briefs[b] IN
    /\ r.pc = "searching" /\ r.search[i] = "flies"
    /\ Gives(b, [r EXCEPT !.search[i] = "found"], 1, 0, 0) /\ UNCHANGED active

\* _post(): 429, 5xx and timeouts are tried again within the same call
SearchSleeps(b, i) ==
    LET r == briefs[b] IN
    /\ r.pc = "searching" /\ r.search[i] = "flies" /\ r.tried[i] < MaxRetries
    /\ Gives(b, [r EXCEPT !.search[i] = "sleeps", !.tried[i] = @ + 1], 0, 0, 1) /\ UNCHANGED active

SearchRetries(b, i) ==
    LET r == briefs[b] IN
    /\ r.pc = "searching" /\ r.search[i] = "sleeps"
    /\ Goes(b, [r EXCEPT !.search[i] = "flies"])

SearchFails(b, i) ==
    LET r == briefs[b] IN
    /\ r.pc = "searching" /\ r.search[i] = "flies"
    /\ Gives(b, [r EXCEPT !.search[i] = "failed"], 1, 0, 1) /\ UNCHANGED active

\* 401, 402 and 403 end the briefing at once: the client is closed, calls in the
\* air are rows that failed, one that sleeps is never written, one that waits
\* never made
SearchDenied(b, i) ==
    LET r == briefs[b] IN
    /\ r.pc = "searching" /\ r.search[i] = "flies"
    /\ Leaves(b, Broken, Cardinality({j \in DOMAIN r.search : r.search[j] = "flies"}), 0, 1)

\* With no answer about the company there is no briefing
SearchesEnd(b) ==
    LET r == briefs[b] IN
    /\ r.pc = "searching" /\ Range(r.search) \subseteq {"found", "failed"}
    /\ IF r.company > 0 /\ \A i \in 1 .. r.company : r.search[i] = "failed"
       THEN Leaves(b, Broken, 0, 0, 0)
       ELSE Goes(b, [r EXCEPT !.pc = "toRead"])

\* _read(): the pages of the organizer's links and the best answers, if there are any
ReadStarts(b) ==
    LET r == briefs[b] IN
    /\ r.pc = "toRead"
    /\ \/ Cardinality(DOMAIN r.search) < MaxExaCalls /\ Goes(b, [r EXCEPT !.pc = "reading", !.exa = @ + 1])
       \/ Goes(b, Calls(r, "writing"))

ReadEnds(b) ==
    LET r == briefs[b] IN
    /\ r.pc = "reading"
    /\ \/ \E trouble \in {0, 1} : Gives(b, Calls(r, "writing"), 1, 0, trouble) /\ UNCHANGED active
       \/ Leaves(b, Broken, 1, 0, 1)

-----------------------------------------------------------------------------
\* The report and its usage are saved together
SaveReport(b) ==
    /\ briefs[b].pc = "written"
    /\ Leaves(b, [briefs[b] EXCEPT !.pc = "saved"], 0, 0, 0)

ProcessEnds ==
    /\ active # {} /\ troubles < MaxTroubles /\ troubles' = troubles + 1
    /\ briefs' = [b \in Brief |-> IF briefs[b].pc \in Running THEN Broken ELSE briefs[b]]
    /\ active' = {}

ResearchInit == briefs = [b \in Brief |-> Unasked] /\ active = {} /\ troubles = 0

Searches(b) == \E i \in DOMAIN briefs[b].search :
    SearchStarts(b, i) \/ SearchFinds(b, i) \/ SearchSleeps(b, i) \/ SearchRetries(b, i) \/ SearchFails(b, i) \/ SearchDenied(b, i)

ResearchNext ==
    \/ \E b \in Brief, w \in Writer :
          \/ Refused(b, w)
          \/ \E research \in BOOLEAN, company \in {0, CompanyQueries}, people \in 0 .. Attendees :
                Generate(b, w, research, company, people)
    \/ \E b \in Brief :
          \/ ModelAnswers(b) \/ ModelMistakes(b) \/ ModelFails(b)
          \/ Searches(b) \/ SearchesEnd(b) \/ ReadStarts(b) \/ ReadEnds(b) \/ SaveReport(b)
    \/ ProcessEnds

-----------------------------------------------------------------------------
\* A saved briefing shows what it cost: every search and model call it made,
\* retries, failures and fall-backs included, each once and no other briefing's,
\* and it never made more than its budgets (MeetingPrepService._usage_totals,
\* PrepBusyError, MAX_EXA_CALLS); rows the database refused are the exception.
ReportShowsItsSpend ==
    \A b \in Brief : LET r == briefs[b] IN
       /\ r.pc = "saved" => r.shownExa + r.shownLlm + r.unlogged = r.exa + r.llm
       /\ r.exa <= MaxExaCalls /\ r.llm <= MaxLlmCalls * Most(r.profiles)
=============================================================================
