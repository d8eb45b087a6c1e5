-------------------------- MODULE WorkspaceProofs --------------------------
(***************************************************************************)
(* Proofs about the workspace, for any number of people, briefings, keys,   *)
(* cached events and minutes.                                               *)
(*                                                                         *)
(* Keys: what was read under the stamp a key still has is what the key      *)
(* holds, and stamps only grow.  Research: what the ledger shows plus the   *)
(* rows it lost plus the calls in the air are the calls that were made; a   *)
(* writer has one briefing under way, so no row is counted twice.           *)
(* Calendar: whatever is decided, re-keyed, forgotten or purged, a row with *)
(* a briefing stays or its briefing moves to another row.  Timer: once the  *)
(* heads-up of the cap is due, "Keep in call" is over and talk can only     *)
(* replace a leave for silence by the leave at the cap, once.  Access: a    *)
(* membership is dated by how many its person has had; a share bears the    *)
(* date its request began with, no later than the one its recipient was     *)
(* checked at, no later than now, so a share as young as the membership was *)
(* checked in it.  An e-mail that may have been taken has been tried; it is *)
(* leased again within the day only, and while it is being sent the day in  *)
(* which its key is known cannot end.                                       *)
(*                                                                         *)
(* Types and bounds: a request is begun by a deed and each membership but   *)
(* the first was one; an e-mail at its last attempt is not sent again; an   *)
(* event moves as often as it is shifted; the planned leave is no later     *)
(* than the cap or a silence and its margin from now; the joins a check     *)
(* rewrites are a fold over a set of rows, shown for whichever row is last. *)
(***************************************************************************)
EXTENDS MCWorkspace, FiniteSetTheorems, NaturalsInduction, WellFoundedInduction, TLAPS

-----------------------------------------------------------------------------
(***************************************************************************)
(* Keys and balances (ProviderKeys)                                        *)
(***************************************************************************)
ViewRow == [on : BOOLEAN, listed : SUBSET VaultKey, stale : SUBSET VaultKey,
            stamp : [VaultKey -> 0 .. MaxStamps], read : [VaultKey -> 0 .. MaxStamps]]
CacheRow == [on : BOOLEAN, stamp : 0 .. MaxStamps, of : 0 .. MaxStamps, fresh : BOOLEAN]

KeysTypes ==
    /\ keys \in [VaultKey -> KeyRow]
    /\ profileKeys \in [Profile -> VaultKey \cup {None}]
    /\ research \in ResearchKey /\ choosing \in ResearchKey
    /\ cache \in [VaultKey -> CacheRow]
    /\ signals \subseteq VaultKey
    /\ view \in ViewRow /\ view.stale \subseteq view.listed
    /\ stamps \in 0 .. MaxStamps

\* What was read under the stamp a key still has is what the key holds
ReadUnder(key, stamp, of) == stamp <= key.stamp /\ (stamp = key.stamp => of = key.secret)

KeysInv ==
    /\ KeysTypes
    /\ \A k \in VaultKey :
          /\ keys[k].stamp <= stamps
          /\ cache[k].on => ReadUnder(keys[k], cache[k].stamp, cache[k].of)
          /\ k \in view.stale =>
                /\ view.stamp[k] <= keys[k].stamp
                /\ view.read[k] # 0 => ReadUnder(keys[k], view.stamp[k], view.read[k])

\* Nothing is cached or seen at the beginning
LEMMA KeysBegin == KeysInit => KeysInv
  BY KeysAssumption DEF KeysInit, KeysInv, KeysTypes, KeyRow, ViewRow, CacheRow, ResearchKey, Uncached, NoView

\* Each operation on keys, balances and the overview keeps the invariant
LEMMA KeysStep == KeysInv /\ [KeysNext]_keysVars => KeysInv'
<1> SUFFICES ASSUME KeysInv, [KeysNext]_keysVars PROVE KeysInv'
    OBVIOUS
<1>2. ASSUME NEW k \in VaultKey, NEW rotate \in BOOLEAN, UpdateKey(k, rotate) PROVE KeysInv'
  <2>1. /\ keys \in [VaultKey -> KeyRow] /\ stamps \in 0 .. MaxStamps
        /\ keys' = [keys EXCEPT ![k].stamp = stamps', ![k].secret = IF rotate THEN stamps' ELSE @]
        /\ stamps' = stamps + 1 /\ stamps' \in 0 .. MaxStamps
        /\ UNCHANGED <<profileKeys, research, choosing, cache, signals, view>>
    BY <1>2, KeysAssumption DEF UpdateKey, Stamp, Elsewhere, KeysInv, KeysTypes
  <2>2. /\ keys' \in [VaultKey -> KeyRow]
        /\ keys'[k].secret = IF rotate THEN stamps' ELSE keys[k].secret
        /\ keys'[k].stamp = stamps'
        /\ \A n \in VaultKey \ {k} : keys'[n] = keys[n]
    BY <2>1 DEF KeyRow
  <2> QED
    BY <2>1, <2>2, KeysAssumption DEF KeysInv, KeysTypes, ReadUnder, KeyRow, ViewRow, CacheRow, ResearchKey
<1> USE KeysAssumption DEF KeysInv, KeysTypes, ReadUnder, KeyRow, ViewRow, CacheRow, ResearchKey
<1>1. ASSUME NEW k \in VaultKey, SaveKey(k) PROVE KeysInv'
  BY <1>1 DEF SaveKey, Stamp, Elsewhere
<1>3. ASSUME NEW k \in VaultKey, DeleteKey(k) PROVE KeysInv'
  BY <1>3 DEF DeleteKey, Elsewhere
<1>4. ASSUME NEW p \in Profile, NEW k \in VaultKey \cup {None}, LinkProfile(p, k) PROVE KeysInv'
  BY <1>4 DEF LinkProfile
<1>5. ASSUME NEW k \in VaultKey, ChooseResearch(k) PROVE KeysInv'
  BY <1>5 DEF ChooseResearch
<1>6. ASSUME NEW k \in VaultKey \cup {None}, WriteResearch(k) PROVE KeysInv'
  BY <1>6 DEF WriteResearch
<1>7. ASSUME NEW forced \in BOOLEAN, OverviewBegins(forced) PROVE KeysInv'
  <2> DEFINE listed == {n \in VaultKey : keys[n].on}
             stale == {n \in listed : NeedsCheck(n, forced)}
             ages == [n \in VaultKey |-> IF n \in listed THEN keys[n].stamp ELSE 0]
             unread == [n \in VaultKey |-> 0]
  <2>1. view' = [on |-> TRUE, listed |-> listed, stale |-> stale, stamp |-> ages, read |-> unread]
    BY <1>7 DEF OverviewBegins, NoView
  <2>2. /\ listed \subseteq VaultKey /\ stale \subseteq listed
        /\ ages \in [VaultKey -> 0 .. MaxStamps] /\ unread \in [VaultKey -> 0 .. MaxStamps]
    OBVIOUS
  <2>3. \A n \in stale : ages[n] = keys[n].stamp /\ unread[n] = 0
    OBVIOUS
  <2>4. UNCHANGED <<keys, profileKeys, research, choosing, cache, signals, stamps>>
    BY <1>7 DEF OverviewBegins
  <2> HIDE DEF listed, stale, ages, unread
  <2>5. view' \in ViewRow /\ view'.stale \subseteq view'.listed
    BY <2>1, <2>2
  <2> QED
    BY <2>1, <2>3, <2>4, <2>5
<1>8. ASSUME NEW k \in VaultKey, OverviewReads(k) PROVE KeysInv'
  BY <1>8 DEF OverviewReads
<1>9. CASE OverviewEnds
  BY <1>9 DEF OverviewEnds, ListedStamp, NoView
<1>10. ASSUME NEW k \in VaultKey, CallFindsNoCredit(k) PROVE KeysInv'
  BY <1>10 DEF CallFindsNoCredit, Uncached
<1>11. ASSUME NEW k \in VaultKey, ReadingAges(k) PROVE KeysInv'
  <2>1. /\ cache' = [cache EXCEPT ![k].fresh = FALSE]
        /\ UNCHANGED <<keys, profileKeys, research, choosing, signals, view, stamps>>
    BY <1>11 DEF ReadingAges
  <2>2. /\ cache' \in [VaultKey -> CacheRow]
        /\ \A n \in VaultKey : /\ cache'[n].on = cache[n].on /\ cache'[n].stamp = cache[n].stamp
                              /\ cache'[n].of = cache[n].of
    BY <2>1
  <2>3. KeysTypes'
    BY <2>1, <2>2 DEF KeyRow, ViewRow
  <2> QED  BY <2>1, <2>2, <2>3
<1>12. ASSUME NEW k \in VaultKey, SignalAges(k) PROVE KeysInv'
  BY <1>12 DEF SignalAges
<1>13. CASE KeysProcessEnds
  BY <1>13 DEF KeysProcessEnds, Uncached, NoView
<1>14. CASE UNCHANGED keysVars
  BY <1>14 DEF keysVars
<1> QED
  BY <1>1, <1>2, <1>3, <1>4, <1>5, <1>6, <1>7, <1>8, <1>9, <1>10, <1>11, <1>12, <1>13, <1>14 DEF KeysNext

\* The invariant gives the types and the property
LEMMA KeysInvSuffices == KeysInv => KeysTypeOK /\ ShownBalanceIsOfTheKey
  BY DEF KeysInv, KeysTypes, KeysTypeOK, ShownBalanceIsOfTheKey, NeedsCheck, ReadUnder, KeyRow, ViewRow, CacheRow

-----------------------------------------------------------------------------
(***************************************************************************)
(* Research (PrepResearch)                                                 *)
(***************************************************************************)
SearchState == {"waits", "flies", "sleeps", "found", "failed"}
Budgeted == {n \in 0 .. MaxExaCalls - 1 : n <= CompanyQueries + Attendees}
InState(f, S) == {j \in DOMAIN f : f[j] \in S}
Held == {"flies", "sleeps"}
Out == SearchState \ {"waits"}
SearchRow == UNION {[1 .. n -> SearchState] : n \in Budgeted}
TriedRow == UNION {[1 .. n -> 0 .. MaxRetries] : n \in Budgeted}
BriefRow ==
    [pc : {"idle", "saved", "failed"} \cup Running, by : Writer \cup {NoOne},
     search : SearchRow, tried : TriedRow,
     company : 0 .. CompanyQueries, profiles : 0 .. Providers, profile : Nat \ {0}, llmCalls : Nat, exa : Nat, llm : Nat,
     unlogged : Nat, shownExa : Nat, shownLlm : Nat]

\* Calls that were made and have not ended
InTheAir(r) == IF r.pc \in Asking \cup {"reading"} THEN 1
               ELSE IF r.pc = "searching" THEN Cardinality(Holding(r)) ELSE 0
Books(r) == r.shownExa + r.shownLlm + r.unlogged
\* n calls end with the step
Balances(r, n) == r.pc \in Running \cup {"saved"} => Books(r) + n + InTheAir(r) = r.exa + r.llm

Begun(r) == InState(r.search, Out)
ExaBudget(r) ==
    /\ r.exa <= MaxExaCalls
    /\ r.pc = "planning" => r.exa = 0 /\ \A i \in DOMAIN r.search : r.search[i] = "waits"
    /\ r.pc = "searching" => r.exa <= Cardinality(Begun(r))
    /\ r.pc = "toRead" => r.exa <= Cardinality(DOMAIN r.search)
LlmBudget(r) ==
    /\ r.profile <= Most(r.profiles) /\ r.llmCalls <= MaxLlmCalls
    /\ r.pc \in Asking => r.llmCalls > 0
    /\ r.pc \in {"planning", "searching", "toRead", "reading"} => r.llmCalls <= 1
    /\ r.llm <= r.llmCalls * Most(r.profiles)
    /\ r.pc \in Asking => r.llm <= r.llmCalls * Most(r.profiles) - Most(r.profiles) + r.profile

RowInv(r, n) == r \in BriefRow /\ Balances(r, n) /\ ExaBudget(r) /\ LlmBudget(r)

ResearchInv ==
    /\ briefs \in [Brief -> BriefRow] /\ active \subseteq Writer
    /\ \A b \in Brief : RowInv(briefs[b], 0)
    /\ \A b \in Brief : briefs[b].pc \in Running => briefs[b].by \in active
    /\ \A b, q \in Brief : briefs[b].pc \in Running /\ briefs[q].pc \in Running /\ briefs[b].by = briefs[q].by => b = q

-----------------------------------------------------------------------------
\* The smaller of two
LEMMA MinOfTwo ==
  ASSUME NEW m \in Int, NEW n \in Int
  PROVE  Min({m, n}) = IF m <= n THEN m ELSE n
  BY DEF Min

\* At least one profile is tried
LEMMA MostOf ==
  ASSUME NEW n \in Nat
  PROVE  Most(n) = IF n = 0 THEN 1 ELSE n
  BY DEF Most, Max

\* A product grows with its factors
LEMMA Times ==
  ASSUME NEW m \in Nat, NEW n \in Nat
  PROVE  /\ m * n \in Nat /\ (m + 1) * n = m * n + n
         /\ \A k \in Nat : m <= k => m * n <= k * n
         /\ \A k \in Nat : n <= k => m * n <= m * k
<1>1. m * n \in Nat /\ (m + 1) * n = m * n + n
  OBVIOUS
<1>2. ASSUME NEW k \in Nat, m <= k PROVE m * n <= k * n
  <2>1. PICK d \in Nat : k = m + d
    <3>1. k - m \in Nat /\ k = m + (k - m)
      BY <1>2
    <3> QED BY <3>1
  <2>2. k * n = m * n + d * n /\ d * n \in Nat
    BY <2>1
  <2> QED BY <2>2
<1>3. ASSUME NEW k \in Nat, n <= k PROVE m * n <= m * k
  <2>1. PICK d \in Nat : k = n + d
    <3>1. k - n \in Nat /\ k = n + (k - n)
      BY <1>3
    <3> QED BY <3>1
  <2>2. m * k = m * n + m * d /\ m * d \in Nat
    BY <2>1
  <2> QED BY <2>2
<1> QED BY <1>1, <1>2, <1>3

\* The searches in some states are finitely many, no more than there are
LEMMA SearchCounts ==
  ASSUME NEW n \in Nat, NEW f \in [1 .. n -> SearchState], NEW S \in SUBSET SearchState
  PROVE  /\ Cardinality(InState(f, S)) \in 0 .. n /\ IsFiniteSet(InState(f, S))
         /\ Cardinality(DOMAIN f) = n
<1>1. IsFiniteSet(1 .. n) /\ Cardinality(1 .. n) = n
  BY FS_Interval
<1>2. InState(f, S) \subseteq 1 .. n /\ DOMAIN f = 1 .. n
  BY DEF InState
<1>3. IsFiniteSet(InState(f, S)) /\ Cardinality(InState(f, S)) <= n
  BY <1>1, <1>2, FS_Subset
<1> QED BY <1>1, <1>2, <1>3, FS_CardinalityType

\* One search that moves changes the count of a set of states by what it leaves and enters
LEMMA SearchMoves ==
  ASSUME NEW n \in Nat, NEW f \in [1 .. n -> SearchState], NEW S \in SUBSET SearchState,
         NEW i \in 1 .. n, NEW v \in SearchState
  PROVE  Cardinality(InState([f EXCEPT ![i] = v], S)) =
             Cardinality(InState(f, S)) + (IF v \in S THEN 1 ELSE 0) - (IF f[i] \in S THEN 1 ELSE 0)
<1> DEFINE F == InState(f, S)
           G == InState([f EXCEPT ![i] = v], S)
<1>1. IsFiniteSet(F) /\ Cardinality(F) \in Nat
  BY SearchCounts
<1>2. G = IF v \in S THEN F \cup {i} ELSE F \ {i}
  BY DEF InState
<1>3. i \in F <=> f[i] \in S
  BY DEF InState
<1> HIDE DEF F, G
<1>4. Cardinality(F \cup {i}) = IF i \in F THEN Cardinality(F) ELSE Cardinality(F) + 1
  BY <1>1, FS_AddElement
<1>5. Cardinality(F \ {i}) = IF i \in F THEN Cardinality(F) - 1 ELSE Cardinality(F)
  BY <1>1, FS_RemoveElement
<1>6. Cardinality(G) = Cardinality(F) + (IF v \in S THEN 1 ELSE 0) - (IF i \in F THEN 1 ELSE 0)
  BY <1>1, <1>2, <1>4, <1>5
<1> QED BY <1>3, <1>6 DEF F, G

\* What Gives changes of a row beside the books
SameWork(r, row) ==
    /\ row.pc = r.pc /\ row.by = r.by /\ row.search = r.search /\ row.tried = r.tried /\ row.company = r.company
    /\ row.profiles = r.profiles /\ row.profile = r.profile /\ row.llmCalls = r.llmCalls
    /\ row.exa = r.exa /\ row.llm = r.llm

\* The ledger gains the calls that ended with a step, for this briefing and no other: nobody else
\* of this writer is under way
LEMMA BooksAreKept ==
  ASSUME ResearchInv, NEW b \in Brief, briefs[b].pc \in Running,
         NEW rec \in BriefRow, NEW exa \in Nat, NEW llm \in Nat, NEW trouble, Gives(b, rec, exa, llm, trouble)
  PROVE  \E row \in BriefRow : /\ SameWork(rec, row) /\ Books(row) = Books(rec) + exa + llm
                               /\ briefs' = [briefs EXCEPT ![b] = row]
<1> DEFINE Told(q, r) == IF Counts(q, briefs[b].by) THEN [r EXCEPT !.shownExa = @ + exa, !.shownLlm = @ + llm] ELSE r
<1>1. briefs \in [Brief -> BriefRow]
  BY DEF ResearchInv
<1>2. Counts(b, briefs[b].by) /\ \A q \in Brief \ {b} : ~Counts(q, briefs[b].by)
  BY DEF ResearchInv, Counts
<1>3. CASE briefs' = [q \in Brief |-> Told(q, IF q = b THEN rec ELSE briefs[q])]
  <2>1. PICK row : row = [rec EXCEPT !.shownExa = @ + exa, !.shownLlm = @ + llm]
    OBVIOUS
  <2>2. briefs' = [briefs EXCEPT ![b] = row]
    BY <1>1, <1>2, <1>3, <2>1
  <2>3. SameWork(rec, row)
    BY <2>1 DEF BriefRow, SameWork
  <2>4. row.shownExa = rec.shownExa + exa /\ row.shownLlm = rec.shownLlm + llm /\ row.unlogged = rec.unlogged
    BY <2>1 DEF BriefRow
  <2>5. {rec.shownExa, rec.shownLlm, rec.unlogged} \subseteq Nat
    BY DEF BriefRow
  <2>7. row \in BriefRow
    <3>1. rec.shownExa + exa \in Nat /\ rec.shownLlm + llm \in Nat
      BY <2>5
    <3> QED BY <2>1, <3>1 DEF BriefRow
  <2>6. Books(row) = Books(rec) + exa + llm
    BY <2>4, <2>5 DEF Books
  <2> QED BY <2>2, <2>3, <2>6, <2>7
<1>4. CASE briefs' = [q \in Brief |-> IF q = b THEN [rec EXCEPT !.unlogged = @ + exa + llm] ELSE briefs[q]]
  <2>1. PICK row : row = [rec EXCEPT !.unlogged = @ + exa + llm]
    OBVIOUS
  <2>2. briefs' = [briefs EXCEPT ![b] = row]
    BY <1>1, <1>4, <2>1
  <2>3. row \in BriefRow /\ SameWork(rec, row) /\ Books(row) = Books(rec) + exa + llm
    BY <2>1 DEF BriefRow, SameWork, Books
  <2> QED BY <2>2, <2>3
<1> QED BY <1>3, <1>4 DEF Gives

\* A step of one briefing keeps the invariant when the row it leaves behind balances with the
\* calls that ended
LEMMA WorkGoesOn ==
  ASSUME ResearchInv, NEW b \in Brief, briefs[b].pc \in Running,
         NEW rec \in BriefRow, NEW exa \in Nat, NEW llm \in Nat, NEW trouble, Gives(b, rec, exa, llm, trouble),
         RowInv(rec, exa + llm), rec.pc \in Running => rec.by = briefs[b].by,
         active' = active \/ (rec.pc \notin Running /\ active' = active \ {briefs[b].by})
  PROVE  ResearchInv'
<1>1. PICK row \in BriefRow : /\ SameWork(rec, row) /\ Books(row) = Books(rec) + exa + llm
                             /\ briefs' = [briefs EXCEPT ![b] = row]
  BY BooksAreKept
<1>2. RowInv(row, 0)
  <2>1. InTheAir(row) = InTheAir(rec) /\ Begun(row) = Begun(rec)
    BY <1>1 DEF SameWork, InTheAir, Holding, Begun, InState
  <2>2. Books(rec) \in Nat /\ Books(row) \in Nat
    BY <1>1 DEF BriefRow, Books
  <2>3. Balances(row, 0)
    BY <1>1, <2>1, <2>2 DEF SameWork, Balances, RowInv
  <2>4. ExaBudget(row) /\ LlmBudget(row)
    BY <1>1, <2>1 DEF SameWork, ExaBudget, LlmBudget, RowInv
  <2> QED BY <2>3, <2>4 DEF RowInv
<1>3. /\ row.pc = rec.pc /\ row.by = rec.by
  BY <1>1 DEF SameWork
<1>4. /\ briefs' \in [Brief -> BriefRow] /\ active' \subseteq Writer
      /\ \A q \in Brief : briefs'[q] = IF q = b THEN row ELSE briefs[q]
  BY <1>1 DEF ResearchInv
<1>5. \A q \in Brief : RowInv(briefs'[q], 0)
  BY <1>2, <1>4 DEF ResearchInv
<1>6. \A q \in Brief : briefs'[q].pc \in Running => briefs'[q].by \in active'
  BY <1>3, <1>4 DEF ResearchInv
<1>7. \A p, q \in Brief : briefs'[p].pc \in Running /\ briefs'[q].pc \in Running /\ briefs'[p].by = briefs'[q].by => p = q
  BY <1>3, <1>4 DEF ResearchInv
<1> QED BY <1>4, <1>5, <1>6, <1>7 DEF ResearchInv

\* A briefing that broke off owes nothing
LEMMA NothingLeft == Unasked \in BriefRow /\ \A n \in Nat : RowInv(Broken, n)
<1>1. <<>> \in SearchRow /\ <<>> \in TriedRow
  <2>1. 0 \in Budgeted
    BY ResearchAssumption DEF Budgeted
  <2>2. <<>> \in [1 .. 0 -> SearchState] /\ <<>> \in [1 .. 0 -> 0 .. MaxRetries]
    OBVIOUS
  <2> QED BY <2>1, <2>2 DEF SearchRow, TriedRow
<1>2. Unasked \in BriefRow /\ Broken \in BriefRow
  BY <1>1, ResearchAssumption DEF Unasked, Broken, BriefRow
<1>3. /\ Broken.pc = "failed" /\ Broken.exa = 0 /\ Broken.llm = 0 /\ Broken.llmCalls = 0
      /\ Broken.profiles = 0 /\ Broken.profile = 1
  BY DEF Broken, Unasked
<1>4. Most(0) = 1
  BY MostOf
<1>5. LlmBudget(Broken)
  BY <1>3, <1>4, ResearchAssumption DEF LlmBudget, Asking
<1>6. ExaBudget(Broken) /\ \A n \in Nat : Balances(Broken, n)
  BY <1>3, ResearchAssumption DEF ExaBudget, Balances, Running, Asking
<1> QED BY <1>2, <1>5, <1>6 DEF RowInv

\* A model call begins when all calls before it have ended
LEMMA CallBegins ==
  ASSUME NEW r \in BriefRow, NEW n \in Nat, NEW stage \in Asking,
         Books(r) + n = r.exa + r.llm, r.exa <= MaxExaCalls,
         stage = "planning" => r.exa = 0 /\ r.llmCalls = 0 /\ \A i \in DOMAIN r.search : r.search[i] = "waits",
         r.llmCalls < MaxLlmCalls, r.llm <= r.llmCalls * Most(r.profiles)
  PROVE  Calls(r, stage) \in BriefRow /\ RowInv(Calls(r, stage), n)
<1>1. PICK rec : rec = Calls(r, stage)
  OBVIOUS
<1>2. /\ rec.pc = stage /\ rec.search = r.search /\ rec.profiles = r.profiles /\ rec.profile = 1
      /\ rec.exa = r.exa /\ rec.llm = r.llm + 1 /\ rec.llmCalls = r.llmCalls + 1
      /\ rec.unlogged = r.unlogged /\ rec.shownExa = r.shownExa /\ rec.shownLlm = r.shownLlm
  BY <1>1 DEF Calls, BriefRow
<1>3. {r.exa, r.llm, r.llmCalls, r.unlogged, r.shownExa, r.shownLlm, r.profiles} \subseteq Nat
  BY ResearchAssumption DEF BriefRow
<1>4. rec \in BriefRow
  <2>1. r.llm + 1 \in Nat /\ r.llmCalls + 1 \in Nat /\ 1 \in Nat \ {0}
    BY <1>3
  <2> QED BY <1>1, <2>1 DEF Calls, BriefRow, Running
<1>5. Balances(rec, n)
  BY <1>2, <1>3 DEF Balances, Books, InTheAir
<1>6. ExaBudget(rec)
  BY <1>2 DEF ExaBudget, Asking
<1>7. LlmBudget(rec)
  <2>1. Most(r.profiles) \in Nat /\ Most(r.profiles) >= 1
    BY <1>3, MostOf
  <2>2. /\ r.llmCalls * Most(r.profiles) \in Nat
        /\ (r.llmCalls + 1) * Most(r.profiles) = r.llmCalls * Most(r.profiles) + Most(r.profiles)
    BY <1>3, <2>1, Times
  <2> QED BY <1>2, <1>3, <2>1, <2>2, ResearchAssumption DEF LlmBudget, Asking
<1> QED BY <1>1, <1>4, <1>5, <1>6, <1>7 DEF RowInv

\* One search moves on: the row of searches and its two counts
LEMMA SearchGoes ==
  ASSUME NEW r \in BriefRow, NEW i \in DOMAIN r.search, NEW v \in SearchState, NEW next, next = [r.search EXCEPT ![i] = v]
  PROVE  /\ next \in SearchRow /\ DOMAIN next = DOMAIN r.search /\ r.search[i] \in SearchState
         /\ Cardinality(InState(r.search, Held)) \in Nat /\ Cardinality(InState(r.search, Out)) \in Nat
         /\ Cardinality(InState(next, Held)) = Cardinality(InState(r.search, Held))
                + (IF v \in Held THEN 1 ELSE 0) - (IF r.search[i] \in Held THEN 1 ELSE 0)
         /\ Cardinality(InState(next, Out)) = Cardinality(InState(r.search, Out))
                + (IF v \in Out THEN 1 ELSE 0) - (IF r.search[i] \in Out THEN 1 ELSE 0)
         /\ Cardinality(InState(next, Out)) < MaxExaCalls
<1>1. PICK n \in Budgeted : r.search \in [1 .. n -> SearchState]
  BY DEF BriefRow, SearchRow
<1>2. n \in Nat /\ i \in 1 .. n
  BY <1>1, ResearchAssumption DEF Budgeted
<1>3. next \in [1 .. n -> SearchState] /\ DOMAIN next = DOMAIN r.search /\ r.search[i] \in SearchState
  BY <1>1, <1>2
<1>4. next \in SearchRow
  BY <1>1, <1>3 DEF SearchRow
<1>5. Held \in SUBSET SearchState /\ Out \in SUBSET SearchState
  BY DEF SearchState, Held, Out
<1>6. Cardinality(InState(r.search, Held)) \in Nat /\ Cardinality(InState(r.search, Out)) \in Nat
  BY <1>1, <1>2, <1>5, SearchCounts
<1>7. \A S \in {Held, Out} : Cardinality(InState(next, S)) = Cardinality(InState(r.search, S))
                + (IF v \in S THEN 1 ELSE 0) - (IF r.search[i] \in S THEN 1 ELSE 0)
  BY <1>1, <1>2, <1>5, SearchMoves
<1>8. Cardinality(InState(next, Out)) < MaxExaCalls
  <2>1. Cardinality(InState(next, Out)) \in 0 .. n
    BY <1>2, <1>3, <1>5, SearchCounts
  <2> QED BY <1>1, <2>1, ResearchAssumption DEF Budgeted
<1> QED BY <1>3, <1>4, <1>6, <1>7, <1>8

\* The numbers of a row
LEMMA RowNumbers ==
  ASSUME NEW r \in BriefRow
  PROVE  /\ {r.exa, r.llm, r.llmCalls, r.profile, r.profiles, r.unlogged, r.shownExa, r.shownLlm, Books(r)} \subseteq Nat
         /\ Most(r.profiles) \in Nat /\ Most(r.profiles) >= 1
         /\ r.llmCalls * Most(r.profiles) \in Nat
<1>1. {r.exa, r.llm, r.llmCalls, r.profile, r.profiles, r.unlogged, r.shownExa, r.shownLlm} \subseteq Nat
  BY ResearchAssumption DEF BriefRow
<1>2. Most(r.profiles) \in Nat /\ Most(r.profiles) >= 1
  BY <1>1, MostOf
<1>3. Books(r) \in Nat /\ r.llmCalls * Most(r.profiles) \in Nat
  BY <1>1, <1>2, Times DEF Books
<1> QED BY <1>1, <1>2, <1>3

\* With the plan, or without, the searches begin: none is in the air
LEMMA PlanEnds ==
  ASSUME NEW r \in BriefRow, RowInv(r, 0), r.pc = "planning"
  PROVE  AfterPlan(r) \in BriefRow /\ RowInv(AfterPlan(r), 1)
<1>1. PICK rec : rec = AfterPlan(r)
  OBVIOUS
<1>2. /\ rec.pc = "searching" /\ rec.search = r.search /\ rec.profiles = r.profiles /\ rec.profile = r.profile
      /\ rec.exa = r.exa /\ rec.llm = r.llm /\ rec.llmCalls = r.llmCalls
      /\ rec.unlogged = r.unlogged /\ rec.shownExa = r.shownExa /\ rec.shownLlm = r.shownLlm
  BY <1>1 DEF AfterPlan, BriefRow
<1>3. rec \in BriefRow
  BY <1>1 DEF AfterPlan, BriefRow, Running
<1>4. r.exa = 0 /\ Holding(rec) = {} /\ Begun(rec) = {}
  BY <1>2 DEF RowInv, ExaBudget, Holding, Begun, InState, Out
<1>5. Balances(rec, 1)
  BY <1>2, <1>4, RowNumbers, FS_EmptySet DEF RowInv, Balances, Books, InTheAir, Running, Asking
<1>6. ExaBudget(rec)
  BY <1>2, <1>4, FS_EmptySet, ResearchAssumption DEF ExaBudget
<1>7. LlmBudget(rec)
  BY <1>2, RowNumbers DEF RowInv, LlmBudget, Asking
<1> QED BY <1>1, <1>3, <1>5, <1>6, <1>7 DEF RowInv

\* How many profiles can be tried is known with the first failure, and only widens the budget
LEMMA ProfilesChosen ==
  ASSUME NEW r \in BriefRow, RowInv(r, 0), NEW n \in 1 .. Providers, r.profiles \in {0, n}
  PROVE  RowInv([r EXCEPT !.profiles = n], 0)
<1>1. PICK rec : rec = [r EXCEPT !.profiles = n]
  OBVIOUS
<1>2. /\ rec.pc = r.pc /\ rec.search = r.search /\ rec.profiles = n /\ rec.profile = r.profile
      /\ rec.exa = r.exa /\ rec.llm = r.llm /\ rec.llmCalls = r.llmCalls
      /\ rec.unlogged = r.unlogged /\ rec.shownExa = r.shownExa /\ rec.shownLlm = r.shownLlm
  BY <1>1 DEF BriefRow
<1>3. rec \in BriefRow
  BY <1>1, ResearchAssumption DEF BriefRow
<1>4. Balances(rec, 0) /\ ExaBudget(rec)
  BY <1>2 DEF RowInv, Balances, Books, InTheAir, Holding, ExaBudget, Begun
<1>5. LlmBudget(rec)
  <2>1. CASE r.profiles = n
    BY <1>2, <2>1 DEF RowInv, LlmBudget
  <2>2. CASE r.profiles = 0
    <3>1. Most(r.profiles) = 1 /\ Most(n) = n /\ n \in Nat /\ n >= 1
      BY <2>2, MostOf, ResearchAssumption
    <3>2. /\ r.llmCalls \in Nat /\ r.llm \in Nat /\ r.profile \in Nat
          /\ r.llm <= r.llmCalls /\ r.profile <= 1 /\ r.llmCalls <= MaxLlmCalls
          /\ r.pc \in Asking => r.llmCalls > 0 /\ r.llm <= r.llmCalls - 1 + r.profile
          /\ r.pc \in {"planning", "searching", "toRead", "reading"} => r.llmCalls <= 1
      BY <3>1, RowNumbers DEF RowInv, LlmBudget
    <3>3. r.llmCalls * n \in Nat /\ r.llmCalls <= r.llmCalls * n
      <4>1. r.llmCalls * 1 <= r.llmCalls * n
        BY <3>1, <3>2, Times
      <4> QED BY <3>1, <3>2, <4>1
    <3>4. r.llmCalls > 0 => r.llmCalls - 1 <= r.llmCalls * n - n
      <4> SUFFICES ASSUME r.llmCalls > 0 PROVE r.llmCalls - 1 <= r.llmCalls * n - n
        OBVIOUS
      <4>1. PICK m \in Nat : r.llmCalls = m + 1
        <5>1. r.llmCalls - 1 \in Nat /\ r.llmCalls = (r.llmCalls - 1) + 1
          BY <3>2
        <5> QED BY <5>1
      <4>2. m * 1 <= m * n /\ m * n \in Nat /\ (m + 1) * n = m * n + n
        BY <3>1, Times
      <4> QED BY <3>1, <4>1, <4>2
    <3> QED BY <1>2, <3>1, <3>2, <3>3, <3>4 DEF LlmBudget
  <2> QED BY <2>1, <2>2
<1> QED BY <1>1, <1>3, <1>4, <1>5 DEF RowInv

\* The last model call ends
LEMMA CallEnds ==
  ASSUME NEW r \in BriefRow, RowInv(r, 0), r.pc \in {"writing", "repairing"}
  PROVE  RowInv([r EXCEPT !.pc = "written"], 1)
<1>1. PICK rec : rec = [r EXCEPT !.pc = "written"]
  OBVIOUS
<1>2. /\ rec.pc = "written" /\ rec.profiles = r.profiles /\ rec.profile = r.profile
      /\ rec.exa = r.exa /\ rec.llm = r.llm /\ rec.llmCalls = r.llmCalls
      /\ rec.unlogged = r.unlogged /\ rec.shownExa = r.shownExa /\ rec.shownLlm = r.shownLlm
  BY <1>1 DEF BriefRow
<1>3. rec \in BriefRow
  BY <1>1 DEF BriefRow, Running
<1>4. Balances(rec, 1)
  BY <1>2, RowNumbers DEF RowInv, Balances, Books, InTheAir, Running, Asking
<1>5. ExaBudget(rec) /\ LlmBudget(rec)
  BY <1>2, RowNumbers DEF RowInv, ExaBudget, LlmBudget, Asking
<1> QED BY <1>1, <1>3, <1>4, <1>5 DEF RowInv

\* A failed call is booked and the next profile tried within the budget of the same call
LEMMA NextProfile ==
  ASSUME NEW r \in BriefRow, RowInv(r, 0), r.pc \in Asking, r.profiles > 0, r.profile < r.profiles
  PROVE  RowInv([r EXCEPT !.profile = @ + 1, !.llm = @ + 1], 1)
<1>1. PICK rec : rec = [r EXCEPT !.profile = @ + 1, !.llm = @ + 1]
  OBVIOUS
<1>2. /\ rec.pc = r.pc /\ rec.search = r.search /\ rec.profiles = r.profiles /\ rec.profile = r.profile + 1
      /\ rec.exa = r.exa /\ rec.llm = r.llm + 1 /\ rec.llmCalls = r.llmCalls
      /\ rec.unlogged = r.unlogged /\ rec.shownExa = r.shownExa /\ rec.shownLlm = r.shownLlm
  BY <1>1 DEF BriefRow
<1>3. rec \in BriefRow
  <2>1. r.profile + 1 \in Nat \ {0} /\ r.llm + 1 \in Nat
    BY RowNumbers
  <2> QED BY <1>1, <2>1 DEF BriefRow
<1>4. Balances(rec, 1)
  BY <1>2, RowNumbers DEF RowInv, Balances, Books, InTheAir, Running
<1>5. ExaBudget(rec)
  BY <1>2 DEF RowInv, ExaBudget, Asking, Begun
<1>6. Most(r.profiles) = r.profiles
  BY RowNumbers, MostOf
<1>7. LlmBudget(rec)
  BY <1>2, <1>6, RowNumbers DEF RowInv, LlmBudget
<1> QED BY <1>1, <1>3, <1>4, <1>5, <1>7 DEF RowInv

\* Which states hold a place in the semaphore, and which mean that a call was made
LEMMA StatesOfASearch ==
    /\ SearchState = {"waits", "flies", "sleeps", "found", "failed"}
    /\ "waits" \notin Out /\ {"flies", "sleeps", "found", "failed"} \subseteq Out
    /\ {"flies", "sleeps"} \subseteq Held /\ \A v \in {"waits", "found", "failed"} : v \notin Held
  BY DEF SearchState, Out, Held

\* The five moves of a search keep the books balanced and the budget of searches
LEMMA SearchSteps ==
  ASSUME NEW r \in BriefRow, RowInv(r, 0), r.pc = "searching", NEW i \in DOMAIN r.search, NEW v \in SearchState,
         NEW n \in {0, 1}, NEW d \in {0, 1}, NEW rec \in BriefRow,
         rec.pc = r.pc, rec.search = [r.search EXCEPT ![i] = v], rec.profiles = r.profiles, rec.profile = r.profile,
         rec.exa = r.exa + d, rec.llm = r.llm, rec.llmCalls = r.llmCalls,
         rec.unlogged = r.unlogged, rec.shownExa = r.shownExa, rec.shownLlm = r.shownLlm,
         <<r.search[i], v, n, d>> \in {<<"waits", "flies", 0, 1>>, <<"flies", "found", 1, 0>>, <<"flies", "failed", 1, 0>>,
                                       <<"flies", "sleeps", 0, 0>>, <<"sleeps", "flies", 0, 0>>}
  PROVE  RowInv(rec, n)
<1>1. /\ Cardinality(InState(r.search, Held)) \in Nat /\ Cardinality(InState(r.search, Out)) \in Nat
      /\ Cardinality(InState(rec.search, Held)) + n = Cardinality(InState(r.search, Held)) + d
      /\ Cardinality(InState(rec.search, Out)) = Cardinality(InState(r.search, Out)) + d
      /\ Cardinality(InState(rec.search, Out)) < MaxExaCalls
      /\ Cardinality(InState(rec.search, Held)) \in Int
  <2>1. PICK next : next = rec.search
    OBVIOUS
  <2>2. /\ Cardinality(InState(r.search, Held)) \in Nat /\ Cardinality(InState(r.search, Out)) \in Nat
        /\ Cardinality(InState(next, Held)) = Cardinality(InState(r.search, Held))
               + (IF v \in Held THEN 1 ELSE 0) - (IF r.search[i] \in Held THEN 1 ELSE 0)
        /\ Cardinality(InState(next, Out)) = Cardinality(InState(r.search, Out))
               + (IF v \in Out THEN 1 ELSE 0) - (IF r.search[i] \in Out THEN 1 ELSE 0)
        /\ Cardinality(InState(next, Out)) < MaxExaCalls
    <3>1. next = [r.search EXCEPT ![i] = v]
      BY <2>1
    <3> QED BY <3>1, SearchGoes
  <2>3. /\ d = (IF v \in Out THEN 1 ELSE 0) - (IF r.search[i] \in Out THEN 1 ELSE 0)
        /\ d = n + (IF v \in Held THEN 1 ELSE 0) - (IF r.search[i] \in Held THEN 1 ELSE 0)
    BY StatesOfASearch
  <2> QED BY <2>1, <2>2, <2>3
<1>2. Holding(rec) = InState(rec.search, Held) /\ Holding(r) = InState(r.search, Held)
  BY DEF Holding, InState, Held
<1>3. Balances(rec, n)
  <2>1. InTheAir(r) = Cardinality(InState(r.search, Held)) /\ InTheAir(rec) = Cardinality(InState(rec.search, Held))
    BY <1>2 DEF InTheAir, Asking
  <2>2. Books(r) + InTheAir(r) = r.exa + r.llm
    BY <1>1, <2>1, RowNumbers DEF RowInv, Balances, Running
  <2>3. Books(rec) = Books(r) /\ Books(r) \in Nat /\ r.exa \in Nat /\ r.llm \in Nat
    BY RowNumbers DEF Books
  <2>4. Books(rec) + n + InTheAir(rec) = rec.exa + rec.llm
    BY <1>1, <2>1, <2>2, <2>3
  <2> QED BY <2>4 DEF Balances
<1>4. ExaBudget(rec)
  BY <1>1, RowNumbers, ResearchAssumption DEF RowInv, ExaBudget, Begun
<1>5. LlmBudget(rec)
  BY DEF RowInv, LlmBudget
<1> QED BY <1>3, <1>4, <1>5 DEF RowInv

\* When every search has ended nothing is in the air, and one call of the budget is left
LEMMA SearchEnds ==
  ASSUME NEW r \in BriefRow, RowInv(r, 0), r.pc = "searching", Range(r.search) \subseteq {"found", "failed"}
  PROVE  RowInv([r EXCEPT !.pc = "toRead"], 0)
<1>1. PICK rec : rec = [r EXCEPT !.pc = "toRead"]
  OBVIOUS
<1>2. /\ rec.pc = "toRead" /\ rec.search = r.search /\ rec.profiles = r.profiles /\ rec.profile = r.profile
      /\ rec.exa = r.exa /\ rec.llm = r.llm /\ rec.llmCalls = r.llmCalls
      /\ rec.unlogged = r.unlogged /\ rec.shownExa = r.shownExa /\ rec.shownLlm = r.shownLlm
  BY <1>1 DEF BriefRow
<1>3. rec \in BriefRow
  BY <1>1 DEF BriefRow, Running
<1>4. Holding(r) = {}
  BY DEF Holding, Range
<1>5. Balances(rec, 0)
  BY <1>2, <1>4, RowNumbers, FS_EmptySet DEF RowInv, Balances, Books, InTheAir, Running, Asking
<1>6. ExaBudget(rec)
  <2>1. PICK n \in Budgeted : r.search \in [1 .. n -> SearchState]
    BY DEF BriefRow, SearchRow
  <2>2. n \in Nat /\ Out \in SUBSET SearchState
    BY <2>1, ResearchAssumption DEF Budgeted, Out
  <2>3. Cardinality(InState(r.search, Out)) \in 0 .. n /\ Cardinality(DOMAIN r.search) = n
    BY <2>1, <2>2, SearchCounts
  <2> QED BY <1>2, <2>2, <2>3, RowNumbers DEF RowInv, ExaBudget, Begun
<1>7. LlmBudget(rec)
  BY <1>2 DEF RowInv, LlmBudget, Asking
<1> QED BY <1>1, <1>3, <1>5, <1>6, <1>7 DEF RowInv

\* Reading pages is the call that was kept
LEMMA ReadBegins ==
  ASSUME NEW r \in BriefRow, RowInv(r, 0), r.pc = "toRead", Cardinality(DOMAIN r.search) < MaxExaCalls
  PROVE  RowInv([r EXCEPT !.pc = "reading", !.exa = @ + 1], 0)
<1>1. PICK rec : rec = [r EXCEPT !.pc = "reading", !.exa = @ + 1]
  OBVIOUS
<1>2. /\ rec.pc = "reading" /\ rec.profiles = r.profiles /\ rec.profile = r.profile
      /\ rec.exa = r.exa + 1 /\ rec.llm = r.llm /\ rec.llmCalls = r.llmCalls
      /\ rec.unlogged = r.unlogged /\ rec.shownExa = r.shownExa /\ rec.shownLlm = r.shownLlm
  BY <1>1 DEF BriefRow
<1>3. rec \in BriefRow
  <2>1. r.exa + 1 \in Nat
    BY RowNumbers
  <2> QED BY <1>1, <2>1 DEF BriefRow, Running
<1>4. Balances(rec, 0)
  BY <1>2, RowNumbers DEF RowInv, Balances, Books, InTheAir, Running, Asking
<1>5. ExaBudget(rec)
  <2>1. PICK n \in Budgeted : r.search \in [1 .. n -> SearchState]
    BY DEF BriefRow, SearchRow
  <2>2. n \in Nat /\ {} \in SUBSET SearchState
    BY <2>1, ResearchAssumption DEF Budgeted
  <2>3. Cardinality(DOMAIN r.search) \in Nat
    BY <2>1, <2>2, SearchCounts
  <2> QED BY <1>2, <2>3, RowNumbers, ResearchAssumption DEF RowInv, ExaBudget
<1>6. LlmBudget(rec)
  BY <1>2 DEF RowInv, LlmBudget, Asking
<1> QED BY <1>1, <1>3, <1>4, <1>5, <1>6 DEF RowInv

\* A briefing begins for a writer that has none under way
LEMMA BriefBegins ==
  ASSUME ResearchInv, NEW b \in Brief, briefs[b].pc = "idle", NEW w \in Writer, w \notin active,
         NEW rec \in BriefRow, RowInv(rec, 0), rec.by = w,
         briefs' = [briefs EXCEPT ![b] = rec], active' = active \cup {w}
  PROVE  ResearchInv'
<1>1. /\ briefs' \in [Brief -> BriefRow] /\ active' \subseteq Writer
      /\ \A q \in Brief : briefs'[q] = IF q = b THEN rec ELSE briefs[q]
  BY DEF ResearchInv
<1>2. \A q \in Brief : RowInv(briefs'[q], 0)
  BY <1>1 DEF ResearchInv
<1>3. \A q \in Brief : briefs'[q].pc \in Running => briefs'[q].by \in active'
  BY <1>1 DEF ResearchInv
<1>4. \A p, q \in Brief : briefs'[p].pc \in Running /\ briefs'[q].pc \in Running /\ briefs'[p].by = briefs'[q].by => p = q
  BY <1>1 DEF ResearchInv
<1> QED BY <1>1, <1>2, <1>3, <1>4 DEF ResearchInv

\* generate() reserves no more searches than the budget allows
LEMMA GenerateKeeps ==
  ASSUME ResearchInv, NEW b \in Brief, NEW w \in Writer, NEW paid \in BOOLEAN,
         NEW company \in {0, CompanyQueries}, NEW people \in 0 .. Attendees, Generate(b, w, paid, company, people)
  PROVE  ResearchInv'
<1> DEFINE queries == 1 .. ForCompany(company) + ForPeople(company, people)
           waiting == [i \in queries |-> "waits"]
           untried == [i \in queries |-> 0]
<1>1. /\ ForCompany(company) \in 0 .. CompanyQueries
      /\ ForCompany(company) + ForPeople(company, people) \in Budgeted
  <2>1. /\ company \in Nat /\ company <= CompanyQueries /\ people \in Nat /\ people <= Attendees
        /\ Reserved \in Nat /\ CompanyQueries \in Nat /\ Attendees \in Nat
        /\ \A n \in Nat : n <= Reserved /\ n <= CompanyQueries + Attendees => n \in Budgeted
    BY ResearchAssumption DEF Reserved, Budgeted
  <2>2. ForCompany(company) \in Nat /\ ForCompany(company) <= Reserved /\ ForCompany(company) <= CompanyQueries
    BY <2>1, MinOfTwo DEF ForCompany
  <2>3. /\ ForPeople(company, people) \in Nat /\ ForPeople(company, people) <= Reserved - ForCompany(company)
        /\ ForPeople(company, people) <= Attendees
    <3>1. Reserved - ForCompany(company) \in Nat
      BY <2>1, <2>2
    <3> QED BY <2>1, <3>1, MinOfTwo DEF ForPeople
  <2> QED BY <2>1, <2>2, <2>3
<1>2. waiting \in SearchRow /\ untried \in TriedRow
  <2>1. waiting \in [queries -> SearchState] /\ untried \in [queries -> 0 .. MaxRetries]
    BY ResearchAssumption DEF SearchState
  <2> QED BY <1>1, <2>1 DEF SearchRow, TriedRow
<1>3. briefs[b].pc = "idle" /\ w \notin active
  BY DEF Generate, Comes, NotBusy
<1>4. PICK r : r = [Unasked EXCEPT !.by = w, !.company = ForCompany(company), !.search = waiting, !.tried = untried]
  OBVIOUS
<1>5. PICK plain : plain = [r EXCEPT !.search = <<>>, !.tried = <<>>]
  OBVIOUS
<1>6. /\ briefs' = [briefs EXCEPT ![b] = IF paid /\ company + people > 0 THEN Calls(r, "planning") ELSE Calls(plain, "writing")]
      /\ active' = active \cup {w}
  BY <1>4, <1>5 DEF Generate
<1> HIDE DEF queries
<1>7. /\ r \in BriefRow /\ r.search = waiting /\ r.by = w
      /\ r.exa = 0 /\ r.llm = 0 /\ r.llmCalls = 0 /\ r.unlogged = 0 /\ r.shownExa = 0 /\ r.shownLlm = 0 /\ r.profiles = 0
  <2> HIDE DEF waiting, untried
  <2>1. r \in BriefRow /\ r.search = waiting /\ r.by = w
    BY <1>1, <1>2, <1>4, NothingLeft DEF BriefRow
  <2>2. /\ r.exa = 0 /\ r.llm = 0 /\ r.llmCalls = 0 /\ r.unlogged = 0 /\ r.shownExa = 0 /\ r.shownLlm = 0 /\ r.profiles = 0
    BY <1>4 DEF Unasked
  <2> QED BY <2>1, <2>2
<1>8. /\ plain \in BriefRow /\ plain.by = w
      /\ plain.exa = 0 /\ plain.llm = 0 /\ plain.llmCalls = 0 /\ plain.unlogged = 0 /\ plain.shownExa = 0 /\ plain.shownLlm = 0
      /\ plain.profiles = 0
  <2>1. Unasked.search = <<>> /\ Unasked.tried = <<>>
    BY DEF Unasked
  <2>2. <<>> \in SearchRow /\ <<>> \in TriedRow
    BY <2>1, NothingLeft DEF BriefRow
  <2> QED BY <1>5, <1>7, <2>2 DEF BriefRow
<1>9. Most(0) = 1 /\ 0 < MaxLlmCalls /\ 0 <= MaxExaCalls
  BY MostOf, ResearchAssumption
<1>10. CASE paid /\ company + people > 0
  <2>1. RowInv(Calls(r, "planning"), 0) /\ Calls(r, "planning") \in BriefRow
    BY <1>7, <1>9, CallBegins DEF Books, Asking
  <2>2. Calls(r, "planning").by = w
    BY <1>7 DEF Calls, BriefRow
  <2> QED BY <1>3, <1>6, <1>10, <2>1, <2>2, BriefBegins
<1>11. CASE ~(paid /\ company + people > 0)
  <2>1. RowInv(Calls(plain, "writing"), 0) /\ Calls(plain, "writing") \in BriefRow
    BY <1>8, <1>9, CallBegins DEF Books, Asking
  <2>2. Calls(plain, "writing").by = w
    BY <1>8 DEF Calls, BriefRow
  <2> QED BY <1>3, <1>6, <1>11, <2>1, <2>2, BriefBegins
<1> QED BY <1>10, <1>11

\* One more attempt
LEMMA TriedAgain ==
  ASSUME NEW f \in TriedRow, NEW i, f[i] < MaxRetries
  PROVE  [f EXCEPT ![i] = @ + 1] \in TriedRow
<1>1. PICK n \in Budgeted : f \in [1 .. n -> 0 .. MaxRetries]
  BY DEF TriedRow
<1>2. CASE i \in 1 .. n
  <2>1. f[i] + 1 \in 0 .. MaxRetries
    BY <1>1, <1>2, ResearchAssumption
  <2>2. [f EXCEPT ![i] = @ + 1] \in [1 .. n -> 0 .. MaxRetries]
    BY <1>1, <2>1
  <2> QED BY <2>2 DEF TriedRow
<1>3. CASE i \notin 1 .. n
  BY <1>1, <1>3
<1> QED BY <1>2, <1>3

\* Steps of the searches
LEMMA SearchesKeep ==
  ASSUME ResearchInv, NEW b \in Brief, NEW i \in DOMAIN briefs[b].search,
         SearchStarts(b, i) \/ SearchFinds(b, i) \/ SearchSleeps(b, i) \/ SearchRetries(b, i) \/ SearchFails(b, i) \/ SearchDenied(b, i)
  PROVE  ResearchInv'
<1>1. PICK r : r = briefs[b]
  OBVIOUS
<1>2. r \in BriefRow /\ RowInv(r, 0) /\ r.pc = "searching"
  BY <1>1 DEF ResearchInv, SearchStarts, SearchFinds, SearchSleeps, SearchRetries, SearchFails, SearchDenied
<1>3. i \in DOMAIN r.search /\ briefs[b].pc \in Running
  BY <1>1, <1>2 DEF Running
<1>4. ASSUME NEW v \in SearchState PROVE [r.search EXCEPT ![i] = v] \in SearchRow
  BY <1>2, <1>3, SearchGoes
<1>5. CASE SearchStarts(b, i)
  <2>1. PICK rec : rec = [r EXCEPT !.search[i] = "flies", !.exa = @ + 1]
    OBVIOUS
  <2>2. r.search[i] = "waits" /\ (\E trouble \in {0, 1} : Gives(b, rec, 0, 0, trouble)) /\ active' = active
    BY <1>1, <1>5, <2>1 DEF SearchStarts, Goes
  <2>3. /\ rec.search = [r.search EXCEPT ![i] = "flies"] /\ rec.exa = r.exa + 1
        /\ rec.pc = r.pc /\ rec.by = r.by /\ rec.profiles = r.profiles /\ rec.profile = r.profile
        /\ rec.llm = r.llm /\ rec.llmCalls = r.llmCalls
        /\ rec.unlogged = r.unlogged /\ rec.shownExa = r.shownExa /\ rec.shownLlm = r.shownLlm
    BY <1>2, <2>1 DEF BriefRow
  <2>4. rec \in BriefRow
    <3>1. [r.search EXCEPT ![i] = "flies"] \in SearchRow /\ r.exa + 1 \in Nat
      BY <1>2, <1>4, RowNumbers DEF SearchState
    <3> QED BY <1>2, <2>1, <3>1 DEF BriefRow
  <2>5. RowInv(rec, 0)
    <3>1. rec.exa = r.exa + 1
      BY <1>2, <2>3, RowNumbers
    <3> QED BY <1>2, <1>3, <2>2, <2>3, <2>4, <3>1, SearchSteps DEF SearchState
  <2> QED BY <1>1, <1>3, <2>2, <2>3, <2>4, <2>5, WorkGoesOn
<1>6. CASE SearchFinds(b, i)
  <2>1. PICK rec : rec = [r EXCEPT !.search[i] = "found"]
    OBVIOUS
  <2>2. r.search[i] = "flies" /\ (\E trouble \in {0, 1} : Gives(b, rec, 1, 0, trouble)) /\ active' = active
    BY <1>1, <1>6, <2>1 DEF SearchFinds, Goes
  <2>3. /\ rec.search = [r.search EXCEPT ![i] = "found"] /\ rec.exa = r.exa
        /\ rec.pc = r.pc /\ rec.by = r.by /\ rec.profiles = r.profiles /\ rec.profile = r.profile
        /\ rec.llm = r.llm /\ rec.llmCalls = r.llmCalls
        /\ rec.unlogged = r.unlogged /\ rec.shownExa = r.shownExa /\ rec.shownLlm = r.shownLlm
    BY <1>2, <2>1 DEF BriefRow
  <2>4. rec \in BriefRow
    <3>1. [r.search EXCEPT ![i] = "found"] \in SearchRow /\ r.exa + 1 \in Nat
      BY <1>2, <1>4, RowNumbers DEF SearchState
    <3> QED BY <1>2, <2>1, <3>1 DEF BriefRow
  <2>5. RowInv(rec, 1)
    <3>1. rec.exa = r.exa + 0
      BY <1>2, <2>3, RowNumbers
    <3> QED BY <1>2, <1>3, <2>2, <2>3, <2>4, <3>1, SearchSteps DEF SearchState
  <2> QED BY <1>1, <1>3, <2>2, <2>3, <2>4, <2>5, WorkGoesOn
<1>7. CASE SearchSleeps(b, i)
  <2>1. PICK rec : rec = [r EXCEPT !.search[i] = "sleeps", !.tried[i] = @ + 1]
    OBVIOUS
  <2>2. r.search[i] = "flies" /\ (\E trouble \in {0, 1} : Gives(b, rec, 0, 0, trouble)) /\ active' = active
    BY <1>1, <1>7, <2>1 DEF SearchSleeps, Goes
  <2>3. /\ rec.search = [r.search EXCEPT ![i] = "sleeps"] /\ rec.exa = r.exa
        /\ rec.pc = r.pc /\ rec.by = r.by /\ rec.profiles = r.profiles /\ rec.profile = r.profile
        /\ rec.llm = r.llm /\ rec.llmCalls = r.llmCalls
        /\ rec.unlogged = r.unlogged /\ rec.shownExa = r.shownExa /\ rec.shownLlm = r.shownLlm
    BY <1>2, <2>1 DEF BriefRow
  <2>4. rec \in BriefRow
    <3>1. [r.search EXCEPT ![i] = "sleeps"] \in SearchRow /\ r.exa + 1 \in Nat
      BY <1>2, <1>4, RowNumbers DEF SearchState
    <3>2. [r.tried EXCEPT ![i] = @ + 1] \in TriedRow
      <4>1. r.tried \in TriedRow /\ r.tried[i] < MaxRetries
        BY <1>1, <1>2, <1>7 DEF BriefRow, SearchSleeps
      <4> QED BY <4>1, TriedAgain
    <3> QED BY <1>2, <2>1, <3>1, <3>2 DEF BriefRow
  <2>5. RowInv(rec, 0)
    <3>1. rec.exa = r.exa + 0
      BY <1>2, <2>3, RowNumbers
    <3> QED BY <1>2, <1>3, <2>2, <2>3, <2>4, <3>1, SearchSteps DEF SearchState
  <2> QED BY <1>1, <1>3, <2>2, <2>3, <2>4, <2>5, WorkGoesOn
<1>8. CASE SearchRetries(b, i)
  <2>1. PICK rec : rec = [r EXCEPT !.search[i] = "flies"]
    OBVIOUS
  <2>2. r.search[i] = "sleeps" /\ (\E trouble \in {0, 1} : Gives(b, rec, 0, 0, trouble)) /\ active' = active
    BY <1>1, <1>8, <2>1 DEF SearchRetries, Goes
  <2>3. /\ rec.search = [r.search EXCEPT ![i] = "flies"] /\ rec.exa = r.exa
        /\ rec.pc = r.pc /\ rec.by = r.by /\ rec.profiles = r.profiles /\ rec.profile = r.profile
        /\ rec.llm = r.llm /\ rec.llmCalls = r.llmCalls
        /\ rec.unlogged = r.unlogged /\ rec.shownExa = r.shownExa /\ rec.shownLlm = r.shownLlm
    BY <1>2, <2>1 DEF BriefRow
  <2>4. rec \in BriefRow
    <3>1. [r.search EXCEPT ![i] = "flies"] \in SearchRow /\ r.exa + 1 \in Nat
      BY <1>2, <1>4, RowNumbers DEF SearchState
    <3> QED BY <1>2, <2>1, <3>1 DEF BriefRow
  <2>5. RowInv(rec, 0)
    <3>1. rec.exa = r.exa + 0
      BY <1>2, <2>3, RowNumbers
    <3> QED BY <1>2, <1>3, <2>2, <2>3, <2>4, <3>1, SearchSteps DEF SearchState
  <2> QED BY <1>1, <1>3, <2>2, <2>3, <2>4, <2>5, WorkGoesOn
<1>9. CASE SearchFails(b, i)
  <2>1. PICK rec : rec = [r EXCEPT !.search[i] = "failed"]
    OBVIOUS
  <2>2. r.search[i] = "flies" /\ (\E trouble \in {0, 1} : Gives(b, rec, 1, 0, trouble)) /\ active' = active
    BY <1>1, <1>9, <2>1 DEF SearchFails, Goes
  <2>3. /\ rec.search = [r.search EXCEPT ![i] = "failed"] /\ rec.exa = r.exa
        /\ rec.pc = r.pc /\ rec.by = r.by /\ rec.profiles = r.profiles /\ rec.profile = r.profile
        /\ rec.llm = r.llm /\ rec.llmCalls = r.llmCalls
        /\ rec.unlogged = r.unlogged /\ rec.shownExa = r.shownExa /\ rec.shownLlm = r.shownLlm
    BY <1>2, <2>1 DEF BriefRow
  <2>4. rec \in BriefRow
    <3>1. [r.search EXCEPT ![i] = "failed"] \in SearchRow /\ r.exa + 1 \in Nat
      BY <1>2, <1>4, RowNumbers DEF SearchState
    <3> QED BY <1>2, <2>1, <3>1 DEF BriefRow
  <2>5. RowInv(rec, 1)
    <3>1. rec.exa = r.exa + 0
      BY <1>2, <2>3, RowNumbers
    <3> QED BY <1>2, <1>3, <2>2, <2>3, <2>4, <3>1, SearchSteps DEF SearchState
  <2> QED BY <1>1, <1>3, <2>2, <2>3, <2>4, <2>5, WorkGoesOn
<1>10. CASE SearchDenied(b, i)
  <2> DEFINE flying == Cardinality({j \in DOMAIN r.search : r.search[j] = "flies"})
  <2>1. flying \in Nat
    <3>1. PICK n \in Budgeted : r.search \in [1 .. n -> SearchState]
      BY <1>2 DEF BriefRow, SearchRow
    <3>2. n \in Nat /\ {"flies"} \in SUBSET SearchState
      BY <3>1, ResearchAssumption DEF Budgeted, SearchState
    <3>3. Cardinality(InState(r.search, {"flies"})) \in 0 .. n
      BY <3>1, <3>2, SearchCounts
    <3>4. InState(r.search, {"flies"}) = {j \in DOMAIN r.search : r.search[j] = "flies"}
      BY DEF InState
    <3> QED BY <3>2, <3>3, <3>4
  <2>2. Gives(b, Broken, flying, 0, 1) /\ active' = active \ {briefs[b].by}
    BY <1>1, <1>10 DEF SearchDenied, Leaves
  <2>3. RowInv(Broken, flying + 0) /\ Broken \in BriefRow /\ Broken.pc \notin Running
    BY <2>1, NothingLeft DEF RowInv, Broken, Unasked, Running, Asking
  <2> HIDE DEF flying
  <2> QED BY <1>3, <2>1, <2>2, <2>3, WorkGoesOn
<1> QED BY <1>5, <1>6, <1>7, <1>8, <1>9, <1>10

\* Steps of the model calls
LEMMA ModelKeeps ==
  ASSUME ResearchInv, NEW b \in Brief, ModelAnswers(b) \/ ModelMistakes(b) \/ ModelFails(b)
  PROVE  ResearchInv'
<1>1. PICK r : r = briefs[b]
  OBVIOUS
<1>2. r \in BriefRow /\ RowInv(r, 0)
  BY <1>1 DEF ResearchInv
<1>3. \A n \in Nat : RowInv(Broken, n) /\ Broken \in BriefRow /\ Broken.pc \notin Running
  BY NothingLeft DEF RowInv, Broken, Unasked, Running, Asking
<1>4. CASE ModelAnswers(b)
  <2>1. CASE r.pc = "planning"
    <3>1. Gives(b, AfterPlan(r), 0, 1, 0) /\ active' = active /\ briefs[b].pc \in Running
      BY <1>1, <1>4, <2>1 DEF ModelAnswers, Running, Asking
    <3>2. AfterPlan(r) \in BriefRow /\ RowInv(AfterPlan(r), 0 + 1) /\ AfterPlan(r).by = briefs[b].by
      <4>1. AfterPlan(r).by = r.by
        BY <1>2 DEF AfterPlan, BriefRow
      <4> QED BY <1>1, <1>2, <2>1, <4>1, PlanEnds
    <3> QED BY <3>1, <3>2, WorkGoesOn
  <2>2. CASE r.pc \in {"writing", "repairing"}
    <3>1. PICK rec : rec = [r EXCEPT !.pc = "written"]
      OBVIOUS
    <3>2. Gives(b, rec, 0, 1, 0) /\ active' = active /\ briefs[b].pc \in Running
      BY <1>1, <1>4, <2>2, <3>1 DEF ModelAnswers, Running, Asking
    <3>3. rec \in BriefRow /\ RowInv(rec, 0 + 1) /\ rec.by = briefs[b].by
      <4>1. rec.by = r.by
        BY <1>2, <3>1 DEF BriefRow
      <4> QED BY <1>1, <1>2, <2>2, <3>1, <4>1, CallEnds DEF RowInv
    <3> QED BY <3>2, <3>3, WorkGoesOn
  <2> QED BY <1>1, <1>4, <2>1, <2>2 DEF ModelAnswers
<1>5. CASE ModelMistakes(b)
  <2>1. r.pc \in {"writing", "repairing"} /\ briefs[b].pc \in Running
    BY <1>1, <1>5 DEF ModelMistakes, Running, Asking
  <2>2. CASE r.pc = "writing" /\ r.llmCalls < MaxLlmCalls /\ Gives(b, Calls(r, "repairing"), 0, 1, 1) /\ active' = active
    <3>1. Books(r) + 1 = r.exa + r.llm /\ r.exa <= MaxExaCalls /\ r.llm <= r.llmCalls * Most(r.profiles)
      BY <1>2, <2>1, RowNumbers DEF RowInv, Balances, InTheAir, ExaBudget, LlmBudget, Running, Asking
    <3>2. Calls(r, "repairing") \in BriefRow /\ RowInv(Calls(r, "repairing"), 1)
      BY <1>2, <2>2, <3>1, CallBegins DEF Asking
    <3>3. Calls(r, "repairing").by = briefs[b].by
      BY <1>1, <1>2 DEF Calls, BriefRow
    <3>4. RowInv(Calls(r, "repairing"), 0 + 1)
      BY <3>2
    <3> QED BY <2>1, <2>2, <3>2, <3>3, <3>4, WorkGoesOn
  <2>3. CASE Leaves(b, Broken, 0, 1, 1)
    BY <1>3, <2>1, <2>3, WorkGoesOn DEF Leaves
  <2> QED BY <1>1, <1>5, <2>2, <2>3 DEF ModelMistakes
<1>6. CASE ModelFails(b)
  <2>1. PICK n \in IF r.profiles = 0 THEN {1, Providers} ELSE {r.profiles} :
            LET f == [r EXCEPT !.profiles = n] IN
            /\ f.pc \in Asking
            /\ IF f.profile < n THEN Gives(b, [f EXCEPT !.profile = @ + 1, !.llm = @ + 1], 0, 1, 1) /\ UNCHANGED active
               ELSE IF f.pc = "planning" THEN Gives(b, AfterPlan(f), 0, 1, 1) /\ UNCHANGED active
               ELSE Leaves(b, Broken, 0, 1, 1)
    BY <1>1, <1>6 DEF ModelFails
  <2>2. n \in 1 .. Providers /\ r.profiles \in {0, n}
    BY <1>2, <2>1, ResearchAssumption DEF BriefRow
  <2>3. PICK f : f = [r EXCEPT !.profiles = n]
    OBVIOUS
  <2>4. f \in BriefRow /\ RowInv(f, 0) /\ f.by = briefs[b].by /\ f.pc = briefs[b].pc /\ f.profiles = n /\ n > 0
    <3>1. f.by = r.by /\ f.pc = r.pc /\ f.profiles = n
      BY <1>2, <2>3 DEF BriefRow
    <3> QED BY <1>1, <1>2, <2>2, <2>3, <3>1, ProfilesChosen, ResearchAssumption DEF RowInv
  <2>5. f.pc \in Asking /\ briefs[b].pc \in Running
    BY <2>1, <2>3, <2>4 DEF Running
  <2>6. CASE f.profile < n
    <3>1. PICK rec : rec = [f EXCEPT !.profile = @ + 1, !.llm = @ + 1]
      OBVIOUS
    <3>2. Gives(b, rec, 0, 1, 1) /\ active' = active
      BY <2>1, <2>3, <2>6, <3>1
    <3>3. rec \in BriefRow /\ RowInv(rec, 0 + 1) /\ rec.by = briefs[b].by
      <4>1. rec.by = f.by
        BY <2>4, <3>1 DEF BriefRow
      <4>2. RowInv([f EXCEPT !.profile = @ + 1, !.llm = @ + 1], 1)
        BY <2>4, <2>5, <2>6, NextProfile
      <4>3. RowInv(rec, 1)
        BY <3>1, <4>2
      <4> QED BY <2>4, <4>1, <4>3 DEF RowInv
    <3> QED BY <2>5, <3>2, <3>3, WorkGoesOn
  <2>7. CASE ~(f.profile < n) /\ f.pc = "planning"
    <3>1. Gives(b, AfterPlan(f), 0, 1, 1) /\ active' = active
      BY <2>1, <2>3, <2>7
    <3>2. AfterPlan(f) \in BriefRow /\ RowInv(AfterPlan(f), 0 + 1) /\ AfterPlan(f).by = briefs[b].by
      <4>1. AfterPlan(f).by = f.by
        BY <2>4 DEF AfterPlan, BriefRow
      <4> QED BY <2>4, <2>7, <4>1, PlanEnds
    <3> QED BY <2>5, <3>1, <3>2, WorkGoesOn
  <2>8. CASE ~(f.profile < n) /\ f.pc # "planning"
    <3>1. Leaves(b, Broken, 0, 1, 1)
      BY <2>1, <2>3, <2>8
    <3> QED BY <1>3, <2>5, <3>1, WorkGoesOn DEF Leaves
  <2> QED BY <2>6, <2>7, <2>8
<1> QED BY <1>4, <1>5, <1>6

\* The steps from the last search to the report
LEMMA ReadingKeeps ==
  ASSUME ResearchInv, NEW b \in Brief, SearchesEnd(b) \/ ReadStarts(b) \/ ReadEnds(b) \/ SaveReport(b)
  PROVE  ResearchInv'
<1>1. PICK r : r = briefs[b]
  OBVIOUS
<1>2. r \in BriefRow /\ RowInv(r, 0)
  BY <1>1 DEF ResearchInv
<1>3. \A n \in Nat : RowInv(Broken, n) /\ Broken \in BriefRow /\ Broken.pc \notin Running
  BY NothingLeft DEF RowInv, Broken, Unasked, Running, Asking
<1>4. ASSUME NEW trouble, NEW exa \in Nat, Leaves(b, Broken, exa, 0, trouble), briefs[b].pc \in Running
      PROVE  ResearchInv'
  <2>1. RowInv(Broken, exa + 0)
    BY <1>3
  <2> QED BY <1>3, <1>4, <2>1, WorkGoesOn DEF Leaves
<1>5. CASE SearchesEnd(b)
  <2>1. r.pc = "searching" /\ Range(r.search) \subseteq {"found", "failed"} /\ briefs[b].pc \in Running
    BY <1>1, <1>5 DEF SearchesEnd, Running
  <2>2. PICK rec : rec = [r EXCEPT !.pc = "toRead"]
    OBVIOUS
  <2>3. CASE Goes(b, rec)
    <3>1. rec \in BriefRow /\ RowInv(rec, 0 + 0) /\ rec.by = briefs[b].by
      <4>1. rec.by = r.by
        BY <1>2, <2>2 DEF BriefRow
      <4> QED BY <1>1, <1>2, <2>1, <2>2, <4>1, SearchEnds DEF RowInv
    <3> QED BY <2>1, <2>3, <3>1, WorkGoesOn DEF Goes
  <2> QED BY <1>1, <1>4, <1>5, <2>1, <2>2, <2>3 DEF SearchesEnd
<1>6. CASE ReadStarts(b)
  <2>1. r.pc = "toRead" /\ briefs[b].pc \in Running
    BY <1>1, <1>6 DEF ReadStarts, Running
  <2>2. PICK rec : rec = [r EXCEPT !.pc = "reading", !.exa = @ + 1]
    OBVIOUS
  <2>3. CASE Cardinality(DOMAIN r.search) < MaxExaCalls /\ Goes(b, rec)
    <3>1. rec \in BriefRow /\ RowInv(rec, 0 + 0) /\ rec.by = briefs[b].by
      <4>1. rec.by = r.by
        BY <1>2, <2>2 DEF BriefRow
      <4>2. RowInv([r EXCEPT !.pc = "reading", !.exa = @ + 1], 0)
        BY <1>2, <2>1, <2>3, ReadBegins
      <4>3. RowInv(rec, 0)
        BY <2>2, <4>2
      <4> QED BY <1>1, <4>1, <4>3 DEF RowInv
    <3> QED BY <2>1, <2>3, <3>1, WorkGoesOn DEF Goes
  <2>4. CASE Goes(b, Calls(r, "writing"))
    <3>1. /\ Books(r) + 0 = r.exa + r.llm /\ r.exa <= MaxExaCalls /\ r.llm <= r.llmCalls * Most(r.profiles)
          /\ r.llmCalls < MaxLlmCalls
      BY <1>2, <2>1, RowNumbers, ResearchAssumption DEF RowInv, Balances, InTheAir, ExaBudget, LlmBudget, Running, Asking
    <3>2. Calls(r, "writing") \in BriefRow /\ RowInv(Calls(r, "writing"), 0)
      BY <1>2, <3>1, CallBegins DEF Asking
    <3>3. RowInv(Calls(r, "writing"), 0 + 0) /\ Calls(r, "writing").by = briefs[b].by
      BY <1>1, <1>2, <3>2 DEF Calls, BriefRow
    <3> QED BY <2>1, <2>4, <3>2, <3>3, WorkGoesOn DEF Goes
  <2> QED BY <1>1, <1>6, <2>2, <2>3, <2>4 DEF ReadStarts
<1>7. CASE ReadEnds(b)
  <2>1. r.pc = "reading" /\ briefs[b].pc \in Running
    BY <1>1, <1>7 DEF ReadEnds, Running
  <2>2. ASSUME NEW trouble, Gives(b, Calls(r, "writing"), 1, 0, trouble), active' = active
        PROVE  ResearchInv'
    <3>1. /\ Books(r) + 1 = r.exa + r.llm /\ r.exa <= MaxExaCalls /\ r.llm <= r.llmCalls * Most(r.profiles)
          /\ r.llmCalls < MaxLlmCalls
      BY <1>2, <2>1, RowNumbers, ResearchAssumption DEF RowInv, Balances, InTheAir, ExaBudget, LlmBudget, Running, Asking
    <3>2. Calls(r, "writing") \in BriefRow /\ RowInv(Calls(r, "writing"), 1)
      BY <1>2, <3>1, CallBegins DEF Asking
    <3>3. RowInv(Calls(r, "writing"), 1 + 0) /\ Calls(r, "writing").by = briefs[b].by
      BY <1>1, <1>2, <3>2 DEF Calls, BriefRow
    <3> QED BY <2>1, <2>2, <3>2, <3>3, WorkGoesOn
  <2> QED BY <1>1, <1>4, <1>7, <2>1, <2>2 DEF ReadEnds
<1>8. CASE SaveReport(b)
  <2>1. PICK rec : rec = [r EXCEPT !.pc = "saved"]
    OBVIOUS
  <2>2. /\ r.pc = "written" /\ briefs[b].pc \in Running /\ Gives(b, rec, 0, 0, 0) /\ active' = active \ {briefs[b].by}
    BY <1>1, <1>8, <2>1 DEF SaveReport, Leaves, Running
  <2>3. rec \in BriefRow /\ rec.pc \notin Running
    BY <1>2, <2>1 DEF BriefRow, Running, Asking
  <2>4. RowInv(rec, 0)
    <3>1. /\ rec.pc = "saved" /\ rec.profiles = r.profiles /\ rec.profile = r.profile
          /\ rec.exa = r.exa /\ rec.llm = r.llm /\ rec.llmCalls = r.llmCalls
          /\ rec.unlogged = r.unlogged /\ rec.shownExa = r.shownExa /\ rec.shownLlm = r.shownLlm
      BY <1>2, <2>1 DEF BriefRow
    <3>2. Balances(rec, 0)
      BY <1>2, <2>2, <3>1 DEF RowInv, Balances, Books, InTheAir, Running, Asking
    <3>3. ExaBudget(rec) /\ LlmBudget(rec)
      BY <1>2, <2>2, <3>1 DEF RowInv, ExaBudget, LlmBudget, Asking
    <3> QED BY <2>3, <3>2, <3>3 DEF RowInv
  <2>5. RowInv(rec, 0 + 0)
    BY <2>4
  <2> QED BY <2>2, <2>3, <2>5, WorkGoesOn
<1> QED BY <1>5, <1>6, <1>7, <1>8

\* Every step keeps the invariant
LEMMA ResearchStep == ResearchInv /\ [ResearchNext]_researchVars => ResearchInv'
<1> SUFFICES ASSUME ResearchInv, [ResearchNext]_researchVars PROVE ResearchInv'
    OBVIOUS
<1>1. ASSUME NEW b \in Brief, NEW w \in Writer, Refused(b, w) PROVE ResearchInv'
  <2>1. Broken \in BriefRow /\ RowInv(Broken, 0) /\ Broken.pc \notin Running
    BY NothingLeft DEF RowInv, Broken, Unasked, Running, Asking
  <2>2. briefs' = [briefs EXCEPT ![b] = Broken] /\ active' = active
    BY <1>1 DEF Refused
  <2> QED BY <2>1, <2>2 DEF ResearchInv
<1>2. ASSUME NEW b \in Brief, NEW w \in Writer, NEW paid \in BOOLEAN, NEW company \in {0, CompanyQueries},
             NEW people \in 0 .. Attendees, Generate(b, w, paid, company, people)
      PROVE  ResearchInv'
  BY <1>2, GenerateKeeps
<1>3. ASSUME NEW b \in Brief, Searches(b) PROVE ResearchInv'
  BY <1>3, SearchesKeep DEF Searches
<1>4. CASE ProcessEnds
  <2>1. Broken \in BriefRow /\ RowInv(Broken, 0) /\ Broken.pc \notin Running
    BY NothingLeft DEF RowInv, Broken, Unasked, Running, Asking
  <2>2. \A b \in Brief : briefs'[b] \in BriefRow /\ RowInv(briefs'[b], 0) /\ briefs'[b].pc \notin Running
    BY <1>4, <2>1 DEF ProcessEnds, ResearchInv
  <2> QED BY <1>4, <2>2 DEF ProcessEnds, ResearchInv
<1>5. CASE UNCHANGED researchVars
  BY <1>5 DEF researchVars, ResearchInv
<1> QED BY <1>1, <1>2, <1>3, <1>4, <1>5, ModelKeeps, ReadingKeeps DEF ResearchNext

\* Nobody has asked for a briefing at the beginning
LEMMA ResearchBegins == ResearchInit => ResearchInv
<1>1. Unasked.pc = "idle" /\ Unasked.exa = 0 /\ Unasked.llm = 0 /\ Unasked.llmCalls = 0
      /\ Unasked.profiles = 0 /\ Unasked.profile = 1
  BY DEF Unasked
<1>2. RowInv(Unasked, 0)
  BY <1>1, NothingLeft, MostOf, ResearchAssumption DEF RowInv, Balances, ExaBudget, LlmBudget, Running, Asking
<1>3. "idle" \notin Running
  BY DEF Running, Asking
<1> QED BY <1>1, <1>2, <1>3 DEF ResearchInit, ResearchInv, RowInv

\* The invariant gives the property
LEMMA ResearchInvSuffices == ResearchInv => ReportShowsItsSpend
<1> SUFFICES ASSUME ResearchInv, NEW b \in Brief
    PROVE  /\ briefs[b].pc = "saved" => briefs[b].shownExa + briefs[b].shownLlm + briefs[b].unlogged = briefs[b].exa + briefs[b].llm
           /\ briefs[b].exa <= MaxExaCalls /\ briefs[b].llm <= MaxLlmCalls * Most(briefs[b].profiles)
    BY DEF ReportShowsItsSpend
<1>1. PICK r : r = briefs[b]
  OBVIOUS
<1>2. r \in BriefRow /\ RowInv(r, 0)
  BY <1>1 DEF ResearchInv
<1>3. r.pc = "saved" => r.shownExa + r.shownLlm + r.unlogged = r.exa + r.llm
  BY <1>2, RowNumbers DEF RowInv, Balances, Books, InTheAir, Running, Asking
<1>4. r.exa <= MaxExaCalls
  BY <1>2 DEF RowInv, ExaBudget
<1>5. r.llm <= MaxLlmCalls * Most(r.profiles)
  <2>1. r.llm <= r.llmCalls * Most(r.profiles) /\ r.llmCalls <= MaxLlmCalls
    BY <1>2 DEF RowInv, LlmBudget
  <2>2. r.llmCalls * Most(r.profiles) <= MaxLlmCalls * Most(r.profiles)
    BY <1>2, <2>1, RowNumbers, Times, ResearchAssumption
  <2>3. MaxLlmCalls * Most(r.profiles) \in Nat
    BY <1>2, RowNumbers, Times, ResearchAssumption
  <2> QED BY <1>2, <2>1, <2>2, <2>3, RowNumbers
<1> QED BY <1>1, <1>3, <1>4, <1>5

\* One step of a briefing adds the trouble it had, and a lost row, within the bound
LEMMA TroublesCounted ==
  ASSUME NEW b, NEW rec, NEW exa, NEW llm, NEW trouble \in {0, 1}, troubles \in 0 .. MaxTroubles,
         Gives(b, rec, exa, llm, trouble)
  PROVE  troubles' \in 0 .. MaxTroubles
<1>1. PICK lost \in BOOLEAN : troubles' = troubles + trouble + (IF lost THEN 1 ELSE 0) /\ troubles' <= MaxTroubles
  BY DEF Gives
<1> QED  BY <1>1, ResearchAssumption

\* Every step of a briefing
LEMMA TroublesStep == troubles \in 0 .. MaxTroubles /\ [ResearchNext]_researchVars => troubles' \in 0 .. MaxTroubles
<1> SUFFICES ASSUME troubles \in 0 .. MaxTroubles, [ResearchNext]_researchVars PROVE troubles' \in 0 .. MaxTroubles
    OBVIOUS
<1>1. 0 \in {0, 1} /\ 1 \in {0, 1}
  OBVIOUS
<1>2. ASSUME NEW b \in Brief, ModelAnswers(b) \/ ModelMistakes(b) \/ ModelFails(b) PROVE troubles' \in 0 .. MaxTroubles
  <2>1. \E rec, exa, llm : \E trouble \in {0, 1} : Gives(b, rec, exa, llm, trouble)
    BY <1>2, Zenon DEF ModelAnswers, ModelMistakes, ModelFails, Leaves
  <2> QED  BY <2>1, TroublesCounted
<1>3. ASSUME NEW b \in Brief, Searches(b) PROVE troubles' \in 0 .. MaxTroubles
  <2>1. PICK i \in DOMAIN briefs[b].search :
            SearchStarts(b, i) \/ SearchFinds(b, i) \/ SearchSleeps(b, i) \/ SearchRetries(b, i) \/ SearchFails(b, i) \/ SearchDenied(b, i)
    BY <1>3 DEF Searches
  <2>2. \E rec, exa, llm : \E trouble \in {0, 1} : Gives(b, rec, exa, llm, trouble)
    <3>1. CASE SearchStarts(b, i)
      BY <3>1, Zenon DEF SearchStarts, Goes
    <3>2. CASE SearchFinds(b, i)
      BY <3>2, Zenon DEF SearchFinds
    <3>3. CASE SearchSleeps(b, i)
      BY <3>3, Zenon DEF SearchSleeps
    <3>4. CASE SearchRetries(b, i)
      BY <3>4, Zenon DEF SearchRetries, Goes
    <3>5. CASE SearchFails(b, i)
      BY <3>5, Zenon DEF SearchFails
    <3>6. CASE SearchDenied(b, i)
      BY <3>6, Zenon DEF SearchDenied, Leaves
    <3> QED  BY <2>1, <3>1, <3>2, <3>3, <3>4, <3>5, <3>6
  <2> QED  BY <2>2, TroublesCounted
<1>4. ASSUME NEW b \in Brief, SearchesEnd(b) \/ ReadStarts(b) \/ ReadEnds(b) \/ SaveReport(b) PROVE troubles' \in 0 .. MaxTroubles
  <2>1. \E rec, exa, llm : \E trouble \in {0, 1} : Gives(b, rec, exa, llm, trouble)
    BY <1>4, Zenon DEF SearchesEnd, ReadStarts, ReadEnds, SaveReport, Goes, Leaves
  <2> QED  BY <2>1, TroublesCounted
<1>5. CASE ProcessEnds
  BY <1>5, ResearchAssumption DEF ProcessEnds
<1>6. ASSUME NEW b \in Brief, NEW w \in Writer, Refused(b, w) \/ \E paid \in BOOLEAN, company \in {0, CompanyQueries}, people \in 0 .. Attendees : Generate(b, w, paid, company, people)
      PROVE troubles' \in 0 .. MaxTroubles
  BY <1>6 DEF Refused, Generate
<1>7. CASE UNCHANGED researchVars
  BY <1>7 DEF researchVars
<1> QED  BY <1>2, <1>3, <1>4, <1>5, <1>6, <1>7 DEF ResearchNext

\* The invariant gives the types
LEMMA ResearchIsTyped == ResearchInv /\ troubles \in 0 .. MaxTroubles => ResearchTypeOK
<1> SUFFICES ASSUME ResearchInv, NEW b \in Brief
    PROVE LET r == briefs[b] IN
          /\ r.pc \in {"idle", "saved", "failed"} \cup Running /\ r.by \in Writer \cup {NoOne}
          /\ DOMAIN r.search \subseteq Query /\ Range(r.search) \subseteq {"waits", "flies", "sleeps", "found", "failed"}
          /\ Range(r.tried) \subseteq 0 .. MaxRetries /\ r.company \in 0 .. CompanyQueries
          /\ r.profile \in 1 .. Most(r.profiles) /\ r.profiles \in 0 .. Providers /\ r.llmCalls \in 0 .. MaxLlmCalls
          /\ {r.exa, r.llm, r.unlogged, r.shownExa, r.shownLlm} \subseteq Nat
    BY DEF ResearchTypeOK, ResearchInv
<1>1. PICK r : r = briefs[b]
  OBVIOUS
<1>2. r \in BriefRow /\ RowInv(r, 0)
  BY <1>1 DEF ResearchInv
<1>3. /\ r.pc \in {"idle", "saved", "failed"} \cup Running /\ r.by \in Writer \cup {NoOne} /\ r.company \in 0 .. CompanyQueries
      /\ r.profiles \in 0 .. Providers /\ r.profile \in Nat \ {0} /\ r.search \in SearchRow /\ r.tried \in TriedRow
  BY <1>2 DEF BriefRow
<1>4. {r.exa, r.llm, r.unlogged, r.shownExa, r.shownLlm, r.llmCalls, Most(r.profiles)} \subseteq Nat
  BY <1>2, RowNumbers
<1>5. r.profile \in 1 .. Most(r.profiles) /\ r.llmCalls \in 0 .. MaxLlmCalls
  BY <1>2, <1>3, <1>4, ResearchAssumption DEF RowInv, LlmBudget
<1>6. DOMAIN r.search \subseteq Query /\ Range(r.search) \subseteq SearchState
  <2>1. PICK n \in Budgeted : r.search \in [1 .. n -> SearchState]
    BY <1>3 DEF SearchRow
  <2>2. n \in Nat /\ n <= CompanyQueries + Attendees
    BY <2>1, ResearchAssumption DEF Budgeted
  <2>3. 1 .. n \subseteq Query
    BY <2>2, ResearchAssumption DEF Query
  <2> QED  BY <2>1, <2>3 DEF Range
<1>7. Range(r.tried) \subseteq 0 .. MaxRetries
  <2>1. PICK n \in Budgeted : r.tried \in [1 .. n -> 0 .. MaxRetries]
    BY <1>3 DEF TriedRow
  <2> QED  BY <2>1 DEF Range
<1> QED  BY <1>1, <1>3, <1>4, <1>5, <1>6, <1>7 DEF SearchState

-----------------------------------------------------------------------------
(***************************************************************************)
(* Briefings of the calendar (CalendarSync)                                *)
(***************************************************************************)
Cards == [Card -> CardRow]
Lists == [Join -> JoinRow]

\* The event and what was done to it: a move gives it the next id at most
EventTyped ==
    /\ event \in Event /\ event.id <= spent.shifts + 1
    /\ spent \in [shifts : 0 .. MaxShifts, lapses : 0 .. MaxLapses, clicks : 0 .. MaxClicks]

\* What the calendar said, as far as it ends up in a row
AnswersTyped ==
    /\ account \in Connection \cup {NoAccount}
    /\ syncing \in [pc : {"idle", "asked", "heard"}, conn : Connection, heard : Event, truncated : BOOLEAN]
    /\ check = [pc |-> check.pc, conn |-> check.conn, scan |-> check.scan, todo |-> check.todo, heard |-> check.heard,
                decided |-> check.decided, on |-> check.on]
    /\ check.pc \in {"idle", "asked", "relinking", "heard", "confirming", "confirmed"} /\ check.conn \in Connection
    /\ check.heard \in Event
    /\ check.decided \in [kind : {"unknown", "unchanged", "updated", "cancelled"}, event : Event]
    /\ check.decided.kind = "updated" => check.decided.event # Gone

PrepsInv ==
    /\ AnswersTyped /\ cards \in Cards
    /\ preps \subseteq Card /\ drafting \in Card \cup {NoCard} /\ late \subseteq preps
    /\ \A r \in preps \ late : cards[r].on
    /\ \A r \in late : ~cards[r].on

\* The rows somebody prepared for are there after a step if they were before
SparesPreps(cs, after) == after \in Cards /\ \A r \in preps \cap Card : after[r].on = cs[r].on

\* A row nothing is in
LEMMA NoRowIsARow == OffCard \in CardRow
  BY CalendarAssumption DEF OffCard, CardRow, Connection

\* What the calendar says fits into a row
LEMMA EventsFit ==
  ASSUME NEW e \in Event
  PROVE  /\ e.id \in 0 .. MaxShifts + 1 /\ e.at \in 0 .. LastTime
         /\ e # Gone => e.id \in 1 .. MaxShifts + 1 /\ e.at \in Time
  BY CalendarAssumption DEF Event, Gone, Time

\* A row takes over the identity of another only if nobody prepared for the other
LEMMA RekeyingSpares ==
  ASSUME NEW cs \in Cards, NEW r \in Card, NEW e \in Event \ {Gone}
  PROVE  SparesPreps(cs, Rekeyed(cs, r, e))
<1> DEFINE others == {q \in Card \ {r} : cs[q].on /\ cs[q].conn = cs[r].conn /\ cs[q].id = e.id /\ cs[q].at = e.at}
           moved == [cs[r] EXCEPT !.id = e.id, !.at = e.at]
           other == CHOOSE o \in others : TRUE
<1>1. moved \in CardRow /\ moved.on = cs[r].on
  <2>1. cs[r] \in CardRow /\ e.id \in 0 .. MaxShifts + 1 /\ e.at \in 0 .. LastTime
    BY EventsFit DEF Cards
  <2> QED BY <2>1 DEF CardRow
<1>2. OffCard \in CardRow
  BY NoRowIsARow
<1>3. others # {} => other \in Card /\ other # r
  OBVIOUS
<1>4. Rekeyed(cs, r, e) = IF others = {} THEN [cs EXCEPT ![r] = moved]
                          ELSE IF {r, other} \subseteq preps THEN cs
                          ELSE IF other \in preps THEN [cs EXCEPT ![r] = OffCard]
                          ELSE [cs EXCEPT ![r] = moved, ![other] = OffCard]
  BY DEF Rekeyed
<1> HIDE DEF others, moved, other
<1>5. CASE others = {}
  <2>1. [cs EXCEPT ![r] = moved] \in Cards
    BY <1>1 DEF Cards
  <2>2. \A p \in Card : [cs EXCEPT ![r] = moved][p].on = cs[p].on
    BY <1>1 DEF Cards
  <2> QED BY <1>4, <1>5, <2>1, <2>2 DEF SparesPreps
<1>6. CASE others # {} /\ {r, other} \subseteq preps
  BY <1>4, <1>6 DEF SparesPreps
<1>7. CASE others # {} /\ other \in preps /\ r \notin preps
  <2>1. [cs EXCEPT ![r] = OffCard] \in Cards
    BY <1>2 DEF Cards
  <2>2. \A p \in preps \cap Card : [cs EXCEPT ![r] = OffCard][p] = cs[p]
    BY <1>7 DEF Cards
  <2> QED BY <1>4, <1>7, <2>1, <2>2 DEF SparesPreps
<1>8. CASE others # {} /\ other \notin preps
  <2>1. [cs EXCEPT ![r] = moved, ![other] = OffCard] \in Cards
    BY <1>1, <1>2, <1>3, <1>8 DEF Cards
  <2>2. \A p \in preps \cap Card : [cs EXCEPT ![r] = moved, ![other] = OffCard][p].on = cs[p].on
    BY <1>1, <1>3, <1>8 DEF Cards
  <2> QED BY <1>4, <1>8, <2>1, <2>2 DEF SparesPreps
<1> QED BY <1>5, <1>6, <1>7, <1>8

\* What reconcile() says is one of its four answers
LEMMA ReconcileHears ==
  ASSUME NEW s, NEW e \in Event, NEW whole, NEW hint, NEW claimed
  PROVE  Reconcile(s, e, whole, hint, claimed) \in [kind : {"unknown", "unchanged", "updated", "cancelled"}, event : Event]
  BY DEF Reconcile, Booking, Compare, Says, SaysUnknown, Event

\* An update names an event
LEMMA ReconcileUpdates ==
  ASSUME NEW s, NEW e \in Event, NEW whole, NEW hint, NEW claimed, Reconcile(s, e, whole, hint, claimed).kind = "updated"
  PROVE  Reconcile(s, e, whole, hint, claimed).event # Gone
  BY DEF Reconcile, Booking, Compare, Says, SaysUnknown, Event

\* Whatever the watcher decides, rows with a briefing stay
LEMMA ApplyingSpares ==
  ASSUME cards \in Cards, NEW conn, NEW s, NEW d, d.event \in Event, d.kind = "updated" => d.event # Gone, Apply(conn, s, d)
  PROVE  SparesPreps(cards, cards')
<1>1. SparesPreps(cards, cards)
  BY DEF SparesPreps
<1>2. ASSUME d.event \in Event \ {Gone} PROVE SparesPreps(cards, AfterUpdate(conn, s, d.event))
  <2>1. CASE ForSchedule(conn, s) = {}
    BY <1>1, <2>1 DEF AfterUpdate
  <2>2. CASE ForSchedule(conn, s) # {}
    <3>1. (CHOOSE r \in ForSchedule(conn, s) : TRUE) \in Card
      BY <2>2 DEF ForSchedule
    <3> QED BY <1>2, <2>2, <3>1, RekeyingSpares DEF AfterUpdate
  <2> QED BY <2>1, <2>2
<1>3. cards' = cards \/ (d.kind = "updated" /\ cards' = AfterUpdate(conn, s, d.event))
  BY DEF Apply
<1> QED BY <1>1, <1>2, <1>3

\* The same for the scan that follows a moved event
LEMMA ScanSpares ==
  ASSUME cards \in Cards, NEW conn, NEW e \in Event
  PROVE  SparesPreps(cards, AfterScan(conn, e))
<1>1. CASE Moved(conn, e) = {}
  BY <1>1 DEF AfterScan, SparesPreps
<1>2. CASE Moved(conn, e) # {}
  <2>1. (CHOOSE r \in Moved(conn, e) : TRUE) \in Card /\ e # Gone
    BY <1>2 DEF Moved
  <2> QED BY <1>2, <2>1, RekeyingSpares DEF AfterScan
<1> QED BY <1>1, <1>2

\* Forgetting an account spares rows with a briefing
LEMMA ForgettingSpares ==
  ASSUME cards \in Cards, NEW conns
  PROVE  SparesPreps(cards, Forget(cards, conns))
<1>1. OffCard \in CardRow
  BY NoRowIsARow
<1>2. Forget(cards, conns) \in Cards
  BY <1>1 DEF Forget, Cards
<1>3. \A r \in preps \cap Card : Forget(cards, conns)[r] = cards[r]
  BY DEF Forget
<1> QED BY <1>2, <1>3 DEF SparesPreps

\* The same for storing what a sync heard
LEMMA StoringSpares ==
  ASSUME cards \in Cards, NEW conn \in Connection, NEW e \in Event, NEW truncated \in BOOLEAN, e # Gone => Unused # {}
  PROVE  SparesPreps(cards, Stored(conn, e, truncated))
<1> DEFINE keyed == AfterScan(conn, e)
           kept == [r \in Card |-> IF keyed[r].on /\ keyed[r].conn = conn /\ r \notin preps /\ ~truncated
                                      /\ (e = Gone \/ keyed[r].id # e.id \/ keyed[r].at # e.at) THEN OffCard ELSE keyed[r]]
           free == CHOOSE r \in Unused : TRUE
           row == [on |-> TRUE, conn |-> conn, id |-> e.id, at |-> e.at]
<1>1. OffCard \in CardRow
  BY NoRowIsARow
<1>2. SparesPreps(cards, keyed)
  BY ScanSpares
<1>3. SparesPreps(cards, kept)
  <2> HIDE DEF keyed
  <2>1. kept \in Cards
    BY <1>1, <1>2 DEF SparesPreps, Cards
  <2>2. \A r \in preps \cap Card : kept[r] = keyed[r]
    OBVIOUS
  <2> QED BY <1>2, <2>1, <2>2 DEF SparesPreps
<1>4. CASE e = Gone
  BY <1>3, <1>4 DEF Stored
<1>5. CASE e # Gone
  <2>1. free \in Card /\ free \notin preps
    BY <1>5 DEF Unused
  <2>2. row \in CardRow
    BY <1>5, EventsFit DEF CardRow
  <2>3. Stored(conn, e, truncated) \in {kept, [kept EXCEPT ![free] = row]}
    BY DEF Stored
  <2>4. SparesPreps(cards, [kept EXCEPT ![free] = row])
    <3> HIDE DEF kept, free, row
    <3> QED BY <1>3, <2>1, <2>2 DEF SparesPreps, Cards
  <2> QED BY <1>3, <2>3, <2>4
<1> QED BY <1>4, <1>5

\* Steps that change rows and spare those with a briefing keep the invariant
LEMMA SparingKeeps ==
  ASSUME PrepsInv, AnswersTyped', SparesPreps(cards, cards'), UNCHANGED <<preps, drafting, late>>
  PROVE  PrepsInv'
  BY DEF PrepsInv, SparesPreps

\* Steps of the watcher, the account and the joins that touch no briefing
LEMMA AsideKeeps ==
  ASSUME PrepsInv, AnswersTyped', UNCHANGED <<cards, preps, drafting, late>>
  PROVE  PrepsInv'
  BY DEF PrepsInv

\* No answer of the calendar
LEMMA NothingDecided == SaysUnknown.kind = "unknown" /\ SaysUnknown \in [kind : {"unknown", "unchanged", "updated", "cancelled"}, event : Event]
                        /\ Gone \in Event
  BY DEF SaysUnknown, Says, Event

\* A briefing moves from one row of the cache to another that has none
LEMMA HomesAreRows ==
  ASSUME NEW cs, NEW conn, NEW e, NEW live, NEW move \in Rehomes(cs, conn, e, live)
  PROVE  move[1] \in Card /\ move[2] \in Card /\ cs[move[1]].on /\ cs[move[2]].on /\ move[2] \notin preps
<1>1. move \in Card \X Card
  BY DEF Rehomes
<1>2. move[1] \in Card /\ move[2] \in Card
  BY <1>1
<1>3. cs[move[1]].on /\ cs[move[2]].on /\ move[2] \notin preps
  BY DEF Rehomes
<1> QED BY <1>2, <1>3

\* A sync stores what it heard and a briefing may move to a row of the new account
LEMMA StoringKeeps == ASSUME PrepsInv, SyncStores PROVE PrepsInv'
<1> DEFINE conn == syncing.conn
           e == syncing.heard
           kept == Stored(conn, e, syncing.truncated)
           homes == Rehomes(kept, conn, e, {conn})
           h == CHOOSE x \in homes : TRUE
<1>1. conn \in Connection /\ e \in Event /\ syncing.truncated \in BOOLEAN /\ cards \in Cards /\ (e # Gone => Unused # {})
  BY DEF PrepsInv, AnswersTyped, SyncStores
<1>2. SparesPreps(cards, kept)
  BY <1>1, StoringSpares
<1>3. AnswersTyped'
  BY NothingDecided DEF PrepsInv, AnswersTyped, SyncStores, worldVars, checkVars, NoSync, Connection
<1>4. UNCHANGED <<drafting, late>>
  BY DEF SyncStores
<1>5. CASE homes = {}
  <2>1. cards' = kept /\ preps' = preps
    BY <1>5 DEF SyncStores
  <2> QED BY <1>2, <1>3, <1>4, <2>1, SparingKeeps
<1>6. CASE homes # {}
  <2>1. /\ cards' = [kept EXCEPT ![h[1]] = OffCard]
        /\ preps' = IF h[1] \in preps THEN (preps \ {h[1]}) \cup {h[2]} ELSE preps
    BY <1>6 DEF SyncStores
  <2>2. h[1] \in Card /\ h[2] \in Card /\ kept[h[1]].on /\ kept[h[2]].on /\ h[2] \notin preps
    <3>1. h \in homes
      BY <1>6
    <3> QED BY <3>1, HomesAreRows
  <2> HIDE DEF conn, e, kept, homes, h
  <2>3. OffCard \in CardRow /\ ~OffCard.on
    BY NoRowIsARow DEF OffCard
  <2>4. cards' \in Cards /\ \A r \in Card \ {h[1]} : cards'[r] = kept[r]
    BY <1>2, <2>1, <2>2, <2>3 DEF SparesPreps, Cards
  <2>5. preps \subseteq Card /\ late \subseteq preps /\ drafting \in Card \cup {NoCard}
        /\ (\A r \in preps \ late : cards[r].on) /\ (\A r \in late : ~cards[r].on)
    BY DEF PrepsInv
  <2>6. \A r \in preps : kept[r].on = cards[r].on
    BY <1>2, <2>5 DEF SparesPreps
  <2>7. h[1] \notin late
    BY <2>2, <2>5, <2>6
  <2>8. CASE h[1] \in preps
    <3>1. preps' = (preps \ {h[1]}) \cup {h[2]} /\ h[2] # h[1] /\ h[2] \notin late
      BY <2>1, <2>2, <2>5, <2>8
    <3>2. preps' \subseteq Card /\ late' \subseteq preps'
      BY <1>4, <2>2, <2>5, <2>7, <3>1
    <3>3. \A r \in preps' \ late' : cards'[r].on
      BY <1>4, <2>2, <2>4, <2>5, <2>6, <3>1
    <3>4. \A r \in late' : ~cards'[r].on
      BY <1>4, <2>4, <2>5, <2>6, <2>7
    <3> QED BY <1>3, <1>4, <2>4, <2>5, <3>2, <3>3, <3>4 DEF PrepsInv
  <2>9. CASE h[1] \notin preps
    <3>1. \A r \in preps : cards'[r].on = cards[r].on
      BY <2>4, <2>5, <2>6, <2>9
    <3> QED BY <1>3, <1>4, <2>1, <2>4, <2>5, <2>9, <3>1 DEF PrepsInv
  <2> QED BY <2>8, <2>9
<1> QED BY <1>5, <1>6

\* Every step keeps the invariant
LEMMA CalendarStep == EventTyped /\ PrepsInv /\ [CalendarNext]_calendarVars => PrepsInv'
<1> SUFFICES ASSUME EventTyped, PrepsInv, [CalendarNext]_calendarVars PROVE PrepsInv'
    OBVIOUS
<1> USE DEF worldVars, cacheVars, checkVars
<1>0. AnswersTyped /\ cards \in Cards /\ event \in Event
  BY DEF PrepsInv, EventTyped
<1>1. ASSUME NEW conn \in Connection, NEW scan \in BOOLEAN, NEW due, CheckBegins(conn, due, scan) PROVE PrepsInv'
  <2>1. AnswersTyped'
    BY <1>0, <1>1, NothingDecided DEF CheckBegins, AnswersTyped, NoCheck
  <2> QED BY <1>1, <2>1, AsideKeeps DEF CheckBegins
<1>2. CASE CheckRelinks
  <2>1. AnswersTyped'
    BY <1>0, <1>2, NothingDecided DEF CheckRelinks, AnswersTyped, NoCheck, Connection
  <2> QED BY <1>2, <2>1, AsideKeeps DEF CheckRelinks
<1>3. CASE CheckHears
  <2>1. AnswersTyped'
    BY <1>0, <1>3, NothingDecided DEF CheckHears, AnswersTyped
  <2> QED BY <1>3, <2>1, AsideKeeps DEF CheckHears
<1>4. CASE CheckFails
  <2>1. AnswersTyped'
    BY <1>0, <1>4, NothingDecided DEF CheckFails, AnswersTyped, NoCheck, Connection
  <2> QED BY <1>4, <2>1, AsideKeeps DEF CheckFails
<1>5. ASSUME NEW s, CheckApplies(s) PROVE PrepsInv'
  <2>1. FromTheList(s).event \in Event /\ (FromTheList(s).kind = "updated" => FromTheList(s).event # Gone)
    <3>1. check.heard \in Event
      BY <1>0 DEF AnswersTyped
    <3>2. FromTheList(s) \in [kind : {"unknown", "unchanged", "updated", "cancelled"}, event : Event]
      BY <3>1, ReconcileHears DEF FromTheList
    <3>3. FromTheList(s).kind = "updated" => FromTheList(s).event # Gone
      BY <3>1, ReconcileUpdates DEF FromTheList
    <3> QED BY <3>2, <3>3
  <2>2. SparesPreps(cards, cards')
    BY <1>0, <1>5, <2>1, ApplyingSpares DEF CheckApplies
  <2>3. AnswersTyped'
    BY <1>0, <1>5 DEF CheckApplies, AnswersTyped
  <2> QED BY <1>5, <2>2, <2>3, SparingKeeps DEF CheckApplies
<1>6. ASSUME NEW s, CheckConfirms(s) PROVE PrepsInv'
  <2>1. PICK d : /\ check' = [check EXCEPT !.pc = "confirmed", !.decided = d, !.on = s]
                 /\ d = SaysUnknown \/ \E whole, hint \in BOOLEAN :
                        d = Reconcile(s, IF whole THEN event ELSE Gone, whole, hint, Claimed(s))
    BY <1>6 DEF CheckConfirms
  <2>2. d \in [kind : {"unknown", "unchanged", "updated", "cancelled"}, event : Event] /\ (d.kind = "updated" => d.event # Gone)
    BY <1>0, <2>1, NothingDecided, ReconcileHears, ReconcileUpdates DEF AnswersTyped
  <2>3. AnswersTyped'
    BY <1>0, <1>6, <2>1, <2>2 DEF CheckConfirms, AnswersTyped
  <2> QED BY <1>6, <2>3, AsideKeeps DEF CheckConfirms
<1>7. CASE CheckConfirmed
  <2>1. SparesPreps(cards, cards')
    BY <1>0, <1>7, ApplyingSpares DEF CheckConfirmed, AnswersTyped
  <2>2. AnswersTyped'
    BY <1>0, <1>7, NothingDecided DEF CheckConfirmed, AnswersTyped
  <2> QED BY <1>7, <2>1, <2>2, SparingKeeps DEF CheckConfirmed
<1>8. CASE CheckEnds
  <2>1. SparesPreps(cards, cards')
    BY <1>0, <1>8, ScanSpares DEF CheckEnds, AnswersTyped, SparesPreps
  <2>2. AnswersTyped'
    BY <1>0, <1>8, NothingDecided DEF CheckEnds, AnswersTyped, NoCheck, Connection
  <2> QED BY <1>8, <2>1, <2>2, SparingKeeps DEF CheckEnds
<1>9. CASE SyncBegins
  <2>1. SparesPreps(cards, cards')
    BY <1>0, <1>9, ForgettingSpares DEF SyncBegins
  <2>2. AnswersTyped'
    BY <1>0, <1>9, NothingDecided DEF SyncBegins, AnswersTyped, NoSync
  <2> QED BY <1>9, <2>1, <2>2, SparingKeeps DEF SyncBegins
<1>10. CASE SyncHears
  <2>1. AnswersTyped'
    <3>1. CASE syncing' = NoSync
      BY <1>0, <1>10, <3>1, NothingDecided DEF SyncHears, AnswersTyped, NoSync, Connection
    <3>2. ASSUME NEW truncated \in BOOLEAN,
                 syncing' = [syncing EXCEPT !.pc = "heard", !.truncated = truncated, !.heard = IF truncated THEN Gone ELSE event]
          PROVE  AnswersTyped'
      <4>1. (IF truncated THEN Gone ELSE event) \in Event
        BY <1>0, NothingDecided DEF AnswersTyped
      <4>2. PICK heard \in Event : syncing' = [syncing EXCEPT !.pc = "heard", !.truncated = truncated, !.heard = heard]
        BY <3>2, <4>1
      <4> QED BY <1>0, <1>10, <4>2 DEF SyncHears, AnswersTyped
    <3> QED BY <1>10, <3>1, <3>2 DEF SyncHears
  <2> QED BY <1>10, <2>1, AsideKeeps DEF SyncHears
<1>11. CASE SyncStores
  BY <1>11, StoringKeeps
<1>12. ASSUME NEW m \in Join, ScheduleEvent(m) \/ CancelSchedule(m) \/ TakeJoin(m) PROVE PrepsInv'
  <2>1. AnswersTyped'
    BY <1>0, <1>12 DEF ScheduleEvent, CancelSchedule, TakeJoin, AnswersTyped
  <2> QED BY <1>12, <2>1, AsideKeeps DEF ScheduleEvent, CancelSchedule, TakeJoin
<1>13. ASSUME NEW keepThem \in BOOLEAN, Disconnect(keepThem) PROVE PrepsInv'
  <2>1. SparesPreps(cards, cards')
    BY <1>0, <1>13, ForgettingSpares DEF Disconnect
  <2>2. AnswersTyped'
    BY <1>0, <1>13 DEF Disconnect, AnswersTyped, NoAccount
  <2> QED BY <1>13, <2>1, <2>2, SparingKeeps DEF Disconnect
<1>14. CASE Reconnect
  <2>1. AnswersTyped'
    BY <1>0, <1>14 DEF Reconnect, AnswersTyped, Connection
  <2> QED BY <1>14, <2>1, AsideKeeps DEF Reconnect
<1>15. ASSUME NEW r \in Card, SavePrep(r) PROVE PrepsInv'
  BY <1>15 DEF SavePrep, PrepsInv, AnswersTyped
<1>16. ASSUME NEW r \in Card, DraftBriefing(r) PROVE PrepsInv'
  BY <1>16 DEF DraftBriefing, PrepsInv, AnswersTyped
<1>17. CASE SaveBriefing
  BY <1>17 DEF SaveBriefing, PrepsInv, AnswersTyped
<1>18. ASSUME NEW r \in Card, PurgePrep(r) PROVE PrepsInv'
  BY <1>18 DEF PurgePrep, PrepsInv, AnswersTyped
<1>19. ASSUME NEW r \in Card, Expire(r) PROVE PrepsInv'
  <2>1. OffCard \in CardRow
    BY NoRowIsARow
  <2>2. cards' \in Cards /\ \A q \in Card \ {r} : cards'[q] = cards[q]
    BY <1>0, <1>19, <2>1 DEF Expire, Cards
  <2> QED BY <1>19, <2>2 DEF Expire, PrepsInv, AnswersTyped
<1>20. CASE PurgeCache
  <2>1. OffCard \in CardRow
    BY NoRowIsARow
  <2>2. SparesPreps(cards, cards')
    <3>1. cards' \in Cards
      BY <1>0, <1>20, <2>1 DEF PurgeCache, Cards
    <3>2. \A q \in preps \cap Card : cards'[q] = cards[q]
      BY <1>20 DEF PurgeCache, Unreferenced
    <3> QED BY <3>1, <3>2 DEF SparesPreps
  <2>3. AnswersTyped'
    BY <1>0, <1>20 DEF PurgeCache, AnswersTyped
  <2> QED BY <1>20, <2>2, <2>3, SparingKeeps DEF PurgeCache
<1>21. ASSUME NEW t \in Time, EventMoves(t) PROVE PrepsInv'
  <2>1. AnswersTyped'
    BY <1>0, <1>21 DEF EventMoves, AnswersTyped
  <2> QED BY <1>21, <2>1, AsideKeeps DEF EventMoves
<1>22. CASE EventEnds
  <2>1. AnswersTyped'
    BY <1>0, <1>22, NothingDecided DEF EventEnds, AnswersTyped
  <2> QED BY <1>22, <2>1, AsideKeeps DEF EventEnds
<1>23. CASE UNCHANGED calendarVars
  BY <1>23 DEF calendarVars, PrepsInv, AnswersTyped
<1> QED
  BY <1>1, <1>2, <1>3, <1>4, <1>5, <1>6, <1>7, <1>8, <1>9, <1>10, <1>11, <1>12, <1>13, <1>14, <1>15, <1>16, <1>17, <1>18, <1>19,
     <1>20, <1>21, <1>22, <1>23 DEF CalendarNext, CheckGoesOn

\* Nothing is prepared at the beginning
LEMMA CalendarBegins == CalendarInit => PrepsInv
<1> SUFFICES ASSUME CalendarInit PROVE PrepsInv
    OBVIOUS
<1>1. AnswersTyped
  BY NothingDecided DEF CalendarInit, AnswersTyped, NoCheck, NoSync, Connection
<1>2. cards \in Cards
  <2>1. OffCard \in CardRow /\ [on |-> TRUE, conn |-> 1, id |-> 1, at |-> 1] \in CardRow
    BY NoRowIsARow, CalendarAssumption DEF CardRow, Connection
  <2> QED BY <2>1 DEF CalendarInit, Cards
<1>3. preps = {} /\ late = {} /\ drafting = NoCard
  BY DEF CalendarInit
<1> QED BY <1>1, <1>2, <1>3 DEF PrepsInv

\* The invariant gives the property
LEMMA PrepsInvSuffices == PrepsInv => PrepStaysReadable
  BY DEF PrepsInv, PrepStaysReadable

-----------------------------------------------------------------------------
(***************************************************************************)
(* The types of the calendar                                               *)
(***************************************************************************)
\* A step moves the event, ends it, counts a lapse or a click, or does neither
LEMMA WhatIsSpent ==
  ASSUME [CalendarNext]_calendarVars
  PROVE  \/ event' = event /\ (spent' = spent \/ Lapse \/ Click)
         \/ (\E t \in Time : EventMoves(t)) \/ EventEnds
<1> USE DEF worldVars
<1>1. ASSUME NEW conn, NEW due, NEW scan, CheckBegins(conn, due, scan) PROVE event' = event /\ spent' = spent
  BY <1>1 DEF CheckBegins
<1>2. CASE CheckGoesOn
  BY <1>2 DEF CheckGoesOn, CheckRelinks, CheckHears, CheckFails, CheckConfirmed, CheckEnds, CheckApplies, CheckConfirms
<1>3. CASE SyncBegins \/ SyncHears \/ SyncStores
  BY <1>3 DEF SyncBegins, SyncHears, SyncStores
<1>4. ASSUME NEW m, ScheduleEvent(m) \/ CancelSchedule(m) \/ TakeJoin(m) PROVE event' = event /\ Click
  BY <1>4 DEF ScheduleEvent, CancelSchedule, TakeJoin
<1>5. ASSUME NEW keepThem, Disconnect(keepThem) \/ Reconnect \/ PurgeCache PROVE event' = event /\ Click
  BY <1>5 DEF Disconnect, Reconnect, PurgeCache
<1>6. ASSUME NEW r, SavePrep(r) \/ DraftBriefing(r) \/ PurgePrep(r) \/ Expire(r) PROVE event' = event /\ Click
  BY <1>6 DEF SavePrep, DraftBriefing, PurgePrep, Expire
<1>7. CASE SaveBriefing
  BY <1>7 DEF SaveBriefing
<1>8. CASE UNCHANGED calendarVars
  BY <1>8 DEF calendarVars
<1> QED  BY <1>1, <1>2, <1>3, <1>4, <1>5, <1>6, <1>7, <1>8 DEF CalendarNext

\* Every step
LEMMA EventStep == EventTyped /\ [CalendarNext]_calendarVars => EventTyped'
<1> SUFFICES ASSUME EventTyped, [CalendarNext]_calendarVars PROVE EventTyped'
    OBVIOUS
<1>1. spent \in [shifts : 0 .. MaxShifts, lapses : 0 .. MaxLapses, clicks : 0 .. MaxClicks] /\ event \in Event /\ event.id <= spent.shifts + 1
  BY DEF EventTyped
<1>2. {MaxShifts, MaxLapses, MaxClicks} \subseteq Nat
  BY CalendarAssumption
<1>3. CASE event' = event /\ (spent' = spent \/ Lapse \/ Click)
  <2>1. spent' \in [shifts : 0 .. MaxShifts, lapses : 0 .. MaxLapses, clicks : 0 .. MaxClicks] /\ spent'.shifts = spent.shifts
    <3>1. CASE Lapse
      <4>1. spent' = [spent EXCEPT !.lapses = spent.lapses + 1] /\ spent.lapses < MaxLapses
        BY <3>1 DEF Lapse
      <4> QED  BY <1>1, <1>2, <4>1
    <3>2. CASE Click
      <4>1. spent' = [spent EXCEPT !.clicks = spent.clicks + 1] /\ spent.clicks < MaxClicks
        BY <3>2 DEF Click
      <4> QED  BY <1>1, <1>2, <4>1
    <3> QED  BY <1>1, <1>3, <3>1, <3>2
  <2> QED  BY <1>1, <1>3, <2>1 DEF EventTyped
<1>4. ASSUME spent.shifts < MaxShifts, spent' = [spent EXCEPT !.shifts = @ + 1]
      PROVE  /\ spent' \in [shifts : 0 .. MaxShifts, lapses : 0 .. MaxLapses, clicks : 0 .. MaxClicks]
             /\ spent'.shifts = spent.shifts + 1 /\ spent.shifts \in Nat
  BY <1>1, <1>2, <1>4
<1>5. ASSUME NEW t \in Time, EventMoves(t) PROVE EventTyped'
  <2>1. /\ event # Gone /\ spent.shifts < MaxShifts /\ spent' = [spent EXCEPT !.shifts = @ + 1]
        /\ event' = [id |-> event.id, at |-> t] \/ event' = [id |-> event.id + 1, at |-> t]
    BY <1>5 DEF EventMoves
  <2>2. event.id \in 1 .. MaxShifts + 1
    BY <1>1, <2>1, EventsFit
  <2>3. event'.id \in {event.id, event.id + 1} /\ event'.id \in 1 .. MaxShifts + 1 /\ event' = [id |-> event'.id, at |-> t]
    <3>1. event.id + 1 \in 1 .. MaxShifts + 1
      BY <1>1, <1>2, <1>4, <2>1, <2>2
    <3> QED  BY <2>1, <2>2, <3>1
  <2>4. event' \in Event
    BY <2>3 DEF Event
  <2> QED  BY <1>1, <1>4, <2>1, <2>2, <2>3, <2>4 DEF EventTyped
<1>6. CASE EventEnds
  <2>1. event' = Gone /\ spent.shifts < MaxShifts /\ spent' = [spent EXCEPT !.shifts = @ + 1]
    BY <1>6 DEF EventEnds
  <2>2. Gone \in Event /\ Gone.id = 0
    BY DEF Event, Gone
  <2> QED  BY <1>1, <1>4, <2>1, <2>2 DEF EventTyped
<1> QED  BY <1>3, <1>5, <1>6, WhatIsSpent

\* An event nobody has moved
LEMMA EventBegins == CalendarInit => EventTyped
<1> SUFFICES ASSUME CalendarInit PROVE EventTyped
    OBVIOUS
<1>1. event = [id |-> 1, at |-> 1] /\ spent = [shifts |-> 0, lapses |-> 0, clicks |-> 0]
  BY DEF CalendarInit
<1>2. 1 \in 1 .. MaxShifts + 1 /\ 1 \in Time /\ 0 \in 0 .. MaxShifts /\ 0 \in 0 .. MaxLapses /\ 0 \in 0 .. MaxClicks
  BY CalendarAssumption DEF Time
<1> QED  BY <1>1, <1>2 DEF EventTyped, Event

-----------------------------------------------------------------------------
\* The joins, and what a check carries of them
JoinsTyped ==
    /\ provider \in {"stable", "booking"} /\ joins \in Lists /\ synced \subseteq Connection
    /\ failures \in [Connection -> 0 .. Attention]
    /\ check.todo \subseteq Snapshot /\ (check.pc = "confirmed" => check.on \in Snapshot)

\* One more number, counted from 0: induction over the sizes of sets
LEMMA SizesOneByOne ==
  ASSUME NEW P, 0 \in P, \A n \in Nat : n \in P => n + 1 \in P
  PROVE  Nat \subseteq P
<1> DEFINE R == OpToRel(<, Nat)
           T == Nat \ P
<1>1. IsWellFoundedOn(R, Nat)
  BY NatLessThanWellFounded
<1>2. SUFFICES ASSUME T # {} PROVE FALSE
  OBVIOUS
<1>3. PICK n \in T : \A k \in T : ~(<<k, n>> \in R)
  <2> HIDE DEF R
  <2>1. T \subseteq Nat
    OBVIOUS
  <2> HIDE DEF T
  <2> QED  BY <1>1, <1>2, <2>1, WFMin
<1>4. n \in Nat /\ n # 0 /\ n - 1 \in Nat
  OBVIOUS
<1>5. <<n - 1, n>> \in R
  BY <1>4 DEF OpToRel
<1>6. n - 1 \in P
  BY <1>3, <1>4, <1>5
<1> QED  BY <1>4, <1>6

\* Moving one join to the new account
LEMMA RelinkedIsTyped ==
  ASSUME NEW js \in Lists, NEW m \in Join, NEW conn \in Connection, NEW e \in Event
  PROVE  Relinked(js, m, conn, e) \in Lists
<1>1. js[m] \in JoinRow /\ e.id \in 0 .. MaxShifts + 1
  BY EventsFit DEF Lists
<1>2. [js[m] EXCEPT !.st = "cancelled"] \in JoinRow /\ [js[m] EXCEPT !.conn = conn, !.id = e.id, !.flag = FALSE] \in JoinRow
  BY <1>1 DEF JoinRow
<1>3. Relinked(js, m, conn, e) \in {js, [js EXCEPT ![m] = [js[m] EXCEPT !.st = "cancelled"]],
                                    [js EXCEPT ![m] = [js[m] EXCEPT !.conn = conn, !.id = e.id, !.flag = FALSE]]}
  BY DEF Relinked, Lists
<1> QED  BY <1>2, <1>3 DEF Lists

\* Moving them one after another, in whatever order
LEMMA RelinkingIsTyped ==
  ASSUME NEW js \in Lists, NEW conn \in Connection, NEW e \in Event, NEW live, NEW only
  PROVE  AfterRelink(js, conn, e, live, only) \in Lists
<1> DEFINE S == {m \in Stranded(js, live) \cap only : Matches(js[m].id, js[m].at, e)}
           First(s) == CHOOSE x \in s : TRUE
           Move(done, m) == Relinked(done, m, conn, e)
           Small(n) == {s \in SUBSET S : Cardinality(s) <= n}
           Rec(it, D) == it = [s \in D |-> IF s = {} THEN js ELSE Move(it[s \ {First(s)}], First(s))]
<1>1. AfterRelink(js, conn, e, live, only) = (CHOOSE it : Rec(it, SUBSET S))[S]
  BY DEF AfterRelink, FoldSet, MapThenFoldSet
<1>2. IsFiniteSet(S) /\ S \subseteq Join
  <2>1. S \subseteq Join
    BY DEF Stranded
  <2> HIDE DEF S
  <2> QED  BY <2>1, CalendarAssumption, FS_Subset
<1>3. \A m \in S : \A done \in Lists : Move(done, m) \in Lists
  BY <1>2, RelinkedIsTyped
<1> HIDE DEF S, Move
<1>4. \A s \in SUBSET S : IsFiniteSet(s) /\ Cardinality(s) \in Nat /\ Cardinality(s) <= Cardinality(S)
  BY <1>2, FS_Subset, FS_CardinalityType
<1>5. \A s \in SUBSET S : s # {} => /\ First(s) \in s /\ s \ {First(s)} \in SUBSET S
                                    /\ Cardinality(s \ {First(s)}) = Cardinality(s) - 1
  BY <1>4, FS_RemoveElement
<1> HIDE DEF First
<1>6. ASSUME NEW n \in Nat, NEW s \in Small(n + 1), s # {} PROVE First(s) \in S /\ s \ {First(s)} \in Small(n)
  BY <1>4, <1>5, <1>6
<1>7. {} \in SUBSET S /\ Cardinality({}) = 0 /\ \A s \in Small(0) : s = {}
  BY <1>4, FS_EmptySet
<1>8. \A n \in Nat : \E it : Rec(it, Small(n)) /\ \A s \in Small(n) : it[s] \in Lists
  <2> DEFINE Ns == {n \in Nat : \E it : Rec(it, Small(n)) /\ \A s \in Small(n) : it[s] \in Lists}
  <2>1. 0 \in Ns
    <3> DEFINE it == [s \in Small(0) |-> js]
    <3>1. Rec(it, Small(0)) /\ \A s \in Small(0) : it[s] \in Lists
      BY <1>7
    <3> QED  BY <3>1
  <2>2. ASSUME NEW n \in Nat, n \in Ns PROVE n + 1 \in Ns
    <3>1. PICK u : Rec(u, Small(n)) /\ \A s \in Small(n) : u[s] \in Lists
      BY <2>2
    <3> DEFINE v == [s \in Small(n + 1) |-> IF s = {} THEN js ELSE Move(u[s \ {First(s)}], First(s))]
    <3>2. \A s \in Small(n) : s \in Small(n + 1) /\ v[s] = u[s]
      <4>1. \A s \in Small(n) : s \in Small(n + 1)
        BY <1>4
      <4> HIDE DEF Small
      <4> QED  BY <3>1, <4>1
    <3> HIDE DEF Small
    <3>3. \A s \in Small(n + 1) : s # {} => v[s \ {First(s)}] = u[s \ {First(s)}]
      BY <1>6, <3>2
    <3>4. Rec(v, Small(n + 1))
      <4> HIDE DEF Rec
      <4>1. \A s \in Small(n + 1) : (IF s = {} THEN js ELSE Move(u[s \ {First(s)}], First(s)))
                                  = (IF s = {} THEN js ELSE Move(v[s \ {First(s)}], First(s)))
        BY <3>3
      <4>2. v = [s \in Small(n + 1) |-> IF s = {} THEN js ELSE Move(v[s \ {First(s)}], First(s))]
        BY <4>1
      <4> HIDE DEF v
      <4> QED  BY <4>2 DEF Rec
    <3>5. \A s \in Small(n + 1) : v[s] \in Lists
      <4> SUFFICES ASSUME NEW s \in Small(n + 1) PROVE v[s] \in Lists
          OBVIOUS
      <4>1. CASE s = {}
        BY <4>1
      <4>2. CASE s # {}
        <5>1. First(s) \in S /\ u[s \ {First(s)}] \in Lists
          BY <1>6, <3>1, <4>2
        <5> QED  BY <1>3, <4>2, <5>1
      <4> QED  BY <4>1, <4>2
    <3>6. n + 1 \in Nat
      OBVIOUS
    <3> HIDE DEF Rec, v
    <3> QED  BY <3>4, <3>5, <3>6
  <2> HIDE DEF Ns
  <2>3. Nat \subseteq Ns
    BY <2>1, <2>2, SizesOneByOne
  <2> QED  BY <2>3 DEF Ns
<1>9. SUBSET S = Small(Cardinality(S)) /\ Cardinality(S) \in Nat
  BY <1>2, <1>4, FS_CardinalityType
<1>10. \E it : Rec(it, SUBSET S)
  BY <1>8, <1>9
<1>11. Rec(CHOOSE it : Rec(it, SUBSET S), SUBSET S)
  <2> HIDE DEF Rec
  <2> QED  BY <1>10
<1>12. ASSUME NEW it, Rec(it, SUBSET S) PROVE it[S] \in Lists
  <2> DEFINE Ns == {n \in Nat : \A s \in Small(n) : it[s] \in Lists}
  <2>1. \A s \in SUBSET S : it[s] = IF s = {} THEN js ELSE Move(it[s \ {First(s)}], First(s))
    BY <1>12
  <2>2. 0 \in Ns
    BY <1>7, <2>1
  <2>3. ASSUME NEW n \in Nat, n \in Ns PROVE n + 1 \in Ns
    <3> SUFFICES ASSUME NEW s \in Small(n + 1) PROVE it[s] \in Lists
        OBVIOUS
    <3>1. CASE s = {}
      BY <2>1, <3>1
    <3>2. CASE s # {}
      <4>1. First(s) \in S /\ it[s \ {First(s)}] \in Lists
        BY <1>6, <2>3, <3>2
      <4> QED  BY <1>3, <2>1, <3>2, <4>1
    <3> QED  BY <3>1, <3>2
  <2>4. Nat \subseteq Ns
    <3> HIDE DEF Ns
    <3> QED  BY <2>2, <2>3, SizesOneByOne
  <2> QED  BY <1>9, <2>4
<1> HIDE DEF Rec
<1> QED  BY <1>1, <1>11, <1>12

\* Flags for attention
LEMMA FlaggedIsTyped ==
  ASSUME NEW js \in Lists, NEW snaps
  PROVE  Flagged(js, snaps) \in Lists
<1>1. \A m \in Join : js[m] \in JoinRow /\ [js[m] EXCEPT !.flag = TRUE] \in JoinRow
  BY DEF Lists, JoinRow
<1> QED  BY <1>1 DEF Flagged, Lists

\* What a check remembers of a join
LEMMA SnapIsTyped == ASSUME joins \in Lists, NEW m \in Join PROVE Snap(m) \in Snapshot
<1>1. joins[m] \in JoinRow
  BY DEF Lists
<1> QED  BY <1>1 DEF Snap, Snapshot, JoinRow

\* One join that changes
LEMMA OneJoin ==
  ASSUME joins \in Lists, NEW m \in Join, NEW e \in Event, NEW conn \in Connection
  PROVE  /\ [joins EXCEPT ![m].flag = FALSE] \in Lists
         /\ \A st \in {"none", "pending", "cancelled", "joined"} : [joins EXCEPT ![m].st = st] \in Lists
         /\ [joins EXCEPT ![m].id = e.id, ![m].at = e.at, ![m].flag = FALSE] \in Lists
         /\ [joins EXCEPT ![m].at = e.at, ![m].flag = FALSE] \in Lists
         /\ [joins EXCEPT ![m] = [st |-> "pending", conn |-> conn, id |-> e.id, at |-> e.at, flag |-> FALSE]] \in Lists
<1>1. joins[m] \in JoinRow /\ e.id \in 0 .. MaxShifts + 1 /\ e.at \in 0 .. LastTime
  BY EventsFit DEF Lists
<1>2. [joins[m] EXCEPT !.flag = FALSE] \in JoinRow
  BY <1>1 DEF JoinRow
<1>3. \A st \in {"none", "pending", "cancelled", "joined"} : [joins[m] EXCEPT !.st = st] \in JoinRow
  BY <1>1 DEF JoinRow
<1>4. [joins[m] EXCEPT !.id = e.id, !.at = e.at, !.flag = FALSE] \in JoinRow
  BY <1>1 DEF JoinRow
<1>5. [joins[m] EXCEPT !.at = e.at, !.flag = FALSE] \in JoinRow
  BY <1>1 DEF JoinRow
<1>6. [st |-> "pending", conn |-> conn, id |-> e.id, at |-> e.at, flag |-> FALSE] \in JoinRow
  BY <1>1 DEF JoinRow
<1>7. [joins EXCEPT ![m].flag = FALSE] = [joins EXCEPT ![m] = [joins[m] EXCEPT !.flag = FALSE]]
  BY DEF Lists
<1>8. \A st : [joins EXCEPT ![m].st = st] = [joins EXCEPT ![m] = [joins[m] EXCEPT !.st = st]]
  BY DEF Lists
<1>9. [joins EXCEPT ![m].id = e.id, ![m].at = e.at, ![m].flag = FALSE]
        = [joins EXCEPT ![m] = [joins[m] EXCEPT !.id = e.id, !.at = e.at, !.flag = FALSE]]
  BY DEF Lists
<1>10. [joins EXCEPT ![m].at = e.at, ![m].flag = FALSE] = [joins EXCEPT ![m] = [joins[m] EXCEPT !.at = e.at, !.flag = FALSE]]
  BY DEF Lists
<1>11. \A row \in JoinRow : [joins EXCEPT ![m] = row] \in Lists
  BY DEF Lists
<1> QED  BY <1>2, <1>3, <1>4, <1>5, <1>6, <1>7, <1>8, <1>9, <1>10, <1>11

\* Whatever the watcher decides
LEMMA AppliedIsTyped ==
  ASSUME joins \in Lists, NEW conn \in Connection, NEW s \in Snapshot, NEW d, d.event \in Event, Apply(conn, s, d)
  PROVE  joins' \in Lists
<1>1. s.m \in Join
  BY DEF Snapshot
<1>2. CancelJoin(s) \in Lists
  BY <1>1, OneJoin DEF CancelJoin
<1>3. \/ joins' \in {joins, [joins EXCEPT ![s.m].flag = FALSE], CancelJoin(s)}
      \/ joins' = [joins EXCEPT ![s.m].id = d.event.id, ![s.m].at = d.event.at, ![s.m].flag = FALSE]
  BY DEF Apply
<1>4. [joins EXCEPT ![s.m].flag = FALSE] \in Lists
      /\ [joins EXCEPT ![s.m].id = d.event.id, ![s.m].at = d.event.at, ![s.m].flag = FALSE] \in Lists
  BY <1>1, OneJoin
<1> QED  BY <1>2, <1>3, <1>4

\* A moved event moves its join
LEMMA MovedJoinIsTyped ==
  ASSUME joins \in Lists, NEW conn \in Connection, NEW e \in Event
  PROVE  WithItsJoin(conn, e) \in Lists
<1> DEFINE due == {m \in Due(conn) : e # Gone /\ joins[m].id = e.id /\ Moved(conn, e) # {}}
           m == CHOOSE o \in due : TRUE
<1>1. due # {} => m \in Join
  BY DEF Due
<1>2. ASSUME m \in Join PROVE CancelJoin(Snap(m)) \in Lists
  <2>1. Snap(m).m = m
    BY DEF Snap
  <2> HIDE DEF m
  <2> QED  BY <1>2, <2>1, OneJoin DEF CancelJoin
<1>3. WithItsJoin(conn, e) = IF due = {} THEN joins
                             ELSE IF joins[m].at = e.at THEN [joins EXCEPT ![m].flag = FALSE]
                             ELSE IF AlreadyScheduled(Snap(m), conn, e) THEN CancelJoin(Snap(m))
                             ELSE IF SlotTaken(m, e) THEN joins ELSE [joins EXCEPT ![m].at = e.at, ![m].flag = FALSE]
  BY DEF WithItsJoin
<1> HIDE DEF due, m
<1> QED  BY <1>1, <1>2, <1>3, OneJoin

\* A disconnect cancels the joins of the account
LEMMA CancelledAreTyped ==
  ASSUME joins \in Lists, NEW conn
  PROVE  [m \in Join |-> IF m \in Due(conn) THEN [joins[m] EXCEPT !.st = "cancelled"] ELSE joins[m]] \in Lists
<1>1. \A m \in Join : joins[m] \in JoinRow /\ [joins[m] EXCEPT !.st = "cancelled"] \in JoinRow
  BY DEF Lists, JoinRow
<1> QED  BY <1>1 DEF Lists

\* Every step
LEMMA JoinsStep == EventTyped /\ PrepsInv /\ JoinsTyped /\ [CalendarNext]_calendarVars => JoinsTyped'
<1> SUFFICES ASSUME EventTyped, PrepsInv, JoinsTyped, [CalendarNext]_calendarVars PROVE JoinsTyped'
    OBVIOUS
<1> USE DEF worldVars, cacheVars, checkVars
<1>0. /\ provider \in {"stable", "booking"} /\ joins \in Lists /\ synced \subseteq Connection
      /\ failures \in [Connection -> 0 .. Attention]
      /\ check.todo \subseteq Snapshot /\ (check.pc = "confirmed" => check.on \in Snapshot)
      /\ AnswersTyped /\ event \in Event
  BY DEF JoinsTyped, PrepsInv, EventTyped
<1>1. /\ account \in Connection \cup {NoAccount} /\ check.conn \in Connection
      /\ check = [pc |-> check.pc, conn |-> check.conn, scan |-> check.scan, todo |-> check.todo, heard |-> check.heard,
                  decided |-> check.decided, on |-> check.on]
      /\ check.heard \in Event /\ check.decided.event \in Event
      /\ syncing.conn \in Connection /\ syncing.heard \in Event
  BY <1>0 DEF AnswersTyped
<1>2. NoCheck.todo = {} /\ NoCheck.pc = "idle"
  BY DEF NoCheck
<1>3. ASSUME NEW conn \in Connection, NEW scan \in BOOLEAN, NEW due, CheckBegins(conn, due, scan) PROVE JoinsTyped'
  <2>1. check'.todo = {Snap(m) : m \in due} /\ due \subseteq Join /\ check'.pc # "confirmed" /\ UNCHANGED <<provider, joins, synced, failures>>
    BY <1>3 DEF CheckBegins, NoCheck, Due
  <2>2. check'.todo \subseteq Snapshot
    BY <1>0, <2>1, SnapIsTyped
  <2> QED  BY <1>0, <2>1, <2>2 DEF JoinsTyped
<1>4. CASE CheckRelinks
  <2>1. PICK js : /\ js = joins \/ (account # NoAccount /\ js = AfterRelink(joins, account, event, {account}, {s.m : s \in check.todo}))
                  /\ joins' = Flagged(js, {s \in check.todo : js[s.m].conn # account})
    BY <1>4 DEF CheckRelinks
  <2>2. js \in Lists
    BY <1>0, <1>1, <2>1, RelinkingIsTyped
  <2>3. joins' \in Lists
    BY <2>1, <2>2, FlaggedIsTyped
  <2> QED  BY <1>0, <1>2, <1>4, <2>3 DEF CheckRelinks, JoinsTyped
<1>5. CASE CheckHears
  <2>1. check'.todo = check.todo /\ check'.pc = "heard" /\ UNCHANGED <<provider, joins, synced>>
    BY <1>1, <1>5 DEF CheckHears
  <2>2. failures' \in [Connection -> 0 .. Attention]
    <3>1. failures' = [failures EXCEPT ![check.conn] = 0] /\ 0 \in 0 .. Attention
      BY <1>5, CalendarAssumption DEF CheckHears
    <3> QED  BY <1>0, <3>1
  <2> QED  BY <1>0, <2>1, <2>2 DEF JoinsTyped
<1>6. CASE CheckFails
  <2>1. PICK n : /\ n = IF failures[check.conn] < Attention THEN failures[check.conn] + 1 ELSE Attention
                 /\ failures' = [failures EXCEPT ![check.conn] = n]
                 /\ joins' = IF n = Attention THEN Flagged(joins, check.todo) ELSE joins
    BY <1>6 DEF CheckFails
  <2>2. failures[check.conn] \in 0 .. Attention
    BY <1>0, <1>1
  <2>3. n \in 0 .. Attention
    BY <2>1, <2>2, CalendarAssumption
  <2>4. failures' \in [Connection -> 0 .. Attention] /\ joins' \in Lists
    BY <1>0, <2>1, <2>3, FlaggedIsTyped
  <2> QED  BY <1>0, <1>2, <1>6, <2>4 DEF CheckFails, JoinsTyped
<1>7. ASSUME NEW s, CheckApplies(s) PROVE JoinsTyped'
  <2>1. s \in Snapshot /\ check'.pc = "heard" /\ check'.todo \subseteq check.todo /\ UNCHANGED <<provider, synced, failures>>
        /\ Apply(check.conn, s, FromTheList(s))
    BY <1>0, <1>1, <1>7 DEF CheckApplies
  <2>2. FromTheList(s).event \in Event
    BY <1>1, ReconcileHears DEF FromTheList
  <2>3. joins' \in Lists
    BY <1>0, <1>1, <2>1, <2>2, AppliedIsTyped
  <2> QED  BY <1>0, <2>1, <2>3 DEF JoinsTyped
<1>8. ASSUME NEW s, CheckConfirms(s) PROVE JoinsTyped'
  <2>1. s \in Snapshot /\ UNCHANGED <<provider, joins, synced, failures>>
        /\ \E d : check' = [check EXCEPT !.pc = "confirmed", !.decided = d, !.on = s]
    BY <1>0, <1>8 DEF CheckConfirms
  <2>2. check'.todo = check.todo /\ check'.on = s
    BY <1>1, <2>1
  <2> QED  BY <1>0, <2>1, <2>2 DEF JoinsTyped
<1>9. CASE CheckConfirmed
  <2>1. check.on \in Snapshot /\ Apply(check.conn, check.on, check.decided) /\ UNCHANGED <<provider, synced, failures>>
        /\ check'.pc = "heard" /\ check'.todo \subseteq check.todo
    BY <1>0, <1>1, <1>9 DEF CheckConfirmed
  <2>2. joins' \in Lists
    BY <1>0, <1>1, <2>1, AppliedIsTyped
  <2> QED  BY <1>0, <2>1, <2>2 DEF JoinsTyped
<1>10. CASE CheckEnds
  BY <1>0, <1>2, <1>10 DEF CheckEnds, JoinsTyped
<1>11. CASE SyncBegins
  BY <1>0, <1>11 DEF SyncBegins, JoinsTyped
<1>12. CASE SyncHears
  BY <1>0, <1>12 DEF SyncHears, JoinsTyped
<1>13. CASE SyncStores
  <2>1. /\ joins' = AfterRelink(WithItsJoin(syncing.conn, syncing.heard), syncing.conn, syncing.heard, {syncing.conn}, Join)
        /\ synced' = synced \cup {syncing.conn} /\ UNCHANGED <<provider, check, failures>>
    BY <1>13 DEF SyncStores
  <2>2. joins' \in Lists
    BY <1>0, <1>1, <2>1, MovedJoinIsTyped, RelinkingIsTyped
  <2> QED  BY <1>0, <1>1, <2>1, <2>2 DEF JoinsTyped
<1>14. ASSUME NEW m \in Join, ScheduleEvent(m) \/ CancelSchedule(m) \/ TakeJoin(m) PROVE JoinsTyped'
  <2>1. joins' \in Lists
    <3>1. CASE ScheduleEvent(m)
      <4>1. account \in Connection
            /\ joins' = [joins EXCEPT ![m] = [st |-> "pending", conn |-> account, id |-> event.id, at |-> event.at, flag |-> FALSE]]
        BY <1>1, <3>1 DEF ScheduleEvent
      <4> QED  BY <1>0, <4>1, OneJoin
    <3>2. CASE CancelSchedule(m) \/ TakeJoin(m)
      <4>1. \E st \in {"none", "pending", "cancelled", "joined"} : joins' = [joins EXCEPT ![m].st = st]
        BY <3>2 DEF CancelSchedule, TakeJoin
      <4> QED  BY <1>0, <1>1, <4>1, OneJoin
    <3> QED  BY <1>14, <3>1, <3>2
  <2>2. UNCHANGED <<provider, synced, check, failures>>
    BY <1>14 DEF ScheduleEvent, CancelSchedule, TakeJoin
  <2> QED  BY <1>0, <2>1, <2>2 DEF JoinsTyped
<1>15. ASSUME NEW keepThem \in BOOLEAN, Disconnect(keepThem) PROVE JoinsTyped'
  <2>1. joins' \in Lists /\ synced' \subseteq synced /\ UNCHANGED <<provider, check, failures>>
    BY <1>0, <1>15, CancelledAreTyped DEF Disconnect
  <2> QED  BY <1>0, <2>1 DEF JoinsTyped
<1>16. ASSUME NEW r \in Card, SavePrep(r) \/ DraftBriefing(r) \/ PurgePrep(r) \/ Expire(r) PROVE JoinsTyped'
  BY <1>0, <1>16 DEF SavePrep, DraftBriefing, PurgePrep, Expire, JoinsTyped
<1>17. CASE Reconnect \/ SaveBriefing \/ PurgeCache \/ EventEnds
  BY <1>0, <1>17 DEF Reconnect, SaveBriefing, PurgeCache, EventEnds, JoinsTyped
<1>18. ASSUME NEW t \in Time, EventMoves(t) PROVE JoinsTyped'
  BY <1>0, <1>18 DEF EventMoves, JoinsTyped
<1>19. CASE UNCHANGED calendarVars
  BY <1>0, <1>19 DEF calendarVars, JoinsTyped
<1> QED
  BY <1>3, <1>4, <1>5, <1>6, <1>7, <1>8, <1>9, <1>10, <1>11, <1>12, <1>13, <1>14, <1>15, <1>16, <1>17, <1>18, <1>19
     DEF CalendarNext, CheckGoesOn

\* One join is pending
LEMMA JoinsBegin == CalendarInit => JoinsTyped
<1> SUFFICES ASSUME CalendarInit PROVE JoinsTyped
    OBVIOUS
<1>1. NoJoin \in JoinRow /\ [NoJoin EXCEPT !.st = "pending", !.id = 1, !.at = 1] \in JoinRow
  <2>1. 1 \in Connection /\ {0, 1} \subseteq 0 .. MaxShifts + 1 /\ {0, 1} \subseteq 0 .. LastTime
    BY CalendarAssumption DEF Connection
  <2>2. NoJoin \in JoinRow
    BY <2>1 DEF NoJoin, JoinRow
  <2>3. ASSUME NEW row \in JoinRow PROVE [row EXCEPT !.st = "pending", !.id = 1, !.at = 1] \in JoinRow
    BY <2>1 DEF JoinRow
  <2> QED  BY <2>2, <2>3
<1>2. joins \in Lists
  BY <1>1 DEF CalendarInit, Lists
<1>3. failures \in [Connection -> 0 .. Attention]
  BY CalendarAssumption DEF CalendarInit
<1>4. provider \in {"stable", "booking"} /\ synced = {1} /\ check.todo = {} /\ check.pc = "idle"
  BY DEF CalendarInit, NoCheck
<1> QED  BY <1>2, <1>3, <1>4 DEF JoinsTyped, Connection

\* The invariant gives the types
LEMMA CalendarIsTyped == EventTyped /\ PrepsInv /\ JoinsTyped => CalendarTypeOK
<1> SUFFICES ASSUME EventTyped, PrepsInv, JoinsTyped PROVE CalendarTypeOK
    OBVIOUS
<1>1. (\A m \in Join : joins[m] \in JoinRow) /\ (\A r \in Card : cards[r] \in CardRow) /\ \A c \in Connection : failures[c] \in 0 .. Attention
  BY DEF JoinsTyped, PrepsInv, Lists, Cards
<1>2. syncing.pc \in {"idle", "asked", "heard"}
  BY DEF PrepsInv, AnswersTyped
<1> QED  BY <1>1, <1>2 DEF CalendarTypeOK, EventTyped, PrepsInv, AnswersTyped, JoinsTyped

-----------------------------------------------------------------------------
(***************************************************************************)
(* Leaving (LeaveTimer)                                                    *)
(***************************************************************************)
\* The minute the cap's own heads-up is due, and the last minute a pass was made
CapWarning == SafetyCap - CapHeadsUp
LastPass == IF passed THEN now ELSE now - missed - 1

\* The clock, the heads-up and the passes, for every length of the policy
TimerTyped ==
    /\ now \in Nat /\ last \in -1..now /\ keep \in Int
    /\ warned \in [leaveAt : Int, at : Int] /\ warned.at <= now
    /\ missed \in 0..MaxMissed /\ passed \in BOOLEAN /\ (passed => missed = 0)

CapStage ==
    /\ WarnedFor(CapPlan) /\ warned.at <= CapWarning + QuietHeadsUp + 2 * MaxMissed + 1
    /\ LastPass < Max2(SafetyCap, warned.at + CapHeadsUp)

QuietStage ==
    /\ WarnedFor(QuietPlan) /\ warned.at <= CapWarning + MaxMissed + 1
    /\ LastPass < Max2(QuietPlan.at, warned.at + QuietHeadsUp)

\* The plan that is followed
QuietFirst == QuietPlan.at - QuietHeadsUp <= CapWarning

Stage ==
    IF QuietFirst THEN LastPass <= CapWarning \/ QuietStage
                  ELSE LastPass <= CapWarning + MaxMissed + QuietHeadsUp \/ CapStage

TimerInv == TimerTyped /\ (InTheCall => Stage)

\* The lengths of the policy, as the assumption orders them
LEMMA PolicyLengths ==
    /\ SafetyCap \in Nat /\ CapWarning \in Int /\ QuietHeadsUp \in Nat \ {0} /\ CapHeadsUp \in Nat /\ MaxMissed \in Nat
    /\ QuietHeadsUp < CapHeadsUp /\ CapWarning >= 0
    /\ SafetyCap = CapWarning + CapHeadsUp
    /\ SafetyCap <= MaxHours /\ SafetyCap <= ServiceMaxHours
  BY TimerAssumption DEF SafetyCap, Min2, CapWarning

\* When and why the plan for silence would leave
LEMMA QuietTyped ==
  ASSUME last \in Int, keep \in Int
  PROVE  /\ Quiet.at \in Int /\ QuietPlan.at \in Int /\ QuietPlan.at >= Quiet.at /\ QuietPlan.headsUp = QuietHeadsUp
         /\ QuietPlan.why = Quiet.why /\ Quiet.why \in {"no_one_joined", "silent", "ended_quiet"}
  BY TimerAssumption DEF Quiet, QuietPlan, AfterEnd, Max2, Never

\* A quiet leave is never due sooner after talk than its heads-up
LEMMA TalkPutsOff ==
  ASSUME last \in Nat, keep \in Int
  PROVE  QuietPlan.at >= last + QuietHeadsUp
  BY TimerAssumption DEF Quiet, QuietPlan, AfterEnd, Max2, Never

\* Of the two plans the one whose heads-up is due first is followed; they never tie
LEMMA PlanFollowed ==
  ASSUME last \in Int, keep \in Int
  PROVE  Plan = IF QuietFirst THEN QuietPlan ELSE CapPlan
<1>1. /\ CapPlan.at = SafetyCap /\ WarnAt(CapPlan) = CapWarning /\ SafetyCap \in Int /\ CapWarning \in Int
      /\ QuietPlan.at \in Int /\ WarnAt(QuietPlan) = QuietPlan.at - QuietHeadsUp /\ WarnAt(QuietPlan) \in Int
      /\ QuietHeadsUp \in Int /\ QuietHeadsUp < CapHeadsUp /\ SafetyCap = CapWarning + CapHeadsUp /\ CapHeadsUp \in Int
  BY PolicyLengths, QuietTyped DEF CapPlan, WarnAt, CapWarning
<1> DEFINE Best(p) == \A q \in {CapPlan, QuietPlan} : WarnAt(p) < WarnAt(q) \/ (WarnAt(p) = WarnAt(q) /\ p.at <= q.at)
<1>2. Plan = CHOOSE p \in {CapPlan, QuietPlan} : Best(p)
  BY DEF Plan
<1>3. CASE QuietFirst
  <2>1. WarnAt(QuietPlan) < WarnAt(CapPlan) \/ (WarnAt(QuietPlan) = WarnAt(CapPlan) /\ QuietPlan.at < CapPlan.at)
    BY <1>1, <1>3 DEF QuietFirst
  <2>2. Best(QuietPlan) /\ ~Best(CapPlan)
    BY <1>1, <2>1
  <2> HIDE DEF Best
  <2> QED BY <1>2, <1>3, <2>2
<1>4. CASE ~QuietFirst
  <2>1. WarnAt(CapPlan) < WarnAt(QuietPlan)
    BY <1>1, <1>4 DEF QuietFirst
  <2>2. Best(CapPlan) /\ ~Best(QuietPlan)
    BY <1>1, <2>1
  <2> HIDE DEF Best
  <2> QED BY <1>2, <1>4, <2>2
<1> QED BY <1>3, <1>4

\* The call begins before any heads-up
LEMMA TimerBegins == TimerInit => TimerInv
<1> SUFFICES ASSUME TimerInit PROVE TimerInv
    OBVIOUS
<1>1. TimerTyped
  <2>1. now = 0 /\ last = -1 /\ keep = -1 /\ warned = [leaveAt |-> -1, at |-> -1] /\ missed = 0 /\ passed = FALSE
    BY DEF TimerInit, Never
  <2>2. warned \in [leaveAt : Int, at : Int] /\ warned.at = -1
    BY <2>1
  <2>3. now \in Nat /\ last \in -1..now /\ keep \in Int /\ missed \in 0..MaxMissed
    BY <2>1, PolicyLengths
  <2>4. warned.at <= now
    BY <2>1, <2>2
  <2>5. passed \in BOOLEAN /\ (passed => missed = 0)
    BY <2>1, Zenon
  <2> QED BY <2>2, <2>3, <2>4, <2>5, Zenon DEF TimerTyped
<1>2. LastPass <= CapWarning
  BY PolicyLengths DEF TimerInit, LastPass
<1> QED BY <1>1, <1>2, PolicyLengths DEF TimerInv, Stage, TimerInit, LastPass

\* The invariant bounds the stay
LEMMA TimerInvSuffices == TimerInv => GoneInTime
<1> SUFFICES ASSUME TimerInv, InTheCall PROVE now <= SafetyCap + QuietHeadsUp + 3 * MaxMissed + 1
    <2>1. TimerInv => now \in Int
      BY DEF TimerInv, TimerTyped
    <2> QED BY <2>1, PolicyLengths, TimerAssumption DEF GoneInTime
<1>1. TimerTyped /\ Stage
  BY DEF TimerInv
<1>2. LastPass \in Int /\ now <= LastPass + MaxMissed + 1 /\ now \in Int
  BY <1>1, PolicyLengths DEF TimerTyped, LastPass
<1>3. QuietPlan.at \in Int /\ warned.at \in Int
  BY <1>1, QuietTyped DEF TimerTyped
<1>4. LastPass <= SafetyCap + QuietHeadsUp + 2 * MaxMissed
  <2>1. CASE QuietFirst
    BY <1>1, <1>2, <1>3, <2>1, PolicyLengths DEF Stage, QuietStage, QuietFirst, Max2
  <2>2. CASE ~QuietFirst
    BY <1>1, <1>2, <1>3, <2>2, PolicyLengths DEF Stage, CapStage, Max2
  <2> QED BY <2>1, <2>2
<1> QED BY <1>2, <1>4, PolicyLengths

\* A pass of the watchdog
LEMMA PassKeeps == ASSUME TimerInv, Pass PROVE TimerInv'
<1>1. TimerTyped /\ Stage /\ InTheCall
  BY DEF TimerInv, Pass
<1>2. UNCHANGED <<QuietPlan, QuietFirst, CapPlan, CapWarning, SafetyCap>>
  BY DEF Pass, QuietPlan, Quiet, AfterEnd, QuietFirst, CapPlan, CapWarning, SafetyCap
<1>3. LastPass \in Int /\ now <= LastPass + MaxMissed + 1 /\ now \in Int /\ LastPass' = now /\ warned.at \in Int
  BY <1>1, PolicyLengths DEF TimerTyped, LastPass, Pass
<1>4. QuietPlan.at \in Int /\ Plan = IF QuietFirst THEN QuietPlan ELSE CapPlan
  BY <1>1, QuietTyped, PlanFollowed DEF TimerTyped
<1>5. Plan.at \in Int /\ WarnAt(Plan) = Plan.at - Plan.headsUp /\ Plan.headsUp \in Int
  BY <1>4, PolicyLengths DEF QuietPlan, CapPlan, WarnAt
<1>6. warned' \in [leaveAt : Int, at : Int] /\ warned'.at <= now
  BY <1>1, <1>3, <1>5 DEF Pass, TimerTyped
<1>7. TimerTyped'
  BY <1>1, <1>6, PolicyLengths DEF TimerTyped, Pass
<1>8. ASSUME InTheCall' PROVE Stage'
  <2>1. Decision # "leave"
    <3>1. Plan.why # "no"
      BY <1>1, <1>4, QuietTyped DEF TimerTyped, CapPlan
    <3> QED BY <1>8, <3>1 DEF InTheCall, Pass
  <2>2. CASE ~WarnedFor(Plan) /\ now < WarnAt(Plan)
    <3>1. now <= CapWarning
      BY <1>3, <1>4, <1>5, <2>2, PolicyLengths DEF QuietFirst, QuietPlan, CapPlan, WarnAt, CapWarning
    <3> QED BY <1>2, <1>3, <3>1, PolicyLengths DEF Stage
  <2>3. CASE ~WarnedFor(Plan) /\ now >= WarnAt(Plan)
    <3>1. warned' = [leaveAt |-> Plan.at, at |-> now]
      BY <2>3 DEF Decision, Pass
    <3>2. now # Never
      BY <1>1 DEF TimerTyped, Never
    <3>3. CASE QuietFirst
      <4>1. Plan = QuietPlan /\ LastPass <= CapWarning
        BY <1>1, <1>4, <2>3, <3>3 DEF Stage, QuietStage
      <4>2. now <= CapWarning + MaxMissed + 1 /\ now < Max2(QuietPlan.at, now + QuietHeadsUp)
        BY <1>3, <1>4, <4>1, PolicyLengths DEF Max2
      <4>3. QuietStage'
        BY <1>2, <1>3, <3>1, <3>2, <4>1, <4>2 DEF QuietStage, WarnedFor, Max2
      <4> QED BY <1>2, <3>3, <4>3 DEF Stage
    <3>4. CASE ~QuietFirst
      <4>1. Plan = CapPlan /\ LastPass <= CapWarning + MaxMissed + QuietHeadsUp
        BY <1>1, <1>4, <2>3, <3>4 DEF Stage, CapStage
      <4>2. now <= CapWarning + QuietHeadsUp + 2 * MaxMissed + 1 /\ now < Max2(SafetyCap, now + CapHeadsUp)
        BY <1>3, <4>1, PolicyLengths DEF Max2
      <4>3. CapStage'
        BY <1>2, <1>3, <3>1, <3>2, <4>1, <4>2 DEF CapStage, WarnedFor, Max2
      <4> QED BY <1>2, <3>4, <4>3 DEF Stage
    <3> QED BY <3>3, <3>4
  <2>4. CASE WarnedFor(Plan)
    <3>1. now < Max2(Plan.at, warned.at + Plan.headsUp) /\ warned' = warned
      BY <1>3, <1>5, <2>1, <2>4 DEF Decision, Pass, Max2
    <3>2. warned.at <= now
      BY <1>1 DEF TimerTyped
    <3>3. CASE QuietFirst
      <4>1. Plan = QuietPlan /\ Plan.headsUp = QuietHeadsUp
        BY <1>4, <3>3 DEF QuietPlan
      <4>2. warned.at <= CapWarning + MaxMissed + 1
        BY <1>1, <1>3, <3>2, <3>3, PolicyLengths DEF Stage, QuietStage
      <4>3. QuietStage'
        BY <1>2, <1>3, <2>4, <3>1, <4>1, <4>2 DEF QuietStage, WarnedFor, Max2
      <4> QED BY <1>2, <3>3, <4>3 DEF Stage
    <3>4. CASE ~QuietFirst
      <4>1. Plan = CapPlan /\ Plan.headsUp = CapHeadsUp /\ Plan.at = SafetyCap
        BY <1>4, <3>4 DEF CapPlan
      <4>2. warned.at <= CapWarning + QuietHeadsUp + 2 * MaxMissed + 1
        BY <1>1, <1>3, <3>2, <3>4, PolicyLengths DEF Stage, CapStage
      <4>3. CapStage'
        BY <1>2, <1>3, <2>4, <3>1, <4>1, <4>2 DEF CapStage, WarnedFor, Max2
      <4> QED BY <1>2, <3>4, <4>3 DEF Stage
    <3> QED BY <3>3, <3>4
  <2> QED BY <1>3, <1>5, <2>2, <2>3, <2>4
<1> QED BY <1>7, <1>8 DEF TimerInv

\* What was reached while the quiet plan was followed, once it is not any more
LEMMA QuietLasts ==
  ASSUME TimerInv, InTheCall, QuietFirst
  PROVE  LastPass <= CapWarning + MaxMissed + QuietHeadsUp
<1>1. TimerTyped /\ Stage
  BY DEF TimerInv
<1>2. LastPass \in Int /\ QuietPlan.at \in Int /\ warned.at \in Int
  BY <1>1, QuietTyped, PolicyLengths DEF TimerTyped, LastPass
<1> QED BY <1>1, <1>2, PolicyLengths DEF Stage, QuietStage, QuietFirst, Max2

\* Talk: after the heads-up of the cap is due it leaves only the cap to follow
LEMMA SpeakKeeps == ASSUME TimerInv, Speak PROVE TimerInv'
<1>1. TimerTyped /\ Stage /\ InTheCall
  BY DEF TimerInv, Speak
<1>2. TimerTyped'
  BY <1>1 DEF TimerTyped, Speak
<1>3. UNCHANGED <<LastPass, CapStage, CapWarning>> /\ LastPass \in Int /\ LastPass <= now
  BY <1>1 DEF Speak, LastPass, CapStage, WarnedFor, CapPlan, SafetyCap, CapWarning, TimerTyped
<1>4. CASE QuietFirst'
  <2>1. last' \in Nat /\ keep' \in Int /\ last' = now
    BY <1>1, <1>2 DEF TimerTyped, Speak
  <2>2. QuietPlan'.at >= last' + QuietHeadsUp /\ QuietPlan'.at \in Int
    BY <2>1, TimerAssumption DEF QuietPlan, Quiet, AfterEnd, Max2, Never
  <2>3. LastPass' <= CapWarning'
    BY <1>3, <1>4, <2>1, <2>2, PolicyLengths DEF QuietFirst
  <2> QED BY <1>2, <1>4, <2>3 DEF TimerInv, Stage
<1>5. CASE ~QuietFirst'
  <2>1. LastPass <= CapWarning + MaxMissed + QuietHeadsUp \/ CapStage
    BY <1>1, QuietLasts DEF Stage
  <2> QED BY <1>2, <1>3, <1>5, <2>1 DEF TimerInv, Stage
<1> QED BY <1>4, <1>5

\* "Keep in call" is possible only before the heads-up of the cap is due
LEMMA KeepKeeps == ASSUME TimerInv, Keep PROVE TimerInv'
<1>1. TimerTyped
  BY DEF TimerInv
<1>2. ExtendedKeep(now) \in Int
  BY <1>1, PolicyLengths, TimerAssumption DEF ExtendedKeep, Min2, Max2, TimerTyped
<1>3. TimerTyped'
  BY <1>1, <1>2 DEF TimerTyped, Keep
<1>4. LastPass \in Int /\ LastPass <= now /\ LastPass' = LastPass /\ CapWarning' = CapWarning /\ now \in Int
  BY <1>1 DEF LastPass, CapWarning, SafetyCap, TimerTyped, Keep
<1>5. LastPass <= CapWarning
  BY <1>4, PolicyLengths DEF Keep, CanKeep
<1> QED BY <1>3, <1>4, <1>5, PolicyLengths DEF TimerInv, Stage

\* A minute goes by
LEMMA MinuteKeeps == ASSUME TimerInv, Minute PROVE TimerInv'
<1>1. TimerTyped /\ Stage /\ InTheCall
  BY DEF TimerInv, Minute
<1>2. TimerTyped'
  <2>1. now' \in Nat /\ now' = now + 1 /\ last' \in -1..now' /\ warned'.at <= now'
    BY <1>1 DEF TimerTyped, Minute
  <2>2. missed' \in 0..MaxMissed /\ ~passed'
    BY <1>1, PolicyLengths DEF TimerTyped, Minute
  <2> QED BY <1>1, <2>1, <2>2 DEF TimerTyped, Minute
<1>3. LastPass' = LastPass
  BY <1>1, PolicyLengths DEF LastPass, Minute, TimerTyped
<1>4. UNCHANGED <<QuietPlan, QuietFirst, CapPlan, CapWarning, SafetyCap, warned>>
  BY DEF Minute, QuietPlan, Quiet, AfterEnd, QuietFirst, CapPlan, CapWarning, SafetyCap
<1>5. UNCHANGED <<CapStage, QuietStage>>
  BY <1>3, <1>4 DEF CapStage, QuietStage, WarnedFor, Max2
<1> QED BY <1>1, <1>2, <1>3, <1>4, <1>5 DEF TimerInv, Stage

\* Every step keeps the invariant
LEMMA TimerStep == TimerInv /\ [TimerNext]_timerVars => TimerInv'
<1>1. ASSUME TimerInv, UNCHANGED timerVars PROVE TimerInv'
  BY <1>1 DEF timerVars, TimerInv, TimerTyped, Stage, CapStage, QuietStage, WarnedFor, QuietFirst, QuietPlan, Quiet, AfterEnd,
              CapPlan, CapWarning, SafetyCap, LastPass, InTheCall
<1> QED BY <1>1, PassKeeps, SpeakKeeps, KeepKeeps, MinuteKeeps DEF TimerNext

\* The assistant leaves only warned, and for silence only when it was silent
LEMMA LeavesWarned == TimerInv /\ [TimerNext]_timerVars => [gone' # gone => WarnedAndQuiet]_timerVars
<1> SUFFICES ASSUME TimerInv, TimerNext, gone' # gone PROVE WarnedAndQuiet
    BY DEF timerVars
<1>1. TimerTyped /\ Pass /\ Decision = "leave" /\ gone' = Plan.why
  BY DEF TimerInv, TimerNext, Pass, Speak, Keep, Minute, InTheCall
<1>2. now \in Int /\ last \in Int /\ keep \in Int /\ warned.at \in Int
  BY <1>1 DEF TimerTyped
<1>3. QuietPlan.at \in Int /\ Plan = IF QuietFirst THEN QuietPlan ELSE CapPlan
  BY <1>2, QuietTyped, PlanFollowed
<1>4. WarnedFor(Plan) /\ now >= Max2(Plan.at, warned.at + Plan.headsUp)
  BY <1>1 DEF Decision
<1>5. warned.at # Never /\ warned.leaveAt = Plan.at
  BY <1>4 DEF WarnedFor
<1>6. CASE QuietFirst
  <2>1. /\ now >= QuietPlan.at /\ now - warned.at >= QuietHeadsUp
        /\ gone' = Quiet.why /\ gone' # "time_limit"
    BY <1>1, <1>2, <1>3, <1>4, <1>6, QuietTyped, PolicyLengths DEF Max2
  <2>2. now >= Quiet.at
    BY <1>2, <2>1, QuietTyped
  <2>3. gone' \in {"silent", "ended_quiet"} => now - last >= Min2(QuietAfterEnd, Silence + SilenceMargin)
    BY <1>2, <2>1, <2>2, TimerAssumption DEF Quiet, AfterEnd, Max2, Min2
  <2>4. gone' = "ended_quiet" => now >= ScheduledEnd
    BY <1>2, <2>1, <2>2, TimerAssumption DEF Quiet, AfterEnd, Max2
  <2> QED BY <1>5, <2>1, <2>3, <2>4 DEF WarnedAndQuiet
<1>7. CASE ~QuietFirst
  <2>1. now - warned.at >= CapHeadsUp /\ gone' = "time_limit"
    BY <1>1, <1>2, <1>3, <1>4, <1>7, PolicyLengths DEF Max2, CapPlan
  <2> QED BY <1>5, <2>1 DEF WarnedAndQuiet
<1> QED BY <1>6, <1>7

\* What the timer keeps, within the bounds of the policy
TimerBounds ==
    /\ keep \in -1..SafetyCap
    /\ warned.leaveAt \in -1..Max2(SafetyCap, now + Silence + SilenceMargin)
    /\ warned.at \in -1..now
    /\ gone \in {"no", "time_limit", "no_one_joined", "silent", "ended_quiet"}

\* Nothing was extended or announced
LEMMA BoundsBegin == TimerInit => TimerBounds
  BY PolicyLengths, TimerAssumption DEF TimerInit, TimerBounds, Never, Max2

\* The plan that is followed is for a minute within the bounds
LEMMA PlanIsNear ==
  ASSUME TimerTyped, TimerBounds
  PROVE  /\ Plan.at \in -1..Max2(SafetyCap, now + Silence + SilenceMargin)
         /\ Plan.why \in {"time_limit", "no_one_joined", "silent", "ended_quiet"}
<1>1. /\ last \in Int /\ keep \in Int /\ now \in Nat /\ last <= now /\ last >= -1 /\ keep <= SafetyCap /\ SafetyCap \in Nat
      /\ {Silence, SilenceMargin, NoOneJoined, QuietAfterEnd} \subseteq Nat
  BY PolicyLengths, TimerAssumption DEF TimerTyped, TimerBounds
<1>2. Plan = IF QuietFirst THEN QuietPlan ELSE CapPlan
  BY <1>1, PlanFollowed
<1>3. /\ Quiet.at \in Int /\ QuietPlan.at \in Int /\ QuietPlan.at >= Quiet.at
      /\ QuietPlan.why \in {"no_one_joined", "silent", "ended_quiet"}
  BY <1>1, QuietTyped
<1>4. Quiet.at >= -1
  BY <1>1, TimerAssumption DEF Quiet, AfterEnd, Max2, Never
<1>5. CASE QuietFirst
  <2>1. QuietPlan.at <= SafetyCap
    BY <1>3, <1>5, PolicyLengths DEF QuietFirst
  <2>2. SafetyCap <= Max2(SafetyCap, now + Silence + SilenceMargin) /\ Max2(SafetyCap, now + Silence + SilenceMargin) \in Int
    BY <1>1 DEF Max2
  <2> QED  BY <1>2, <1>3, <1>4, <1>5, <2>1, <2>2, <1>1
<1>6. CASE ~QuietFirst
  <2>1. Plan.at = SafetyCap /\ Plan.why = "time_limit"
    BY <1>2, <1>6 DEF CapPlan
  <2> QED  BY <1>1, <2>1 DEF Max2
<1> QED  BY <1>5, <1>6

\* Every step of the timer
LEMMA BoundsStep == TimerInv /\ TimerBounds /\ [TimerNext]_timerVars => TimerBounds'
<1> SUFFICES ASSUME TimerInv, TimerBounds, [TimerNext]_timerVars PROVE TimerBounds'
    OBVIOUS
<1>1. TimerTyped /\ SafetyCap' = SafetyCap /\ SafetyCap \in Nat
  BY PolicyLengths DEF TimerInv, SafetyCap
<1>2. CASE Pass
  <2>1. gone' \in {"no", "time_limit", "no_one_joined", "silent", "ended_quiet"}
    BY <1>1, <1>2, PlanIsNear DEF Pass
  <2>2. warned' = warned \/ warned' = [leaveAt |-> Plan.at, at |-> now]
    BY <1>2 DEF Pass
  <2>3. warned'.leaveAt \in -1..Max2(SafetyCap, now + Silence + SilenceMargin) /\ warned'.at \in -1..now
    BY <1>1, <2>2, PlanIsNear DEF TimerBounds, TimerTyped
  <2> QED  BY <1>1, <1>2, <2>1, <2>3 DEF Pass, TimerBounds, Max2
<1>3. CASE Speak
  BY <1>1, <1>3 DEF Speak, TimerBounds, Max2
<1>4. CASE Keep
  <2>1. ExtendedKeep(now) \in -1..SafetyCap
    BY <1>1, TimerAssumption DEF ExtendedKeep, Min2, Max2, TimerTyped, TimerBounds
  <2> QED  BY <1>1, <1>4, <2>1 DEF Keep, TimerBounds, Max2
<1>5. CASE Minute
  <2>1. now \in Nat /\ now' = now + 1 /\ UNCHANGED <<last, keep, warned, gone>>
    BY <1>1, <1>5 DEF Minute, TimerTyped
  <2>2. Max2(SafetyCap, now + Silence + SilenceMargin) <= Max2(SafetyCap, now' + Silence + SilenceMargin)
    BY <1>1, <2>1, TimerAssumption DEF Max2
  <2>3. Max2(SafetyCap, now + Silence + SilenceMargin) \in Int /\ Max2(SafetyCap, now' + Silence + SilenceMargin) \in Int
    BY <1>1, <2>1, TimerAssumption DEF Max2
  <2>4. Max2(SafetyCap, now + Silence + SilenceMargin)' = Max2(SafetyCap, now' + Silence + SilenceMargin)
    BY <1>1 DEF Max2
  <2>5. keep' \in -1..SafetyCap' /\ gone' \in {"no", "time_limit", "no_one_joined", "silent", "ended_quiet"}
    BY <1>1, <2>1 DEF TimerBounds
  <2>6. warned'.leaveAt \in -1..Max2(SafetyCap, now + Silence + SilenceMargin)' /\ warned'.at \in -1..now'
    BY <1>1, <2>1, <2>2, <2>3, <2>4 DEF TimerBounds
  <2> QED  BY <2>5, <2>6 DEF TimerBounds
<1>6. CASE UNCHANGED timerVars
  BY <1>1, <1>6 DEF timerVars, TimerBounds, Max2
<1> QED  BY <1>2, <1>3, <1>4, <1>5, <1>6 DEF TimerNext

\* The invariant gives the types
LEMMA TimerIsTyped == TimerInv /\ TimerBounds => TimerTypeOK
  BY DEF TimerInv, TimerTyped, TimerBounds, TimerTypeOK

-----------------------------------------------------------------------------
(***************************************************************************)
(* Access (WorkspaceAccess)                                                *)
(***************************************************************************)
Request  == [pc : {"idle", "in", "sharing", "storing", "telling"}, who : Person, role : Role \cup {"out"},
             to : Person, gen : Nat, checked : Nat, share : Share \cup {0}]
LinkRow  == [st : {"none", "valid", "used", "revoked", "expired"}, who : Person,
             purpose : {"invite", "password_reset"}, here : BOOLEAN, ends : {0, 1}]
ShareRow == [st : {"none", "live", "revoked", "left"}, who : Person, gen : Nat, checked : Nat]
MailRow  == [st : {"none", "pending", "sending", "sent", "failed", "cancelled"}, to : Person, of : Share \cup {0},
             tries : Nat, due : BOOLEAN, age : {0, 1, 2}, got : {0, 1}, slipped : BOOLEAN]

\* The types of every variable; dates and attempts without their bounds
AccountTypes ==
    /\ roles \in [Person -> Role \cup {"out"}]
    /\ joined \in [Person -> Nat]
    /\ accounts \in [Person -> AccountRow]
    /\ links \in [Link -> LinkRow]
    /\ opening \in [Opener -> Link \cup {0}]
SharingTypes ==
    /\ asked \in [Clerk -> Request]
    /\ shares \in [Share -> ShareRow]

-----------------------------------------------------------------------------
(***************************************************************************)
(* The parts of the invariant                                              *)
(***************************************************************************)
SomebodyOwns == \E p \in Person : roles[p] = "owner"

\* A link that can still end has not ended
Unended(ls) == ls \in [Link -> LinkRow] /\ \A l \in Link : ls[l].st \in {"none", "valid"} => ls[l].ends = 0

SharesAreDated ==
    \A s \in Share : shares[s].gen <= shares[s].checked /\ shares[s].checked <= joined[shares[s].who]

\* What a request knows is no younger than the memberships there are
Dated(r, dates) ==
    /\ r.pc \in {"sharing", "storing"} => r.gen <= dates[r.to]
    /\ r.pc = "storing" => r.gen <= r.checked /\ r.checked <= dates[r.to]
    /\ r.pc = "telling" => r.share \in Share

\* An e-mail the provider may have taken was tried
Tried(m) == m.tries = 0 => m.got = 0

\* While it is being sent again, the provider knows its key
KeyKnown(m) == m.st = "sending" /\ m.tries > 0 /\ (m.got = 0 \/ m.age # 2)

\* What says that somebody has access, after that has ended, slipped through before
Silent(m, sh) == m.st \in {"pending", "sending"} /\ m.of # 0 => m.slipped \/ sh[m.of].st # "revoked"

\* An outbox in order
Fine(ms, sh) ==
    /\ ms \in [Mail -> MailRow]
    /\ \A r \in Mail : Tried(ms[r]) /\ Silent(ms[r], sh) /\ (posting = r => KeyKnown(ms[r]))

AccountsInv == AccountTypes /\ SomebodyOwns /\ Unended(links)
SharesInv   == SharingTypes /\ SharesAreDated /\ \A c \in Clerk : Dated(asked[c], joined)
MailsInv    == posting \in Mail \cup {0} /\ Fine(mails, shares)
AccessInv   == AccountsInv /\ SharesInv /\ MailsInv

USE AccessAssumption

\* A new workspace
LEMMA AccessBegins == AccessInit => AccessInv
<1> SUFFICES ASSUME AccessInit PROVE AccessInv  OBVIOUS
<1>1. /\ joined = [p \in Person |-> 1]
      /\ links = [l \in Link |-> NoLink] /\ opening = [o \in Opener |-> 0]
      /\ asked = [c \in Clerk |-> Idle]
      /\ shares = [s \in Share |-> NoShare] /\ mails = [r \in Mail |-> NoMail]
      /\ posting = 0
    BY DEF AccessInit
<1>2. /\ roles \in [Person -> Role \cup {"out"}] /\ accounts \in [Person -> AccountRow]
      /\ roles[Founder] = "owner"
    BY DEF AccessInit, Role, AccountRow
<1>3. AccountsInv
    BY <1>1, <1>2 DEF AccountsInv, AccountTypes, SomebodyOwns, Unended, LinkRow, NoLink
<1>4. SharesInv
    BY <1>1 DEF SharesInv, SharingTypes, SharesAreDated, Dated, Request, ShareRow, Idle, NoShare, Role
<1>5. MailsInv
    BY <1>1 DEF MailsInv, Fine, Tried, Silent, KeyKnown, MailRow, NoMail
<1> QED  BY <1>3, <1>4, <1>5 DEF AccessInv

-----------------------------------------------------------------------------
(***************************************************************************)
(* Memberships and links                                                   *)
(***************************************************************************)

\* Ending a valid link counts its first end
LEMMA FirstEnd ==
    ASSUME Unended(links), NEW l \in Link, links[l].st = "valid", NEW how \in {"used", "revoked", "expired"}
    PROVE  Ended(l, how) \in LinkRow /\ Ended(l, how).st = how
<1> DEFINE x == links[l]
<1>1. x \in LinkRow /\ x.ends = 0  BY DEF Unended
<1>2. Ended(l, how) = [x EXCEPT !.st = how, !.ends = x.ends + 1]  BY DEF Ended
<1>3. x.ends + 1 = 1  BY <1>1
<1> HIDE DEF x
<1>4. Ended(l, how) = [st |-> how, who |-> x.who, purpose |-> x.purpose, here |-> x.here, ends |-> 1]
    BY <1>1, <1>2, <1>3 DEF LinkRow
<1> QED  BY <1>1, <1>4 DEF LinkRow

\* revoke_links() ends links that have not ended
LEMMA RevokedEndsOnce == ASSUME Unended(links), NEW sel PROVE Unended(Revoked(sel))
<1> SUFFICES ASSUME NEW l \in Link
             PROVE  Revoked(sel)[l] \in LinkRow /\ (Revoked(sel)[l].st \in {"none", "valid"} => Revoked(sel)[l].ends = 0)
    BY DEF Unended, Revoked
<1>1. CASE links[l].st = "valid" /\ l \in sel
    BY <1>1, FirstEnd DEF Revoked
<1>2. CASE ~(links[l].st = "valid" /\ l \in sel)
    BY <1>2 DEF Revoked, Unended
<1> QED  BY <1>1, <1>2

\* issue_link() writes a new one
LEMMA IssuedEndsOnce ==
    ASSUME Unended(links), RoomForLink, NEW p \in Person, NEW purpose \in {"invite", "password_reset"}, NEW here \in BOOLEAN
    PROVE  Unended(Issued(p, purpose, here))
<1> DEFINE older == {l \in Link : links[l].who = p /\ links[l].purpose = purpose}
           fresh == CHOOSE l \in Link : links[l].st = "none"
           new == [NoLink EXCEPT !.st = "valid", !.who = p, !.purpose = purpose, !.here = here]
<1>1. Unended(Revoked(older))  BY RevokedEndsOnce
<1>2. new \in LinkRow /\ new.ends = 0  BY DEF NoLink, LinkRow
<1>3. Issued(p, purpose, here) = [Revoked(older) EXCEPT ![fresh] = new]  BY DEF Issued
<1> HIDE DEF older, fresh, new
<1> QED  BY <1>1, <1>2, <1>3 DEF Unended

\* Somebody else is an owner when an owner steps down
LEMMA OwnerStays ==
    ASSUME AccountsInv, NEW p \in Person, NEW role \in Role \cup {"out"},
           role # "owner" => MayStepDown(p), roles' = [roles EXCEPT ![p] = role]
    PROVE  roles' \in [Person -> Role \cup {"out"}] /\ SomebodyOwns'
BY DEF AccountsInv, AccountTypes, SomebodyOwns, MayStepDown, Role

\* Every action that changes a membership, an account or a link keeps its part
LEMMA AccountsStep == AccountsInv /\ [AccessNext]_accessVars => AccountsInv'
<1> SUFFICES ASSUME AccountsInv, [AccessNext]_accessVars PROVE AccountsInv'  OBVIOUS
<1> USE DEF AccountsInv
<1>1. ASSUME NEW c \in Clerk, NEW p \in Person, NEW role \in Role, InvitePerson(c, p, role)
      PROVE  AccountsInv'
    <2>1. /\ roles[p] = "out" /\ roles' = [roles EXCEPT ![p] = role] /\ joined' = [joined EXCEPT ![p] = @ + 1]
          /\ opening' = opening
        BY <1>1 DEF InvitePerson
    <2>2. accounts' \in [Person -> AccountRow]  BY <1>1 DEF InvitePerson, AccountTypes, AccountRow
    <2>3. Unended(links')  BY <1>1, IssuedEndsOnce DEF InvitePerson
    <2>4. roles' \in [Person -> Role \cup {"out"}] /\ SomebodyOwns'
        BY <2>1, OwnerStays DEF MayStepDown
    <2> QED  BY <2>1, <2>2, <2>3, <2>4 DEF AccountTypes, Unended
<1>2. ASSUME NEW c \in Clerk, NEW p \in Person, NEW role \in Role, ChangeMemberRole(c, p, role)
      PROVE  AccountsInv'
    <2>1. roles' = [roles EXCEPT ![p] = role] /\ (role # "owner" => MayStepDown(p))
          /\ UNCHANGED <<joined, accounts, links, opening>>
        BY <1>2 DEF ChangeMemberRole
    <2>2. roles' \in [Person -> Role \cup {"out"}] /\ SomebodyOwns'  BY <2>1, OwnerStays
    <2> QED  BY <2>1, <2>2 DEF AccountTypes, Unended
<1>3. ASSUME NEW c \in Clerk, NEW p \in Person, RemoveMember(c, p)
      PROVE  AccountsInv'
    <2>1. roles' = [roles EXCEPT ![p] = "out"] /\ MayStepDown(p) /\ UNCHANGED <<joined, accounts, opening>>
        BY <1>3 DEF RemoveMember
    <2>2. roles' \in [Person -> Role \cup {"out"}] /\ SomebodyOwns'  BY <2>1, OwnerStays
    <2>3. Unended(links')  BY <1>3, RevokedEndsOnce DEF RemoveMember
    <2> QED  BY <2>1, <2>2, <2>3 DEF AccountTypes, Unended
<1>4. ASSUME NEW c \in Clerk, NEW p \in Person, ResendInvite(c, p)
      PROVE  AccountsInv'
    <2>1. UNCHANGED <<roles, joined, accounts, opening>> /\ Unended(links')
        BY <1>4, IssuedEndsOnce DEF ResendInvite
    <2> QED  BY <2>1 DEF AccountTypes, Unended, SomebodyOwns
<1>5. ASSUME NEW c \in Clerk, NEW p \in Person, ResetAccess(c, p)
      PROVE  AccountsInv'
    <2>1. UNCHANGED <<roles, joined, opening>> /\ Unended(links')
        BY <1>5, IssuedEndsOnce DEF ResetAccess
    <2>2. accounts' = [accounts EXCEPT ![p].usable = FALSE, ![p].signedIn = FALSE]  BY <1>5 DEF ResetAccess
    <2>3. accounts' \in [Person -> AccountRow]  BY <2>2 DEF AccountTypes, AccountRow
    <2> QED  BY <2>1, <2>3 DEF AccountTypes, Unended, SomebodyOwns
<1>6. ASSUME NEW p \in Person, RequestReset(p) \/ SignIn(p)
      PROVE  AccountsInv'
    <2>1. UNCHANGED <<roles, joined, opening>>  BY <1>6 DEF RequestReset, SignIn
    <2>2. [accounts EXCEPT ![p].signedIn = TRUE] \in [Person -> AccountRow]  BY DEF AccountTypes, AccountRow
    <2>3. accounts' = accounts \/ accounts' = [accounts EXCEPT ![p].signedIn = TRUE]  BY <1>6 DEF RequestReset, SignIn
    <2>4. accounts' \in [Person -> AccountRow]  BY <2>2, <2>3 DEF AccountTypes
    <2>5. Unended(links')  BY <1>6, IssuedEndsOnce DEF RequestReset, SignIn
    <2> QED  BY <2>1, <2>4, <2>5 DEF AccountTypes, Unended, SomebodyOwns
<1>7. ASSUME NEW l \in Link, LinkLapses(l)
      PROVE  AccountsInv'
    <2>1. UNCHANGED <<roles, joined, accounts, opening>> /\ links[l].st = "valid"
          /\ links' = [links EXCEPT ![l] = Ended(l, "expired")]
        BY <1>7 DEF LinkLapses
    <2>2. Ended(l, "expired") \in LinkRow /\ Ended(l, "expired").st = "expired"
        BY <2>1, FirstEnd
    <2>3. Unended(links')  BY <2>1, <2>2 DEF Unended
    <2> QED  BY <2>1, <2>3 DEF AccountTypes, Unended, SomebodyOwns
<1>8. ASSUME NEW l \in Link, NEW o \in Opener, AcceptBegins(o, l)
      PROVE  AccountsInv'
    BY <1>8 DEF AcceptBegins, AccountTypes, Unended, SomebodyOwns
<1>9. ASSUME NEW o \in Opener, AcceptEnds(o)
      PROVE  AccountsInv'
    <2> DEFINE l == opening[o]
               p == links[l].who
               others == {k \in Link \ {l} : links[k].who = p}
    <2>1. UNCHANGED <<roles, joined>> /\ opening' = [opening EXCEPT ![o] = 0] /\ l \in Link
        BY <1>9 DEF AcceptEnds, AccountTypes
    <2>2. CASE Claimable(l) /\ roles[p] # "out"
        <3>1. /\ links' = [Revoked(others) EXCEPT ![l] = Ended(l, "used")]
              /\ accounts' = [accounts EXCEPT ![p] = [st |-> "active", usable |-> TRUE, signedIn |-> TRUE]]
            BY <1>9, <2>2 DEF AcceptEnds
        <3>2. Ended(l, "used") \in LinkRow /\ Ended(l, "used").st = "used"
            BY <2>1, <2>2, FirstEnd DEF Claimable
        <3>3. Unended(Revoked(others))  BY RevokedEndsOnce
        <3>4. Unended(links')
            <4> HIDE DEF l, others
            <4> QED  BY <3>1, <3>2, <3>3 DEF Unended
        <3>5. accounts' \in [Person -> AccountRow]  BY <3>1 DEF AccountTypes, AccountRow
        <3> QED  BY <2>1, <3>4, <3>5 DEF AccountTypes, Unended, SomebodyOwns
    <2>3. CASE ~(Claimable(l) /\ roles[p] # "out")
        <3>1. UNCHANGED <<links, accounts>>  BY <1>9, <2>3 DEF AcceptEnds
        <3> QED  BY <2>1, <3>1 DEF AccountTypes, Unended, SomebodyOwns
    <2> QED  BY <2>2, <2>3
<1>10. ASSUME UNCHANGED <<roles, joined, accounts, links, opening>>
       PROVE  AccountsInv'
    BY <1>10 DEF AccountTypes, Unended, SomebodyOwns
<1> QED
    BY <1>1, <1>2, <1>3, <1>4, <1>5, <1>6, <1>7, <1>8, <1>9, <1>10
    DEF AccessNext, accessVars, mailVars, RequestBegins, ShareBegins, ShareChecks, ShareStores, ShareTells, RevokeShare,
        LeaseMail, MailDue, MailAges, MailSent, MailUncertain, MailWorkerEnds

-----------------------------------------------------------------------------
(***************************************************************************)
(* Requests and shares                                                     *)
(***************************************************************************)

\* Memberships only grow younger
LEMMA DatesGrow ==
    ASSUME AccountsInv, [AccessNext]_accessVars
    PROVE  joined' \in [Person -> Nat] /\ \A p \in Person : joined[p] <= joined'[p]
<1>1. joined' = joined \/ \E c \in Clerk, p \in Person, role \in Role : InvitePerson(c, p, role)
    <2>1. ASSUME NEW c \in Clerk, NEW p \in Person,
                 RequestBegins(c, p) \/ RemoveMember(c, p) \/ ResendInvite(c, p) \/ ResetAccess(c, p) \/ ShareBegins(c, p)
                 \/ (\E role \in Role : ChangeMemberRole(c, p, role))
                 \/ ShareChecks(c) \/ ShareStores(c) \/ ShareTells(c) \/ (\E s \in Share : RevokeShare(c, s))
          PROVE  joined' = joined
        BY <2>1 DEF RequestBegins, RemoveMember, ResendInvite, ResetAccess, ShareBegins, ChangeMemberRole,
                    ShareChecks, ShareStores, ShareTells, RevokeShare
    <2>2. ASSUME NEW p \in Person, RequestReset(p) \/ SignIn(p) PROVE joined' = joined
        BY <2>2 DEF RequestReset, SignIn
    <2>3. ASSUME NEW o \in Opener, AcceptEnds(o) \/ (\E l \in Link : AcceptBegins(o, l)) PROVE joined' = joined
        BY <2>3 DEF AcceptBegins, AcceptEnds
    <2>4. ASSUME NEW r \in Mail, LeaseMail(r) \/ MailDue(r) \/ MailAges(r) PROVE joined' = joined
        BY <2>4 DEF LeaseMail, MailDue, MailAges
    <2>5. ASSUME NEW taken \in BOOLEAN, MailSent \/ MailUncertain(taken) \/ MailWorkerEnds(taken) PROVE joined' = joined
        BY <2>5 DEF MailSent, MailUncertain, MailWorkerEnds
    <2>6. ASSUME NEW l \in Link, LinkLapses(l) PROVE joined' = joined
        BY <2>6 DEF LinkLapses
    <2> QED  BY <2>1, <2>2, <2>3, <2>4, <2>5, <2>6 DEF AccessNext, accessVars
<1>2. joined' = joined \/ \E p \in Person : joined' = [joined EXCEPT ![p] = @ + 1]
    BY <1>1 DEF InvitePerson
<1> QED  BY <1>2 DEF AccountsInv, AccountTypes

\* A step of one request leaves the others as well dated as they were
LEMMA RequestMoves ==
    ASSUME AccountsInv, SharesInv, [AccessNext]_accessVars,
           NEW c \in Clerk, NEW r \in Request, Dated(r, joined), asked' = [asked EXCEPT ![c] = r]
    PROVE  asked' \in [Clerk -> Request] /\ \A d \in Clerk : Dated(asked'[d], joined')
<1>1. joined \in [Person -> Nat] /\ joined' \in [Person -> Nat] /\ \A p \in Person : joined[p] <= joined'[p]
    BY DatesGrow DEF AccountsInv, AccountTypes
<1>2. asked' \in [Clerk -> Request] /\ \A d \in Clerk : asked'[d] \in Request /\ Dated(asked'[d], joined)
    BY DEF SharesInv, SharingTypes
<1>3. ASSUME NEW q \in Request, Dated(q, joined) PROVE Dated(q, joined')
    <2>1. q.to \in Person /\ q.gen \in Nat /\ q.checked \in Nat  BY DEF Request
    <2> QED  BY <1>1, <1>3, <2>1 DEF Dated
<1> QED  BY <1>2, <1>3

\* Shares whose dates stay are no younger than the memberships
LEMMA SharesStayDated ==
    ASSUME AccountsInv, SharesInv, [AccessNext]_accessVars, shares' \in [Share -> ShareRow],
           \A s \in Share : \/ shares'[s].who = shares[s].who /\ shares'[s].gen = shares[s].gen
                               /\ shares'[s].checked = shares[s].checked
                            \/ shares'[s].gen <= shares'[s].checked
                               /\ shares'[s].checked <= joined'[shares'[s].who]
    PROVE  SharesAreDated'
<1>1. joined \in [Person -> Nat] /\ joined' \in [Person -> Nat] /\ \A p \in Person : joined[p] <= joined'[p]
    BY DatesGrow DEF AccountsInv, AccountTypes
<1>2. SUFFICES ASSUME NEW s \in Share
               PROVE  shares'[s].gen <= shares'[s].checked /\ shares'[s].checked <= joined'[shares'[s].who]
    BY DEF SharesAreDated
<1>3. shares[s] \in ShareRow  BY DEF SharesInv, SharingTypes
<1>4. shares[s].who \in Person /\ shares[s].gen \in Nat /\ shares[s].checked \in Nat  BY <1>3 DEF ShareRow
<1>5. shares[s].gen <= shares[s].checked /\ shares[s].checked <= joined[shares[s].who]
    BY DEF SharesInv, SharesAreDated
<1> QED  BY <1>1, <1>4, <1>5

\* Every action on a request or a share keeps its part
LEMMA SharesStep == AccountsInv /\ SharesInv /\ [AccessNext]_accessVars => SharesInv'
<1> SUFFICES ASSUME AccountsInv, SharesInv, [AccessNext]_accessVars PROVE SharesInv'  OBVIOUS
<1>0. /\ asked \in [Clerk -> Request] /\ shares \in [Share -> ShareRow]
      /\ joined \in [Person -> Nat] /\ roles \in [Person -> Role \cup {"out"}]
    BY DEF SharesInv, SharingTypes, AccountsInv, AccountTypes
<1>1. ASSUME NEW c \in Clerk, Answered(c) \/ asked' = asked,
             shares' = shares \/ \E s \in Share, how \in {"revoked"} : shares' = [shares EXCEPT ![s].st = how]
      PROVE  SharesInv'
    <2>1. Idle \in Request /\ Dated(Idle, joined)  BY DEF Idle, Request, Role, Dated
    <2>2. asked[c] \in Request /\ Dated(asked[c], joined) /\ (asked' = asked => asked' = [asked EXCEPT ![c] = asked[c]])
        BY <1>0 DEF SharesInv
    <2>3. asked' \in [Clerk -> Request] /\ \A d \in Clerk : Dated(asked'[d], joined')
        BY <1>1, <2>1, <2>2, RequestMoves DEF Answered
    <2>4. shares' \in [Share -> ShareRow]
          /\ \A s \in Share : shares'[s].who = shares[s].who /\ shares'[s].gen = shares[s].gen
                              /\ shares'[s].checked = shares[s].checked
        BY <1>0, <1>1 DEF ShareRow
    <2> QED  BY <2>3, <2>4, SharesStayDated DEF SharesInv, SharingTypes
<1>2. ASSUME NEW c \in Clerk, NEW p \in Person, RequestBegins(c, p) PROVE SharesInv'
    <2> DEFINE r == [Idle EXCEPT !.pc = "in", !.who = p, !.role = roles[p]]
    <2>1. r \in Request /\ Dated(r, joined)  BY <1>0 DEF Idle, Request, Dated
    <2>2. asked' = [asked EXCEPT ![c] = r] /\ shares' = shares  BY <1>2 DEF RequestBegins
    <2> HIDE DEF r
    <2>3. asked' \in [Clerk -> Request] /\ \A d \in Clerk : Dated(asked'[d], joined')
        BY <2>1, <2>2, RequestMoves
    <2> QED  BY <1>0, <2>2, <2>3, SharesStayDated DEF SharesInv, SharingTypes
<1>3. ASSUME NEW c \in Clerk, NEW p \in Person, ShareBegins(c, p) PROVE SharesInv'
    <2> DEFINE r == [asked[c] EXCEPT !.pc = "sharing", !.to = p, !.gen = joined[p]]
    <2>0. asked[c] \in Request /\ joined[p] \in Nat  BY <1>0
    <2>1. r \in Request /\ r.pc = "sharing" /\ r.to = p /\ r.gen = joined[p]  BY <2>0 DEF Request
    <2>4. Dated(r, joined)
        <3> HIDE DEF r
        <3> QED  BY <2>0, <2>1 DEF Dated
    <2>2. asked' = [asked EXCEPT ![c] = r] /\ shares' = shares  BY <1>0, <1>3 DEF ShareBegins
    <2> HIDE DEF r
    <2>3. asked' \in [Clerk -> Request] /\ \A d \in Clerk : Dated(asked'[d], joined')
        BY <2>1, <2>2, <2>4, RequestMoves
    <2> QED  BY <1>0, <2>2, <2>3, SharesStayDated DEF SharesInv, SharingTypes
<1>4. ASSUME NEW c \in Clerk, ShareChecks(c) PROVE SharesInv'
    <2> DEFINE r == [asked[c] EXCEPT !.pc = "storing", !.checked = joined[asked[c].to]]
    <2>1. CASE Answered(c)  BY <1>1, <1>4, <2>1 DEF ShareChecks
    <2>2. CASE ~Answered(c)
        <3>1. asked' = [asked EXCEPT ![c] = r] /\ shares' = shares /\ asked[c].pc = "sharing"
            BY <1>0, <1>4, <2>2 DEF ShareChecks
        <3>2. asked[c] \in Request /\ asked[c].gen <= joined[asked[c].to]
            BY <1>0, <3>1 DEF SharesInv, Dated
        <3>5. asked[c].to \in Person /\ joined[asked[c].to] \in Nat  BY <1>0, <3>2 DEF Request
        <3>6. /\ r \in Request /\ r.pc = "storing" /\ r.to = asked[c].to /\ r.gen = asked[c].gen
              /\ r.checked = joined[asked[c].to]
            BY <3>2, <3>5 DEF Request
        <3>7. Dated(r, joined)
            <4> HIDE DEF r
            <4> QED  BY <3>2, <3>5, <3>6 DEF Dated
        <3> HIDE DEF r
        <3>4. asked' \in [Clerk -> Request] /\ \A d \in Clerk : Dated(asked'[d], joined')
            BY <3>1, <3>6, <3>7, RequestMoves
        <3> QED  BY <1>0, <3>1, <3>4, SharesStayDated DEF SharesInv, SharingTypes
    <2> QED  BY <2>1, <2>2
<1>5. ASSUME NEW c \in Clerk, ShareStores(c) PROVE SharesInv'
    <2>1. CASE Shared(asked[c].to)  BY <1>1, <1>5, <2>1 DEF ShareStores
    <2>2. CASE ~Shared(asked[c].to)
        <3>1. PICK s \in Share :
                 /\ shares' = [shares EXCEPT ![s] = [st |-> "live", who |-> asked[c].to, gen |-> asked[c].gen, checked |-> asked[c].checked]]
                 /\ asked' = [asked EXCEPT ![c].pc = "telling", ![c].share = s]
            BY <1>5, <2>2 DEF ShareStores
        <3> DEFINE r == [asked[c] EXCEPT !.pc = "telling", !.share = s]
                   new == [st |-> "live", who |-> asked[c].to, gen |-> asked[c].gen, checked |-> asked[c].checked]
        <3>2. asked[c] \in Request /\ asked[c].gen <= asked[c].checked /\ asked[c].checked <= joined[asked[c].to]
            BY <1>0, <1>5 DEF SharesInv, Dated, ShareStores
        <3>3. r \in Request /\ Dated(r, joined)  BY <3>2 DEF Request, Dated
        <3>4. asked' = [asked EXCEPT ![c] = r] /\ shares' = [shares EXCEPT ![s] = new]  BY <1>0, <3>1
        <3>5. joined' = joined /\ new \in ShareRow /\ new.gen <= new.checked /\ new.checked <= joined[new.who]
            BY <1>5, <3>2 DEF ShareStores, Request, ShareRow
        <3> HIDE DEF r, new
        <3>6. asked' \in [Clerk -> Request] /\ \A d \in Clerk : Dated(asked'[d], joined')
            BY <3>3, <3>4, RequestMoves
        <3>7. shares' \in [Share -> ShareRow]  BY <1>0, <3>4, <3>5
        <3>8. \A i \in Share : shares'[i] = IF i = s THEN new ELSE shares[i]  BY <1>0, <3>4
        <3> QED  BY <3>5, <3>6, <3>7, <3>8, SharesStayDated DEF SharesInv, SharingTypes
    <2> QED  BY <2>1, <2>2
<1>6. ASSUME NEW c \in Clerk, NEW p \in Person, RemoveMember(c, p) PROVE SharesInv'
    <2>1. Idle \in Request /\ Dated(Idle, joined)  BY DEF Idle, Request, Role, Dated
    <2>2. asked' = [asked EXCEPT ![c] = Idle]
          /\ shares' = [s \in Share |-> IF shares[s].who = p /\ shares[s].st = "live" THEN [shares[s] EXCEPT !.st = "left"] ELSE shares[s]]
        BY <1>6 DEF RemoveMember, Answered
    <2>3. asked' \in [Clerk -> Request] /\ \A d \in Clerk : Dated(asked'[d], joined')
        BY <2>1, <2>2, RequestMoves
    <2>4. shares' \in [Share -> ShareRow]
          /\ \A s \in Share : shares'[s].who = shares[s].who /\ shares'[s].gen = shares[s].gen
                              /\ shares'[s].checked = shares[s].checked
        BY <1>0, <2>2 DEF ShareRow
    <2> QED  BY <2>3, <2>4, SharesStayDated DEF SharesInv, SharingTypes
<1>7. ASSUME UNCHANGED <<asked, shares>> PROVE SharesInv'
    <2>1. asked' \in [Clerk -> Request] /\ \A d \in Clerk : Dated(asked'[d], joined')
        <3> SUFFICES ASSUME NEW d \in Clerk PROVE Dated(asked'[d], joined')  BY <1>0, <1>7
        <3>1. asked[d] \in Request /\ Dated(asked[d], joined) /\ asked' = [asked EXCEPT ![d] = asked[d]]
            BY <1>0, <1>7 DEF SharesInv
        <3> QED  BY <3>1, RequestMoves
    <2> QED  BY <1>0, <1>7, <2>1, SharesStayDated DEF SharesInv, SharingTypes
<1>8. ASSUME NEW c \in Clerk, NEW p \in Person, NEW role \in Role,
             \/ InvitePerson(c, p, role) \/ ChangeMemberRole(c, p, role) \/ ResendInvite(c, p) \/ ResetAccess(c, p)
      PROVE  SharesInv'
    <2>1. Answered(c) /\ shares' = shares  BY <1>8 DEF InvitePerson, ChangeMemberRole, ResendInvite, ResetAccess
    <2> QED  BY <1>1, <2>1
<1>9. ASSUME NEW c \in Clerk, NEW s \in Share, RevokeShare(c, s) PROVE SharesInv'
    <2>1. Answered(c) /\ shares' = [shares EXCEPT ![s].st = "revoked"]  BY <1>9 DEF RevokeShare
    <2> QED  BY <1>1, <2>1
<1>10. ASSUME NEW c \in Clerk, ShareTells(c) PROVE SharesInv'
    <2>1. Answered(c) /\ shares' = shares  BY <1>10 DEF ShareTells
    <2> QED  BY <1>1, <2>1
<1>11. \/ \E c \in Clerk, p \in Person :
             \/ RequestBegins(c, p) \/ RemoveMember(c, p) \/ ShareBegins(c, p)
             \/ \E role \in Role : InvitePerson(c, p, role) \/ ChangeMemberRole(c, p, role) \/ ResendInvite(c, p) \/ ResetAccess(c, p)
       \/ \E c \in Clerk : ShareChecks(c) \/ ShareStores(c) \/ ShareTells(c) \/ \E s \in Share : RevokeShare(c, s)
       \/ UNCHANGED <<asked, shares>>
    BY DEF AccessNext, accessVars, mailVars, RequestReset, SignIn, LinkLapses, AcceptBegins, AcceptEnds, Role,
           LeaseMail, MailDue, MailAges, MailSent, MailUncertain, MailWorkerEnds
<1> QED  BY <1>2, <1>3, <1>4, <1>5, <1>6, <1>7, <1>8, <1>9, <1>10, <1>11

-----------------------------------------------------------------------------
(***************************************************************************)
(* E-mails                                                                 *)
(***************************************************************************)

\* Queuing an e-mail takes a row nobody is sending
LEMMA QueuedIsFine ==
    ASSUME NEW ms, NEW sh, Fine(ms, sh), NEW p \in Person, NEW s \in Share \cup {0}, NEW slipped \in BOOLEAN,
           s # 0 => slipped \/ sh[s].st # "revoked"
    PROVE  Fine(Queued(ms, p, s, slipped), sh)
<1> DEFINE r == CHOOSE i \in Mail : ms[i].st = "none"
           new == [NoMail EXCEPT !.st = "pending", !.to = p, !.of = s, !.due = TRUE, !.slipped = slipped]
<1>1. CASE roles[p] = "out" \/ ~\E i \in Mail : ms[i].st = "none"  BY <1>1 DEF Queued
<1>2. CASE ~(roles[p] = "out" \/ ~\E i \in Mail : ms[i].st = "none")
    <2>1. Queued(ms, p, s, slipped) = [ms EXCEPT ![r] = new]  BY <1>2 DEF Queued
    <2>2. r \in Mail /\ ms[r].st = "none"  BY <1>2
    <2>3. new \in MailRow /\ Tried(new) /\ Silent(new, sh)  BY DEF NoMail, MailRow, Tried, Silent
    <2>4. posting # r  BY <2>2 DEF Fine, KeyKnown
    <2> HIDE DEF r, new
    <2> QED  BY <2>1, <2>2, <2>3, <2>4 DEF Fine
<1> QED  BY <1>1, <1>2

\* A change of one row
LEMMA RowIsFine ==
    ASSUME Fine(mails, shares), shares' = shares, NEW r \in Mail, NEW m \in MailRow,
           mails' = [mails EXCEPT ![r] = m], Tried(m), Silent(m, shares),
           posting' = r => KeyKnown(m),
           \A i \in Mail \ {r} : posting' = i => posting = i
    PROVE  Fine(mails, shares)'
BY DEF Fine, Tried, Silent, KeyKnown

\* Shares that are not revoked silence nothing
LEMMA OtherSharesAreFine ==
    ASSUME MailsInv, UNCHANGED mailVars,
           \A s \in Share : shares'[s].st = "revoked" => shares[s].st = "revoked"
    PROVE  MailsInv'
BY DEF MailsInv, Fine, mailVars, Tried, Silent, KeyKnown, MailRow

\* Every action on an e-mail, a share or a membership keeps the outbox in order
LEMMA MailsStep == AccountsInv /\ SharesInv /\ MailsInv /\ [AccessNext]_accessVars => MailsInv'
<1> SUFFICES ASSUME AccountsInv, SharesInv, MailsInv, [AccessNext]_accessVars PROVE MailsInv'  OBVIOUS
<1>0. /\ mails \in [Mail -> MailRow] /\ posting \in Mail \cup {0} /\ 0 \notin Mail
      /\ shares \in [Share -> ShareRow] /\ 0 \notin Share /\ asked \in [Clerk -> Request]
      /\ Fine(mails, shares)
    BY DEF MailsInv, Fine, SharesInv, SharingTypes
<1>1. ASSUME NEW c \in Clerk, NEW p \in Person, NEW role \in Role, ChangeMemberRole(c, p, role) PROVE MailsInv'
    <2>1. mails' = Queued(mails, p, 0, FALSE) /\ UNCHANGED <<shares, posting>>  BY <1>1 DEF ChangeMemberRole
    <2>2. Fine(Queued(mails, p, 0, FALSE), shares)  BY <1>0, QueuedIsFine
    <2> QED  BY <1>0, <2>1, <2>2 DEF MailsInv, Fine
<1>2. ASSUME NEW c \in Clerk, NEW p \in Person, RemoveMember(c, p) PROVE MailsInv'
    <2>1. UNCHANGED mailVars
          /\ shares' = [s \in Share |-> IF shares[s].who = p /\ shares[s].st = "live" THEN [shares[s] EXCEPT !.st = "left"] ELSE shares[s]]
        BY <1>2 DEF RemoveMember
    <2>2. \A s \in Share : shares'[s].st = "revoked" => shares[s].st = "revoked"
        BY <1>0, <2>1 DEF ShareRow
    <2> QED  BY <2>1, <2>2, OtherSharesAreFine
<1>3. ASSUME NEW c \in Clerk, ShareStores(c) PROVE MailsInv'
    <2>1. UNCHANGED mailVars  BY <1>3 DEF ShareStores
    <2>2. \/ shares' = shares
          \/ \E s \in Share : shares' = [shares EXCEPT ![s] = [st |-> "live", who |-> asked[c].to, gen |-> asked[c].gen, checked |-> asked[c].checked]]
        BY <1>3 DEF ShareStores
    <2>3. \A s \in Share : shares'[s].st = "revoked" => shares[s].st = "revoked"
        BY <1>0, <2>2
    <2> QED  BY <2>1, <2>3, OtherSharesAreFine
<1>4. ASSUME NEW c \in Clerk, ShareTells(c) PROVE MailsInv'
    <2> DEFINE s == asked[c].share
               p == asked[c].to
               slipped == shares[s].st # "live"
    <2>1. mails' = Queued(mails, p, s, slipped) /\ UNCHANGED <<shares, posting>>  BY <1>4 DEF ShareTells
    <2>2. p \in Person /\ s \in Share  BY <1>0, <1>4 DEF ShareTells, SharesInv, Dated, Request
    <2>3. slipped \in BOOLEAN /\ (slipped \/ shares[s].st # "revoked")  OBVIOUS
    <2> HIDE DEF p, s, slipped
    <2>4. Fine(Queued(mails, p, s, slipped), shares)  BY <1>0, <2>2, <2>3, QueuedIsFine
    <2> QED  BY <1>0, <2>1, <2>4 DEF MailsInv, Fine
<1>5. ASSUME NEW c \in Clerk, NEW s \in Share, RevokeShare(c, s) PROVE MailsInv'
    <2> DEFINE ms == [r \in Mail |-> IF mails[r].of # s THEN mails[r]
                                     ELSE IF mails[r].st = "pending" THEN [mails[r] EXCEPT !.st = "cancelled"]
                                     ELSE [mails[r] EXCEPT !.slipped = TRUE]]
    <2>1. mails' = Queued(ms, shares[s].who, 0, FALSE) /\ posting' = posting /\ shares' = [shares EXCEPT ![s].st = "revoked"]
        BY <1>5 DEF RevokeShare
    <2>2. \A r \in Mail : ms[r] \in MailRow /\ Tried(ms[r]) /\ Silent(ms[r], shares') /\ (posting = r => KeyKnown(ms[r]))
        <3> SUFFICES ASSUME NEW r \in Mail
                     PROVE  ms[r] \in MailRow /\ Tried(ms[r]) /\ Silent(ms[r], shares') /\ (posting = r => KeyKnown(ms[r]))
            OBVIOUS
        <3>1. mails[r] \in MailRow /\ Tried(mails[r]) /\ Silent(mails[r], shares) /\ (posting = r => KeyKnown(mails[r]))
            BY <1>0 DEF Fine
        <3>2. CASE mails[r].of # s
            <4>1. ms[r] = mails[r]  BY <3>2
            <4>2. mails[r].of # 0 => shares'[mails[r].of] = shares[mails[r].of]
                BY <1>0, <2>1, <3>1, <3>2 DEF MailRow
            <4> QED  BY <3>1, <4>1, <4>2 DEF Silent
        <3>3. CASE mails[r].of = s /\ mails[r].st = "pending"
            <4>1. ms[r] = [mails[r] EXCEPT !.st = "cancelled"]  BY <3>3
            <4> QED  BY <3>1, <3>3, <4>1 DEF MailRow, Tried, Silent, KeyKnown
        <3>4. CASE mails[r].of = s /\ mails[r].st # "pending"
            <4>1. ms[r] = [mails[r] EXCEPT !.slipped = TRUE]  BY <3>4
            <4> QED  BY <3>1, <3>4, <4>1 DEF MailRow, Tried, Silent, KeyKnown
        <3> QED  BY <3>2, <3>3, <3>4
    <2>3. Fine(ms, shares')  BY <2>2 DEF Fine
    <2>4. shares[s].who \in Person  BY <1>0 DEF ShareRow
    <2> HIDE DEF ms
    <2>5. Fine(Queued(ms, shares[s].who, 0, FALSE), shares')  BY <2>3, <2>4, QueuedIsFine
    <2> QED  BY <1>0, <2>1, <2>5 DEF MailsInv, Fine
<1>6. ASSUME NEW r \in Mail, LeaseMail(r) PROVE MailsInv'
    <2> DEFINE x == mails[r]
               n == x.tries + 1
               leased == [x EXCEPT !.st = "sending", !.due = FALSE, !.tries = n]
    <2>1. x \in MailRow /\ Tried(x) /\ Silent(x, shares)  BY <1>0 DEF Fine
    <2>2. posting = 0 /\ x.st \in {"pending", "sending"} /\ shares' = shares  BY <1>6 DEF LeaseMail
    <2>3. \/ mails' = [mails EXCEPT ![r] = [leased EXCEPT !.st = "cancelled"]] /\ posting' = posting
          \/ mails' = [mails EXCEPT ![r] = [leased EXCEPT !.st = "failed"]] /\ posting' = posting
          \/ mails' = [mails EXCEPT ![r] = leased] /\ posting' = r /\ ~TooLate(r)
        BY <1>6 DEF LeaseMail
    <2>4. ~TooLate(r) => x.age = 0 \/ x.tries = 0  BY <2>1 DEF TooLate, MailRow
    <2>9. n \in Nat /\ n > 0  BY <2>1 DEF MailRow
    <2>10. x.got = 0 \/ x.age # 2 \/ ~(x.age = 0 \/ x.tries = 0)  BY <2>1 DEF Tried
    <2> HIDE DEF x, n
    <2>11. /\ leased \in MailRow /\ leased.st = "sending" /\ leased.of = x.of /\ leased.tries = n
           /\ leased.age = x.age /\ leased.got = x.got /\ leased.slipped = x.slipped
        BY <2>1, <2>9 DEF MailRow
    <2> HIDE DEF leased
    <2>5. /\ leased \in MailRow /\ Tried(leased) /\ Silent(leased, shares)
          /\ (x.age = 0 \/ x.tries = 0) => KeyKnown(leased)
        BY <2>1, <2>2, <2>9, <2>10, <2>11 DEF Tried, Silent, KeyKnown
    <2>6. \A how \in {"cancelled", "failed"} :
             /\ [leased EXCEPT !.st = how] \in MailRow
             /\ Tried([leased EXCEPT !.st = how]) /\ Silent([leased EXCEPT !.st = how], shares)
        BY <2>5 DEF MailRow, Tried, Silent
    <2>7. CASE mails' = [mails EXCEPT ![r] = leased] /\ posting' = r /\ ~TooLate(r)
        <3>1. Fine(mails, shares)'  BY <1>0, <2>2, <2>4, <2>5, <2>7, RowIsFine
        <3> QED  BY <2>7, <3>1 DEF MailsInv
    <2>8. ASSUME NEW how \in {"cancelled", "failed"},
                 mails' = [mails EXCEPT ![r] = [leased EXCEPT !.st = how]] /\ posting' = posting
          PROVE  MailsInv'
        <3>1. Fine(mails, shares)'  BY <1>0, <2>2, <2>6, <2>8, RowIsFine
        <3> QED  BY <1>0, <2>8, <3>1 DEF MailsInv
    <2> QED  BY <2>3, <2>7, <2>8
<1>7. ASSUME posting \in Mail, posting' = 0, shares' = shares,
             NEW st \in {"sent", "failed", "pending", "sending"}, NEW got \in {mails[posting].got, Taken(posting)},
             mails' = [mails EXCEPT ![posting] = [@ EXCEPT !.st = st, !.got = got]]
      PROVE  MailsInv'
    <2> DEFINE x == mails[posting]
               m == [x EXCEPT !.st = st, !.got = got]
    <2>1. x \in MailRow /\ Tried(x) /\ Silent(x, shares) /\ KeyKnown(x)  BY <1>0, <1>7 DEF Fine
    <2>2. got \in {0, 1}  BY <2>1, <1>7 DEF Taken, KeyKnown, MailRow
    <2>3. mails' = [mails EXCEPT ![posting] = m]  BY <1>0, <1>7
    <2> HIDE DEF x
    <2>6. /\ m \in MailRow /\ m.of = x.of /\ m.tries = x.tries /\ m.slipped = x.slipped
        BY <2>1, <2>2 DEF MailRow
    <2>7. x.tries # 0 /\ (x.of = 0 \/ x.slipped \/ shares[x.of].st # "revoked")
        BY <2>1 DEF MailRow, KeyKnown, Silent
    <2> HIDE DEF m
    <2>4. m \in MailRow /\ Tried(m) /\ Silent(m, shares)
        BY <2>6, <2>7 DEF Tried, Silent
    <2>5. Fine(mails, shares)'  BY <1>0, <1>7, <2>3, <2>4, RowIsFine
    <2> QED  BY <1>7, <2>5 DEF MailsInv
<1>8. ASSUME NEW taken \in BOOLEAN, MailSent \/ MailUncertain(taken) \/ MailWorkerEnds(taken) PROVE MailsInv'
    <2>1. posting \in Mail /\ posting' = 0 /\ shares' = shares
        BY <1>0, <1>8 DEF MailSent, MailUncertain, MailWorkerEnds
    <2>2. mails[posting] \in MailRow /\ mails[posting].st = "sending"  BY <1>0, <2>1 DEF Fine, KeyKnown
    <2>3. CASE MailSent
        <3>1. mails' = [mails EXCEPT ![posting] = [@ EXCEPT !.st = "sent", !.got = Taken(posting)]]
            BY <1>0, <2>1, <2>3 DEF MailSent
        <3> QED  BY <1>7, <2>1, <3>1
    <2>4. CASE MailUncertain(taken)
        <3> DEFINE st == IF mails[posting].tries >= MaxTries THEN "failed" ELSE "pending"
                   got == IF taken THEN Taken(posting) ELSE mails[posting].got
        <3>1. mails' = [mails EXCEPT ![posting] = [@ EXCEPT !.st = st, !.got = got]]
            BY <1>0, <2>1, <2>4 DEF MailUncertain
        <3>2. st \in {"sent", "failed", "pending", "sending"} /\ got \in {mails[posting].got, Taken(posting)}
            OBVIOUS
        <3> HIDE DEF st, got
        <3> QED  BY <1>7, <2>1, <3>1, <3>2
    <2>5. CASE MailWorkerEnds(taken)
        <3> DEFINE got == IF taken THEN Taken(posting) ELSE mails[posting].got
        <3>1. mails' = [mails EXCEPT ![posting].got = got]
            BY <1>0, <2>1, <2>5 DEF MailWorkerEnds
        <3>2. got \in {mails[posting].got, Taken(posting)}  OBVIOUS
        <3> HIDE DEF got
        <3>3. mails' = [mails EXCEPT ![posting] = [@ EXCEPT !.st = "sending", !.got = got]]
            BY <1>0, <2>1, <2>2, <3>1 DEF MailRow
        <3> QED  BY <1>7, <2>1, <3>2, <3>3
    <2> QED  BY <1>8, <2>3, <2>4, <2>5
<1>9. ASSUME NEW r \in Mail, MailDue(r) PROVE MailsInv'
    <2> DEFINE x == mails[r]
               m == [x EXCEPT !.due = TRUE]
    <2>1. x \in MailRow /\ Tried(x) /\ Silent(x, shares) /\ (posting = r => KeyKnown(x))  BY <1>0 DEF Fine
    <2>2. mails' = [mails EXCEPT ![r] = m] /\ UNCHANGED <<posting, shares>>  BY <1>0, <1>9 DEF MailDue
    <2> HIDE DEF x
    <2>3. m \in MailRow /\ Tried(m) /\ Silent(m, shares) /\ (posting = r => KeyKnown(m))
        BY <2>1 DEF MailRow, Tried, Silent, KeyKnown
    <2> HIDE DEF m
    <2>4. Fine(mails, shares)'  BY <1>0, <2>2, <2>3, RowIsFine
    <2> QED  BY <1>0, <2>2, <2>4 DEF MailsInv
<1>10. ASSUME NEW r \in Mail, MailAges(r) PROVE MailsInv'
    <2> DEFINE x == mails[r]
               m == [x EXCEPT !.age = x.age + 1]
    <2>1. x \in MailRow /\ Tried(x) /\ Silent(x, shares) /\ (posting = r => KeyKnown(x))  BY <1>0 DEF Fine
    <2>2. mails' = [mails EXCEPT ![r] = m] /\ UNCHANGED <<posting, shares>>
          /\ x.age < 2 /\ (x.age = 1 => posting # r)
        BY <1>0, <1>10 DEF MailAges
    <2> HIDE DEF x
    <2>3. m \in MailRow /\ Tried(m) /\ Silent(m, shares) /\ (posting = r => KeyKnown(m))
        <3>1. x.age \in {0, 1} /\ x.age + 1 \in {1, 2} /\ (posting = r => x.age + 1 = 1)
            BY <2>1, <2>2 DEF MailRow
        <3> QED  BY <2>1, <3>1 DEF MailRow, Tried, Silent, KeyKnown
    <2> HIDE DEF m
    <2>4. Fine(mails, shares)'  BY <1>0, <2>2, <2>3, RowIsFine
    <2> QED  BY <1>0, <2>2, <2>4 DEF MailsInv
<1>11. ASSUME UNCHANGED <<mails, posting, shares>> PROVE MailsInv'
    BY <1>11, OtherSharesAreFine DEF mailVars
<1>12. ASSUME NEW c \in Clerk, NEW p \in Person,
              RequestBegins(c, p) \/ ResendInvite(c, p) \/ ResetAccess(c, p) \/ ShareBegins(c, p)
              \/ (\E role \in Role : InvitePerson(c, p, role)) \/ ShareChecks(c)
       PROVE  UNCHANGED <<mails, posting, shares>>
    BY <1>12 DEF RequestBegins, ResendInvite, ResetAccess, ShareBegins, InvitePerson, ShareChecks, mailVars
<1>13. ASSUME (\E p \in Person : RequestReset(p) \/ SignIn(p))
              \/ (\E l \in Link : LinkLapses(l) \/ \E o \in Opener : AcceptBegins(o, l)) \/ (\E o \in Opener : AcceptEnds(o))
       PROVE  UNCHANGED <<mails, posting, shares>>
    BY <1>13 DEF RequestReset, SignIn, LinkLapses, AcceptBegins, AcceptEnds, mailVars
<1>14. ASSUME UNCHANGED accessVars PROVE UNCHANGED <<mails, posting, shares>>
    BY <1>14 DEF accessVars
<1> QED
    BY <1>1, <1>2, <1>3, <1>4, <1>5, <1>6, <1>8, <1>9, <1>10, <1>11, <1>12, <1>13, <1>14 DEF AccessNext

-----------------------------------------------------------------------------
(***************************************************************************)
(* The bounds of requests, memberships and attempts                        *)
(***************************************************************************)
\* Requests under way: each was counted as a deed, and adds a membership at most once
UnderWay == {c \in Clerk : asked[c].pc # "idle"}

DeedsCounted ==
    /\ deeds \in 0 .. MaxDeeds
    /\ IsFiniteSet(UnderWay) /\ \A p \in Person : joined[p] - 1 + Cardinality(UnderWay) <= deeds

\* What waits to be sent, and is not being sent, may be tried once more
MayBeTried(m, sending) == m.tries <= MaxTries /\ (m.st \in {"pending", "sending"} /\ ~sending => m.tries < MaxTries)
TriesCounted == \A r \in Mail : MayBeTried(mails[r], posting = r)

AccessBounds == DeedsCounted /\ TriesCounted

\* No request is under way and nothing was sent
LEMMA AccessBoundsBegin == AccessInit => AccessBounds
<1> SUFFICES ASSUME AccessInit PROVE AccessBounds  OBVIOUS
<1>1. /\ joined = [p \in Person |-> 1] /\ asked = [c \in Clerk |-> Idle]
      /\ mails = [r \in Mail |-> NoMail] /\ posting = 0 /\ deeds = 0
    BY DEF AccessInit
<1>2. UnderWay = {}  BY <1>1 DEF UnderWay, Idle
<1>3. DeedsCounted  BY <1>1, <1>2, FS_EmptySet DEF DeedsCounted
<1>4. TriesCounted  BY <1>1 DEF TriesCounted, MayBeTried, NoMail
<1> QED  BY <1>3, <1>4 DEF AccessBounds

\* One request moves on: how many are under way
LEMMA OneRequestMoves ==
    ASSUME asked \in [Clerk -> Request], IsFiniteSet(UnderWay), NEW c \in Clerk, NEW r \in Request,
           asked' = [asked EXCEPT ![c] = r]
    PROVE  /\ IsFiniteSet(UnderWay') /\ Cardinality(UnderWay) \in Nat /\ Cardinality(UnderWay') \in Nat
           /\ asked[c].pc # "idle" => Cardinality(UnderWay') <= Cardinality(UnderWay)
           /\ asked[c].pc # "idle" /\ r.pc = "idle" => Cardinality(UnderWay') = Cardinality(UnderWay) - 1
           /\ Cardinality(UnderWay') <= Cardinality(UnderWay) + 1
<1>1. UnderWay' = IF r.pc = "idle" THEN UnderWay \ {c} ELSE UnderWay \cup {c}
    BY DEF UnderWay
<1>2. c \in UnderWay <=> asked[c].pc # "idle"
    BY DEF UnderWay
<1>3. /\ IsFiniteSet(UnderWay \cup {c})
      /\ Cardinality(UnderWay \cup {c}) = IF c \in UnderWay THEN Cardinality(UnderWay) ELSE Cardinality(UnderWay) + 1
    BY FS_AddElement
<1>4. /\ IsFiniteSet(UnderWay \ {c})
      /\ Cardinality(UnderWay \ {c}) = IF c \in UnderWay THEN Cardinality(UnderWay) - 1 ELSE Cardinality(UnderWay)
    BY FS_RemoveElement
<1>5. IsFiniteSet(UnderWay')
    BY <1>1, <1>3, <1>4
<1>6. Cardinality(UnderWay) \in Nat /\ Cardinality(UnderWay') \in Nat
    BY <1>5, FS_CardinalityType
<1> HIDE DEF UnderWay
<1> QED  BY <1>1, <1>2, <1>3, <1>4, <1>5, <1>6

\* Every action counts what it does
LEMMA DeedsStep == AccountsInv /\ SharesInv /\ DeedsCounted /\ [AccessNext]_accessVars => DeedsCounted'
<1> SUFFICES ASSUME AccountsInv, SharesInv, DeedsCounted, [AccessNext]_accessVars PROVE DeedsCounted'  OBVIOUS
<1>0. /\ asked \in [Clerk -> Request] /\ joined \in [Person -> Nat] /\ roles \in [Person -> Role \cup {"out"}]
      /\ deeds \in 0 .. MaxDeeds /\ IsFiniteSet(UnderWay) /\ Cardinality(UnderWay) \in Nat
      /\ \A p \in Person : joined[p] - 1 + Cardinality(UnderWay) <= deeds
    BY FS_CardinalityType DEF SharesInv, SharingTypes, AccountsInv, AccountTypes, DeedsCounted
<1>i. Idle \in Request /\ Idle.pc = "idle"  BY DEF Idle, Request, Role
<1>1. ASSUME UNCHANGED <<asked, joined>>, deeds' = deeds \/ Deed PROVE DeedsCounted'
    <2>1. UnderWay' = UnderWay  BY <1>1 DEF UnderWay
    <2>2. deeds' \in 0 .. MaxDeeds /\ deeds' >= deeds  BY <1>0, <1>1 DEF Deed
    <2> QED  BY <1>0, <1>1, <2>1, <2>2 DEF DeedsCounted
<1>2. ASSUME NEW c \in Clerk, NEW r \in Request, asked' = [asked EXCEPT ![c] = r], asked[c].pc # "idle", UNCHANGED <<joined, deeds>>
      PROVE  DeedsCounted'
    <2>1. IsFiniteSet(UnderWay') /\ Cardinality(UnderWay') \in Nat /\ Cardinality(UnderWay') <= Cardinality(UnderWay)
        BY <1>0, <1>2, OneRequestMoves
    <2> QED  BY <1>0, <1>2, <2>1 DEF DeedsCounted
<1>3. ASSUME NEW c \in Clerk, NEW p \in Person, RequestBegins(c, p) PROVE DeedsCounted'
    <2> DEFINE r == [Idle EXCEPT !.pc = "in", !.who = p, !.role = roles[p]]
    <2>1. r \in Request  BY <1>0 DEF Idle, Request
    <2>2. asked' = [asked EXCEPT ![c] = r] /\ joined' = joined /\ deeds < MaxDeeds /\ deeds' = deeds + 1
        BY <1>3 DEF RequestBegins, Deed
    <2> HIDE DEF r
    <2>3. IsFiniteSet(UnderWay') /\ Cardinality(UnderWay') \in Nat /\ Cardinality(UnderWay') <= Cardinality(UnderWay) + 1
        BY <1>0, <2>1, <2>2, OneRequestMoves
    <2> QED  BY <1>0, <2>2, <2>3 DEF DeedsCounted
<1>4. ASSUME NEW c \in Clerk, NEW p \in Person, NEW role \in Role, InvitePerson(c, p, role) PROVE DeedsCounted'
    <2>1. asked' = [asked EXCEPT ![c] = Idle] /\ asked[c].pc # "idle" /\ deeds' = deeds /\ joined' = [joined EXCEPT ![p] = @ + 1]
        BY <1>4 DEF InvitePerson, Answered
    <2>2. IsFiniteSet(UnderWay') /\ Cardinality(UnderWay') \in Nat /\ Cardinality(UnderWay') = Cardinality(UnderWay) - 1
        BY <1>0, <1>i, <2>1, OneRequestMoves
    <2>3. \A q \in Person : joined'[q] <= joined[q] + 1 /\ joined'[q] \in Nat /\ joined[q] \in Nat
        BY <1>0, <2>1
    <2> QED  BY <1>0, <2>1, <2>2, <2>3 DEF DeedsCounted
<1>5. ASSUME NEW c \in Clerk, Answered(c), asked[c].pc # "idle", UNCHANGED <<joined, deeds>> PROVE DeedsCounted'
    BY <1>i, <1>2, <1>5 DEF Answered
<1>6. ASSUME NEW c \in Clerk, NEW p \in Person, NEW role \in Role,
             \/ ChangeMemberRole(c, p, role) \/ RemoveMember(c, p) \/ ResendInvite(c, p) \/ ResetAccess(c, p) \/ ShareTells(c)
             \/ \E s \in Share : RevokeShare(c, s)
      PROVE  DeedsCounted'
    <2>1. Answered(c) /\ asked[c].pc # "idle" /\ UNCHANGED <<joined, deeds>>
        BY <1>6 DEF ChangeMemberRole, RemoveMember, ResendInvite, ResetAccess, ManagesAccess, Manages, ShareTells, RevokeShare
    <2> QED  BY <1>5, <2>1
<1>7. ASSUME NEW c \in Clerk, NEW p \in Person, ShareBegins(c, p) PROVE DeedsCounted'
    <2>1. asked[c] \in Request /\ joined[p] \in Nat  BY <1>0
    <2>2. [asked[c] EXCEPT !.pc = "sharing", !.to = p, !.gen = joined[p]] \in Request  BY <2>1 DEF Request
    <2>3. asked' = [asked EXCEPT ![c] = [asked[c] EXCEPT !.pc = "sharing", !.to = p, !.gen = joined[p]]] /\ asked[c].pc # "idle"
          /\ UNCHANGED <<joined, deeds>>
        BY <1>0, <1>7 DEF ShareBegins
    <2> QED  BY <1>2, <2>2, <2>3
<1>8. ASSUME NEW c \in Clerk, ShareChecks(c) PROVE DeedsCounted'
    <2>1. asked[c] \in Request /\ joined[asked[c].to] \in Nat  BY <1>0 DEF Request
    <2>2. [asked[c] EXCEPT !.pc = "storing", !.checked = joined[asked[c].to]] \in Request  BY <2>1 DEF Request
    <2>3. asked[c].pc # "idle" /\ UNCHANGED <<joined, deeds>>  BY <1>8 DEF ShareChecks
    <2>4. Answered(c) \/ asked' = [asked EXCEPT ![c] = [asked[c] EXCEPT !.pc = "storing", !.checked = joined[asked[c].to]]]
        BY <1>0, <1>8 DEF ShareChecks
    <2> QED  BY <1>2, <1>5, <2>2, <2>3, <2>4
<1>9. ASSUME NEW c \in Clerk, ShareStores(c) PROVE DeedsCounted'
    <2>1. asked[c] \in Request  BY <1>0
    <2>2. \A s \in Share : [asked[c] EXCEPT !.pc = "telling", !.share = s] \in Request  BY <2>1 DEF Request
    <2>3. asked[c].pc # "idle" /\ UNCHANGED <<joined, deeds>>  BY <1>9 DEF ShareStores
    <2>4. Answered(c) \/ \E s \in Share : asked' = [asked EXCEPT ![c] = [asked[c] EXCEPT !.pc = "telling", !.share = s]]
        BY <1>0, <1>9 DEF ShareStores
    <2> QED  BY <1>2, <1>5, <2>2, <2>3, <2>4
<1>10. ASSUME NEW p \in Person, NEW l \in Link, NEW o \in Opener,
              RequestReset(p) \/ SignIn(p) \/ LinkLapses(l) \/ AcceptBegins(o, l) \/ AcceptEnds(o)
       PROVE  UNCHANGED <<asked, joined>> /\ (deeds' = deeds \/ Deed)
    BY <1>10 DEF RequestReset, SignIn, LinkLapses, AcceptBegins, AcceptEnds
<1>11. \/ \E c \in Clerk, p \in Person :
             \/ RequestBegins(c, p) \/ RemoveMember(c, p) \/ ShareBegins(c, p)
             \/ \E role \in Role : InvitePerson(c, p, role) \/ ChangeMemberRole(c, p, role) \/ ResendInvite(c, p) \/ ResetAccess(c, p)
       \/ \E c \in Clerk : ShareChecks(c) \/ ShareStores(c) \/ ShareTells(c) \/ \E s \in Share : RevokeShare(c, s)
       \/ UNCHANGED <<asked, joined>> /\ (deeds' = deeds \/ Deed)
    BY DEF AccessNext, accessVars, mailVars, RequestReset, SignIn, LinkLapses, AcceptBegins, AcceptEnds, Role,
           LeaseMail, MailDue, MailAges, MailSent, MailUncertain, MailWorkerEnds
<1>12. "owner" \in Role /\ Founder \in Person  BY DEF Role
<1> QED  BY <1>1, <1>3, <1>4, <1>6, <1>7, <1>8, <1>9, <1>11, <1>12

\* A new e-mail has not been tried
LEMMA QueuedMayBeTried ==
    ASSUME NEW ms \in [Mail -> MailRow], \A r \in Mail : MayBeTried(ms[r], posting = r),
           NEW p, NEW s, NEW slipped
    PROVE  \A r \in Mail : MayBeTried(Queued(ms, p, s, slipped)[r], posting = r)
<1> DEFINE q == CHOOSE i \in Mail : ms[i].st = "none"
           new == [NoMail EXCEPT !.st = "pending", !.to = p, !.of = s, !.due = TRUE, !.slipped = slipped]
<1>1. new.tries = 0  BY DEF NoMail
<1>2. Queued(ms, p, s, slipped) = ms \/ Queued(ms, p, s, slipped) = [ms EXCEPT ![q] = new]
    BY DEF Queued
<1> HIDE DEF q, new
<1>3. \A b \in BOOLEAN : MayBeTried(new, b)  BY <1>1 DEF MayBeTried
<1> QED  BY <1>2, <1>3

\* A change of one row
LEMMA RowMayBeTried ==
    ASSUME mails \in [Mail -> MailRow], TriesCounted, NEW r \in Mail, NEW m, mails' = [mails EXCEPT ![r] = m],
           MayBeTried(m, posting' = r), \A i \in Mail \ {r} : posting = i => posting' = i
    PROVE  TriesCounted'
BY DEF TriesCounted, MayBeTried

\* Every action on an e-mail leaves its attempts within the bound
LEMMA TriesStep == SharesInv /\ MailsInv /\ TriesCounted /\ [AccessNext]_accessVars => TriesCounted'
<1> SUFFICES ASSUME SharesInv, MailsInv, TriesCounted, [AccessNext]_accessVars PROVE TriesCounted'  OBVIOUS
<1>0. mails \in [Mail -> MailRow] /\ posting \in Mail \cup {0} /\ 0 \notin Mail /\ \A r \in Mail : mails[r].tries \in Nat
    BY DEF MailsInv, Fine, MailRow
<1>1. \A r \in Mail : MayBeTried(mails[r], posting = r)  BY DEF TriesCounted
<1>2. ASSUME NEW p, NEW s, NEW slipped, mails' = Queued(mails, p, s, slipped), posting' = posting PROVE TriesCounted'
    BY <1>0, <1>1, <1>2, QueuedMayBeTried DEF TriesCounted
<1>3. ASSUME NEW c \in Clerk, NEW s \in Share, RevokeShare(c, s) PROVE TriesCounted'
    <2> DEFINE ms == [r \in Mail |-> IF mails[r].of # s THEN mails[r]
                                     ELSE IF mails[r].st = "pending" THEN [mails[r] EXCEPT !.st = "cancelled"]
                                     ELSE [mails[r] EXCEPT !.slipped = TRUE]]
    <2>1. mails' = Queued(ms, shares[s].who, 0, FALSE) /\ posting' = posting  BY <1>3 DEF RevokeShare
    <2>2. ms \in [Mail -> MailRow]
        <3> SUFFICES ASSUME NEW r \in Mail PROVE ms[r] \in MailRow  OBVIOUS
        <3>1. mails[r] \in MailRow  BY <1>0
        <3> QED  BY <3>1 DEF MailRow
    <2>3. \A r \in Mail : MayBeTried(ms[r], posting = r)
        <3> SUFFICES ASSUME NEW r \in Mail PROVE MayBeTried(ms[r], posting = r)  OBVIOUS
        <3>1. mails[r] \in MailRow /\ MayBeTried(mails[r], posting = r)  BY <1>0, <1>1
        <3>2. ms[r].tries = mails[r].tries /\ (ms[r].st = mails[r].st \/ ms[r].st = "cancelled")  BY <3>1 DEF MailRow
        <3> HIDE DEF ms
        <3> QED  BY <3>1, <3>2 DEF MayBeTried
    <2> HIDE DEF ms
    <2>4. \A r \in Mail : MayBeTried(Queued(ms, shares[s].who, 0, FALSE)[r], posting = r)
        BY <2>2, <2>3, QueuedMayBeTried
    <2> QED  BY <2>1, <2>4 DEF TriesCounted
<1>4. ASSUME NEW r \in Mail, LeaseMail(r) PROVE TriesCounted'
    <2> DEFINE x == mails[r]
               n == x.tries + 1
               leased == [x EXCEPT !.st = "sending", !.due = FALSE, !.tries = n]
    <2>1. x \in MailRow /\ MayBeTried(x, posting = r)  BY <1>0, <1>1
    <2>2. posting = 0 /\ x.st \in {"pending", "sending"}  BY <1>4 DEF LeaseMail
    <2>3. \/ mails' = [mails EXCEPT ![r] = [leased EXCEPT !.st = "cancelled"]] /\ posting' = posting
          \/ mails' = [mails EXCEPT ![r] = [leased EXCEPT !.st = "failed"]] /\ posting' = posting
          \/ mails' = [mails EXCEPT ![r] = leased] /\ posting' = r
        BY <1>4 DEF LeaseMail
    <2>4. n \in Nat /\ n <= MaxTries
        <3>1. x.tries \in Nat /\ x.tries < MaxTries  BY <1>0, <2>1, <2>2 DEF MayBeTried, MailRow
        <3> QED  BY <3>1
    <2> HIDE DEF n
    <2>5. leased \in MailRow /\ leased.tries = n
        BY <2>1, <2>4 DEF MailRow
    <2> HIDE DEF x, leased
    <2>6. MayBeTried(leased, TRUE)  BY <2>4, <2>5 DEF MayBeTried
    <2>7. \A how \in {"cancelled", "failed"} : [leased EXCEPT !.st = how].tries = n /\ [leased EXCEPT !.st = how].st = how
        BY <2>5 DEF MailRow
    <2>8. \A how \in {"cancelled", "failed"} : MayBeTried([leased EXCEPT !.st = how], FALSE)
        BY <2>4, <2>7 DEF MayBeTried
    <2>9. posting # r /\ \A i \in Mail \ {r} : posting = i => posting' = i  BY <1>0, <2>2
    <2>10. CASE mails' = [mails EXCEPT ![r] = leased] /\ posting' = r
        BY <1>0, <2>6, <2>9, <2>10, RowMayBeTried
    <2>11. ASSUME NEW how \in {"cancelled", "failed"}, mails' = [mails EXCEPT ![r] = [leased EXCEPT !.st = how]], posting' = posting
           PROVE  TriesCounted'
        BY <1>0, <2>8, <2>9, <2>11, RowMayBeTried
    <2> QED  BY <2>3, <2>10, <2>11
<1>5. ASSUME NEW taken \in BOOLEAN, MailSent \/ MailUncertain(taken) \/ MailWorkerEnds(taken) PROVE TriesCounted'
    <2> DEFINE x == mails[posting]
    <2>1. posting \in Mail /\ posting' = 0  BY <1>0, <1>5 DEF MailSent, MailUncertain, MailWorkerEnds
    <2>2. x \in MailRow /\ MayBeTried(x, TRUE) /\ x.tries \in Nat  BY <1>0, <1>1, <2>1
    <2>3. PICK m : /\ mails' = [mails EXCEPT ![posting] = m] /\ m.tries = x.tries
                   /\ m.st = "sent" \/ m.st = "failed" \/ x.tries < MaxTries
        <3>1. CASE MailSent
            <4>1. mails' = [mails EXCEPT ![posting] = [x EXCEPT !.st = "sent", !.got = Taken(posting)]]
                BY <1>0, <2>1, <3>1 DEF MailSent
            <4>2. [x EXCEPT !.st = "sent", !.got = Taken(posting)].tries = x.tries
                  /\ [x EXCEPT !.st = "sent", !.got = Taken(posting)].st = "sent"
                BY <2>2 DEF MailRow
            <4> QED  BY <4>1, <4>2, Zenon
        <3>2. CASE MailUncertain(taken)
            <4> DEFINE st == IF x.tries >= MaxTries THEN "failed" ELSE "pending"
                       got == IF taken THEN Taken(posting) ELSE x.got
            <4>1. mails' = [mails EXCEPT ![posting] = [x EXCEPT !.st = st, !.got = got]]
                BY <1>0, <2>1, <3>2 DEF MailUncertain
            <4>2. st = "failed" \/ x.tries < MaxTries  BY <2>2
            <4> HIDE DEF st, got
            <4>3. [x EXCEPT !.st = st, !.got = got].tries = x.tries /\ [x EXCEPT !.st = st, !.got = got].st = st
                BY <2>2 DEF MailRow
            <4> QED  BY <4>1, <4>2, <4>3, Zenon
        <3>3. CASE MailWorkerEnds(taken)
            <4> DEFINE got == IF taken THEN Taken(posting) ELSE x.got
            <4>1. mails' = [mails EXCEPT ![posting] = [x EXCEPT !.got = got]] /\ x.tries < MaxTries
                BY <1>0, <2>1, <3>3 DEF MailWorkerEnds
            <4> HIDE DEF got
            <4>2. [x EXCEPT !.got = got].tries = x.tries
                BY <2>2 DEF MailRow
            <4> QED  BY <4>1, <4>2, Zenon
        <3> QED  BY <1>5, <3>1, <3>2, <3>3
    <2> HIDE DEF x
    <2>4. MayBeTried(m, FALSE)  BY <2>2, <2>3 DEF MayBeTried
    <2> QED  BY <1>0, <2>1, <2>3, <2>4, RowMayBeTried
<1>6. ASSUME NEW r \in Mail, MailDue(r) \/ MailAges(r) PROVE TriesCounted'
    <2>1. mails[r] \in MailRow /\ MayBeTried(mails[r], posting = r)  BY <1>0, <1>1
    <2>2. PICK m : mails' = [mails EXCEPT ![r] = m] /\ m.tries = mails[r].tries /\ m.st = mails[r].st
        <3>1. CASE MailDue(r)
            <4>1. mails' = [mails EXCEPT ![r] = [mails[r] EXCEPT !.due = TRUE]]  BY <1>0, <3>1 DEF MailDue
            <4>2. [mails[r] EXCEPT !.due = TRUE].tries = mails[r].tries /\ [mails[r] EXCEPT !.due = TRUE].st = mails[r].st
                BY <2>1 DEF MailRow
            <4> QED  BY <4>1, <4>2, Zenon
        <3>2. CASE MailAges(r)
            <4>1. mails' = [mails EXCEPT ![r] = [mails[r] EXCEPT !.age = mails[r].age + 1]]  BY <1>0, <3>2 DEF MailAges
            <4>2. [mails[r] EXCEPT !.age = mails[r].age + 1].tries = mails[r].tries
                  /\ [mails[r] EXCEPT !.age = mails[r].age + 1].st = mails[r].st
                BY <2>1 DEF MailRow
            <4> QED  BY <4>1, <4>2, Zenon
        <3> QED  BY <1>6, <3>1, <3>2
    <2>3. posting' = posting  BY <1>6 DEF MailDue, MailAges
    <2>4. MayBeTried(m, posting' = r)  BY <2>1, <2>2, <2>3 DEF MayBeTried
    <2> QED  BY <1>0, <2>2, <2>3, <2>4, RowMayBeTried
<1>7. ASSUME NEW c \in Clerk, ShareTells(c) \/ (\E p \in Person, role \in Role : ChangeMemberRole(c, p, role)) PROVE TriesCounted'
    <2>1. posting' = posting /\ \E p, s, slipped : mails' = Queued(mails, p, s, slipped)
        BY <1>7 DEF ShareTells, ChangeMemberRole
    <2> QED  BY <1>2, <2>1
<1>8. ASSUME UNCHANGED <<mails, posting>> PROVE TriesCounted'
    BY <1>8 DEF TriesCounted
<1>9. ASSUME NEW c \in Clerk, NEW p \in Person,
             RequestBegins(c, p) \/ RemoveMember(c, p) \/ ResendInvite(c, p) \/ ResetAccess(c, p) \/ ShareBegins(c, p)
             \/ (\E role \in Role : InvitePerson(c, p, role)) \/ ShareChecks(c) \/ ShareStores(c)
      PROVE  UNCHANGED <<mails, posting>>
    BY <1>9 DEF RequestBegins, RemoveMember, ResendInvite, ResetAccess, ShareBegins, InvitePerson, ShareChecks, ShareStores, mailVars
<1>10. ASSUME (\E p \in Person : RequestReset(p) \/ SignIn(p))
              \/ (\E l \in Link : LinkLapses(l) \/ \E o \in Opener : AcceptBegins(o, l)) \/ (\E o \in Opener : AcceptEnds(o))
       PROVE  UNCHANGED <<mails, posting>>
    BY <1>10 DEF RequestReset, SignIn, LinkLapses, AcceptBegins, AcceptEnds, mailVars
<1>11. ASSUME UNCHANGED accessVars PROVE UNCHANGED <<mails, posting>>
    BY <1>11 DEF accessVars
<1>12. Founder \in Person  OBVIOUS
<1> QED  BY <1>3, <1>4, <1>5, <1>6, <1>7, <1>8, <1>9, <1>10, <1>11, <1>12 DEF AccessNext

\* Every step
LEMMA AccessStep == AccessInv /\ AccessBounds /\ [AccessNext]_accessVars => AccessInv' /\ AccessBounds'
    BY AccountsStep, SharesStep, MailsStep, DeedsStep, TriesStep DEF AccessInv, AccessBounds

\* The invariant gives the types
LEMMA AccessIsTyped == AccessInv /\ AccessBounds => AccessTypeOK
<1> SUFFICES ASSUME AccessInv, AccessBounds PROVE AccessTypeOK  OBVIOUS
<1>0. AccountTypes /\ SharingTypes /\ mails \in [Mail -> MailRow] /\ posting \in Mail \cup {0}
    BY DEF AccessInv, AccountsInv, SharesInv, MailsInv, Fine
<1>1. \A p \in Person : joined[p] \in 0 .. MaxDeeds + 1
    <2> SUFFICES ASSUME NEW p \in Person PROVE joined[p] \in 0 .. MaxDeeds + 1  OBVIOUS
    <2>1. joined[p] \in Nat /\ Cardinality(UnderWay) \in Nat /\ deeds \in 0 .. MaxDeeds /\ joined[p] - 1 + Cardinality(UnderWay) <= deeds
        BY <1>0, FS_CardinalityType DEF AccountTypes, AccessBounds, DeedsCounted
    <2> QED  BY <2>1
<1>2. \A p \in Person : roles[p] \in Role \cup {"out"} /\ accounts[p] \in AccountRow
    BY <1>0 DEF AccountTypes
<1>3. (\A l \in Link : links[l].st \in {"none", "valid", "used", "revoked", "expired"}) /\ \A o \in Opener : opening[o] \in Link \cup {0}
    BY <1>0 DEF AccountTypes, LinkRow
<1>4. /\ \A c \in Clerk : asked[c].pc \in {"idle", "in", "sharing", "storing", "telling"}
      /\ \A s \in Share : shares[s].st \in {"none", "live", "revoked", "left"}
    BY <1>0 DEF SharingTypes, Request, ShareRow
<1>5. \A r \in Mail : mails[r].tries \in 0 .. MaxTries /\ mails[r].of \in Share \cup {0}
    BY <1>0 DEF AccessBounds, TriesCounted, MayBeTried, MailRow
<1>6. deeds \in 0 .. MaxDeeds  BY DEF AccessBounds, DeedsCounted
<1> QED  BY <1>0, <1>1, <1>2, <1>3, <1>4, <1>5, <1>6 DEF AccessTypeOK

-----------------------------------------------------------------------------
(***************************************************************************)
(* The theorem                                                             *)
(***************************************************************************)

\* The invariant gives the property
LEMMA AccessInvSuffices == AccessInv => AccessIsCurrent
<1> SUFFICES ASSUME AccessInv PROVE AccessIsCurrent  OBVIOUS
<1>1. \E p \in Person : roles[p] = "owner"  BY DEF AccessInv, AccountsInv, SomebodyOwns
<1>2. \A l \in Link : links[l].ends <= 1  BY DEF AccessInv, AccountsInv, Unended, LinkRow
<1>3. ASSUME NEW p \in Person, MayRead(p)
      PROVE  \E s \in Share : shares[s].st = "live" /\ shares[s].who = p /\ shares[s].checked = joined[p]
    <2>1. PICK s \in Share : shares[s].st = "live" /\ shares[s].who = p /\ shares[s].gen >= joined[p]
        BY <1>3 DEF MayRead
    <2>2. shares[s].gen <= shares[s].checked /\ shares[s].checked <= joined[p]
        BY <2>1 DEF AccessInv, SharesInv, SharesAreDated
    <2>3. shares[s].gen \in Nat /\ shares[s].checked \in Nat /\ joined[p] \in Nat
        BY DEF AccessInv, SharesInv, SharingTypes, ShareRow, AccountsInv, AccountTypes
    <2> QED  BY <2>1, <2>2, <2>3
<1>4. ASSUME NEW r \in Mail
      PROVE  /\ mails[r].got <= 1
             /\ mails[r].st \in {"pending", "sending"} /\ mails[r].of # 0 =>
                    mails[r].slipped \/ shares[mails[r].of].st # "revoked"
    BY DEF AccessInv, MailsInv, Fine, MailRow, Silent
<1> QED  BY <1>1, <1>2, <1>3, <1>4 DEF AccessIsCurrent

\* However requests, links and retries overlap, for any number of people: the
\* workspace keeps an owner (_require_another_owner); a link ends once
\* (consume_link); who reads the meeting was checked as the member they are
\* now (_live_shares); no e-mail is taken twice (process_pending); and what
\* revoke() could cancel is not sent.
THEOREM AccessStaysCurrent == AccessSpec => []AccessIsCurrent
<1>1. AccessInit => AccessInv  BY AccessBegins
<1>2. AccessInv /\ [AccessNext]_accessVars => AccessInv'  BY AccountsStep, SharesStep, MailsStep DEF AccessInv
<1>3. AccessInv => AccessIsCurrent  BY AccessInvSuffices
<1> QED  BY <1>1, <1>2, <1>3, PTL DEF AccessSpec

HIDE AccessAssumption

-----------------------------------------------------------------------------
(***************************************************************************)
(* The workspace                                                           *)
(***************************************************************************)
\* Each part keeps its own invariant
CalendarInv == EventTyped /\ PrepsInv /\ JoinsTyped
WorkspaceInv ==
    /\ KeysInv
    /\ ResearchInv /\ troubles \in 0 .. MaxTroubles
    /\ CalendarInv
    /\ TimerInv /\ TimerBounds
    /\ AccessInv /\ AccessBounds

\* A step of the workspace is a step of one part
LEMMA PartsAreApart ==
  ASSUME [WorkspaceNext]_workspaceVars
  PROVE  /\ [KeysNext]_keysVars /\ [ResearchNext]_researchVars /\ [CalendarNext]_calendarVars /\ [TimerNext]_timerVars
         /\ [AccessNext]_accessVars
  BY DEF WorkspaceNext, workspaceVars, TimerAlone, CalendarAlone, AccessAlone, ResearchAlone, KeysAlone

\* Every reachable state is as each part wants it
LEMMA WorkspaceHolds == WorkspaceSpec => []WorkspaceInv
<1>1. WorkspaceInit => WorkspaceInv
  <2> SUFFICES ASSUME WorkspaceInit PROVE WorkspaceInv
      OBVIOUS
  <2>1. KeysInit /\ ResearchInit /\ CalendarInit /\ TimerInit /\ AccessInit
    BY DEF WorkspaceInit
  <2>2. troubles \in 0 .. MaxTroubles
    BY <2>1, ResearchAssumption DEF ResearchInit
  <2> QED
    BY <2>1, <2>2, KeysBegin, ResearchBegins, EventBegins, CalendarBegins, JoinsBegin, TimerBegins, BoundsBegin, AccessBegins,
       AccessBoundsBegin DEF WorkspaceInv, CalendarInv
<1>2. WorkspaceInv /\ [WorkspaceNext]_workspaceVars => WorkspaceInv'
  <2> SUFFICES ASSUME WorkspaceInv, [WorkspaceNext]_workspaceVars PROVE WorkspaceInv'
      OBVIOUS
  <2>1. KeysInv' /\ ResearchInv' /\ troubles' \in 0 .. MaxTroubles
    BY PartsAreApart, KeysStep, ResearchStep, TroublesStep DEF WorkspaceInv
  <2>2. CalendarInv'
    BY PartsAreApart, EventStep, CalendarStep, JoinsStep DEF WorkspaceInv, CalendarInv
  <2>3. TimerInv' /\ TimerBounds'
    BY PartsAreApart, TimerStep, BoundsStep DEF WorkspaceInv
  <2>4. AccessInv' /\ AccessBounds'
    BY PartsAreApart, AccessStep DEF WorkspaceInv
  <2>5. MaxTroubles' = MaxTroubles
    OBVIOUS
  <2> QED BY <2>1, <2>2, <2>3, <2>4, <2>5 DEF WorkspaceInv
<1> QED BY <1>1, <1>2, PTL DEF WorkspaceSpec

\* Every row, every step under way and every counter of the timer, the calendar,
\* access, research and keys keeps its type and its bound: a person has no more
\* memberships than requests were made (accounts.py, invite), an e-mail no more
\* attempts than the worker allows (process_pending), a moved or re-linked join is
\* a join of an account there is (calendar_relink.py), however many are re-linked
\* at once.
THEOREM WorkspaceIsTyped == WorkspaceSpec => []WorkspaceTypeOK
<1>1. WorkspaceInv => WorkspaceTypeOK
  BY KeysInvSuffices, ResearchIsTyped, CalendarIsTyped, TimerIsTyped, AccessIsTyped DEF WorkspaceInv, CalendarInv, WorkspaceTypeOK
<1> QED BY <1>1, WorkspaceHolds, PTL

\* What an owner is shown is what was spent: a saved report counts every paid
\* call of its briefing once, whatever failed, was retried or ran beside it, and
\* no briefing passes its budget (prep_research.py, _usage_totals); a balance is
\* that of the key it stands beside, however keys are rotated while it is read
\* (provider_balances.py).
THEOREM SpendStaysShown == WorkspaceSpec => []SpendIsShown
<1>1. WorkspaceInv => SpendIsShown
  BY KeysInvSuffices, ResearchInvSuffices DEF WorkspaceInv, SpendIsShown
<1> QED BY <1>1, WorkspaceHolds, PTL

\* A briefing saved for an event stays readable through every move of the event,
\* sync, reconnect and purge (calendar_cache.py, calendar_relink.py): the half of
\* FollowsTheCalendar that needs no fairness.
THEOREM BriefingsStayReadable == WorkspaceSpec => []PrepStaysReadable
<1>1. WorkspaceInv => PrepStaysReadable
  BY PrepsInvSuffices DEF WorkspaceInv, CalendarInv
<1> QED BY <1>1, WorkspaceHolds, PTL

\* However people talk, keep the assistant and however many passes are missed, it
\* leaves within the cap plus one undone heads-up and the missed passes, and never
\* without the heads-up for that very leave (leave_rules.py, decide, extended_keep).
THEOREM TheAssistantLeaves == WorkspaceSpec => LeavesWarnedInTime
<1>1. WorkspaceInv => GoneInTime
  BY TimerInvSuffices DEF WorkspaceInv
<1>2. WorkspaceInv /\ [WorkspaceNext]_workspaceVars => [gone' # gone => WarnedAndQuiet]_timerVars
  BY PartsAreApart, LeavesWarned DEF WorkspaceInv
<1> QED BY <1>1, <1>2, WorkspaceHolds, PTL DEF WorkspaceSpec, LeavesWarnedInTime
=============================================================================
