---------------------------- MODULE ProviderKeys ----------------------------
(***************************************************************************)
(* Saved provider keys: the vault (credential_vault.py), the profiles and   *)
(* the research setting that use them (service.py, ai_settings.py), and the *)
(* balances read with them (provider_balances.py), which are cached while   *)
(* keys are renamed, rotated, deleted and reported out of credit.  The      *)
(* secret of a key is its version; amounts are data.                        *)
(***************************************************************************)
EXTENDS Integers, FiniteSets

CONSTANTS VaultKey,     \* keys the workspace saves
          Profile,      \* provider profiles
          MaxStamps     \* bound: times the keys are saved, renamed or rotated

ASSUME KeysAssumption == MaxStamps \in Nat

VARIABLES keys,       \* ProviderCredentialRow: [on, secret, stamp], stamp is updated_at
          profileKeys,  \* ProviderProfileCredentialRow of every profile
          research,   \* research_credential_id
          choosing,   \* AiSettingsService.update between its check and its write
          cache,      \* ProviderBalanceService._cache: [on, stamp, of, fresh]
          signals,    \* keys a call found out of credit
          view,       \* the overview under way, under the lock of the workspace
          stamps

keysVars == <<keys, profileKeys, research, choosing, cache, signals, view, stamps>>

None == "none"
KeyRow == [on : BOOLEAN, secret : 0 .. MaxStamps, stamp : 0 .. MaxStamps]
ResearchKey == VaultKey \cup {None}
Uncached == [on |-> FALSE, stamp |-> 0, of |-> 0, fresh |-> FALSE]
NoView == [on |-> FALSE, listed |-> {}, stale |-> {}, stamp |-> [k \in VaultKey |-> 0], read |-> [k \in VaultKey |-> 0]]

KeysTypeOK ==
    /\ keys \in [VaultKey -> KeyRow]
    /\ profileKeys \in [Profile -> VaultKey \cup {None}] /\ {research, choosing} \subseteq ResearchKey
    /\ cache \in [VaultKey -> [on : BOOLEAN, stamp : 0 .. MaxStamps, of : 0 .. MaxStamps, fresh : BOOLEAN]]
    /\ signals \subseteq VaultKey /\ view.stale \subseteq view.listed /\ view.listed \subseteq VaultKey
    /\ stamps \in 0 .. MaxStamps

-----------------------------------------------------------------------------
(***************************************************************************)
(* Plausible bugs, see PROJECT.json                                        *)
(***************************************************************************)
StampOfNow(k) == keys[k].stamp
OnlyWhenOld(k, forced) == forced \/ ~cache[k].on \/ ~cache[k].fresh

-----------------------------------------------------------------------------
(***************************************************************************)
(* The vault                                                               *)
(***************************************************************************)
Stamp == stamps < MaxStamps /\ stamps' = stamps + 1
Elsewhere == <<profileKeys, research, choosing, cache, signals, view>>

\* create(): a new row, never the id of an earlier one
SaveKey(k) ==
    /\ keys[k].stamp = 0 /\ Stamp
    /\ keys' = [keys EXCEPT ![k] = [on |-> TRUE, secret |-> stamps', stamp |-> stamps']]
    /\ UNCHANGED Elsewhere

\* update(): both a new name and a new secret move updated_at
UpdateKey(k, rotate) ==
    /\ keys[k].on /\ Stamp
    /\ keys' = [keys EXCEPT ![k].stamp = stamps', ![k].secret = IF rotate THEN stamps' ELSE @]
    /\ UNCHANGED Elsewhere

\* delete(): refused while a profile or the research setting uses the key
DeleteKey(k) ==
    /\ keys[k].on /\ research # k /\ \A p \in Profile : profileKeys[p] # k
    /\ keys' = [keys EXCEPT ![k].on = FALSE]
    /\ UNCHANGED <<Elsewhere, stamps>>

\* create() and update() of a profile: _bind_credential, and the foreign key
LinkProfile(p, k) ==
    /\ k # None => keys[k].on
    /\ profileKeys' = [profileKeys EXCEPT ![p] = k]
    /\ UNCHANGED <<keys, research, choosing, cache, signals, view, stamps>>

\* AiSettingsService.update: the key is looked up, then the row is written
ChooseResearch(k) ==
    /\ choosing = None /\ keys[k].on
    /\ choosing' = k
    /\ UNCHANGED <<keys, profileKeys, research, cache, signals, view, stamps>>

WriteResearch(k) ==
    /\ k = choosing \/ (k = None /\ choosing = None)
    /\ research' = k /\ choosing' = None
    /\ UNCHANGED <<keys, profileKeys, cache, signals, view, stamps>>

-----------------------------------------------------------------------------
(***************************************************************************)
(* Balances                                                                *)
(***************************************************************************)
\* _needs_check(): the fingerprint moved, or the reading is old
NeedsCheck(k, forced) == forced \/ ~cache[k].on \/ ~cache[k].fresh \/ cache[k].stamp # keys[k].stamp

\* overview() up to its first await
OverviewBegins(forced) ==
    /\ ~view.on
    /\ LET listed == {k \in VaultKey : keys[k].on} IN
       view' = [NoView EXCEPT !.on = TRUE, !.listed = listed, !.stale = {k \in listed : NeedsCheck(k, forced)},
                              !.stamp = [k \in VaultKey |-> IF k \in listed THEN keys[k].stamp ELSE 0]]
    /\ UNCHANGED <<keys, profileKeys, research, choosing, cache, signals, stamps>>

\* _read_key(): the secret there is now, or "the key was just removed" (0)
OverviewReads(k) ==
    /\ view.on /\ k \in view.stale /\ view.read[k] = 0
    /\ view' = [view EXCEPT !.read[k] = IF keys[k].on THEN keys[k].secret ELSE 0,
                            !.stale = IF keys[k].on THEN @ ELSE @ \ {k}, !.listed = IF keys[k].on THEN @ ELSE @ \ {k}]
    /\ UNCHANGED <<keys, profileKeys, research, choosing, cache, signals, stamps>>

ListedStamp(k) == view.stamp[k]

\* The readings are stored under the fingerprint of the list.  A key that was
\* not stale and was reported out of credit meanwhile has no entry any more:
\* the overview fails.  Signals turn "unknown" into "exhausted".
OverviewEnds ==
    /\ view.on /\ \A k \in view.stale : view.read[k] # 0
    /\ cache' = [k \in VaultKey |-> IF k \in view.stale
                                    THEN [on |-> TRUE, stamp |-> ListedStamp(k), of |-> view.read[k], fresh |-> TRUE]
                                    ELSE cache[k]]
    /\ view' = NoView
    /\ UNCHANGED <<keys, profileKeys, research, choosing, signals, stamps>>

\* report_call_failure(): the provider said there is no credit
CallFindsNoCredit(k) ==
    /\ keys[k].on /\ (research = k \/ \E p \in Profile : profileKeys[p] = k)
    /\ cache' = [cache EXCEPT ![k] = Uncached] /\ signals' = signals \cup {k}
    /\ UNCHANGED <<keys, profileKeys, research, choosing, view, stamps>>

\* CACHE_TTL_SECONDS, CALL_SIGNAL_SECONDS
ReadingAges(k) ==
    /\ cache[k].on /\ cache[k].fresh
    /\ cache' = [cache EXCEPT ![k].fresh = FALSE]
    /\ UNCHANGED <<keys, profileKeys, research, choosing, signals, view, stamps>>

SignalAges(k) ==
    /\ k \in signals /\ signals' = signals \ {k}
    /\ UNCHANGED <<keys, profileKeys, research, choosing, cache, view, stamps>>

KeysProcessEnds ==
    /\ cache' = [k \in VaultKey |-> Uncached] /\ signals' = {} /\ view' = NoView /\ choosing' = None
    /\ UNCHANGED <<keys, profileKeys, research, stamps>>

-----------------------------------------------------------------------------
KeysInit ==
    /\ keys = [k \in VaultKey |-> [on |-> FALSE, secret |-> 0, stamp |-> 0]]
    /\ profileKeys = [p \in Profile |-> None] /\ research = None /\ choosing = None
    /\ cache = [k \in VaultKey |-> Uncached] /\ signals = {} /\ view = NoView /\ stamps = 0

KeysNext ==
    \/ \E k \in VaultKey :
          \/ SaveKey(k) \/ DeleteKey(k) \/ ChooseResearch(k) \/ OverviewReads(k)
          \/ CallFindsNoCredit(k) \/ ReadingAges(k) \/ SignalAges(k)
          \/ \E rotate \in BOOLEAN : UpdateKey(k, rotate)
    \/ \E p \in Profile, k \in VaultKey \cup {None} : LinkProfile(p, k)
    \/ \E k \in VaultKey \cup {None} : WriteResearch(k)
    \/ \E forced \in BOOLEAN : OverviewBegins(forced)
    \/ OverviewEnds \/ KeysProcessEnds

-----------------------------------------------------------------------------
\* A balance the next overview would show for a key was read with the secret the
\* key has now, however it was renamed, rotated or reported during the reading
\* (overview, _needs_check, _fingerprint).
ShownBalanceIsOfTheKey ==
    \A k \in VaultKey : keys[k].on /\ ~NeedsCheck(k, FALSE) => cache[k].of = keys[k].secret
=============================================================================
