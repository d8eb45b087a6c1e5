--------------------------- MODULE ProviderRoutes ---------------------------
(***************************************************************************)
(* Which provider answers a request, and with which key: profiles and the   *)
(* saved keys they use (service.py, credential_vault.py), the default       *)
(* selection and its fallback order, the Ask AI route (ai_settings.py), and *)
(* calls that try one provider after the other.  Changes run on threads,    *)
(* each repository method one transaction; calls await their provider.      *)
(* Models, names and the kinds of provider are data: a host stands for the  *)
(* provider type and base URL, "openai" for OpenAI's own.                   *)
(***************************************************************************)
EXTENDS Integers, Sequences

CONSTANTS Provider,     \* profiles
          SavedKey,     \* keys of the vault
          Thread,       \* requests under way at a time
          MaxEdits      \* bound: changes of profiles, keys and routes

ASSUME RoutesAssumption == MaxEdits \in Nat /\ "unset" \notin Provider /\ SavedKey \cap {"unset", "pasted"} = {}

VARIABLES profs,        \* ProviderProfileRow with its link to the vault
          vaultHost,    \* ProviderCredentialRow: the host a key was saved for
          default,      \* OrganizationProviderDefaultRow of text generation
          chatRoute,    \* chat_profile_id of OrganizationAiSettingsRow
          work,         \* requests under way
          edits,
          moved,        \* profiles whose location was changed after they were made
          strays        \* profiles written into a route after they were deleted

routesVars == <<profs, vaultHost, default, chatRoute, work, edits, moved, strays>>

Unset     == "unset"
Pasted    == "pasted"
Location  == {"local", "cloud"}
Host      == {"openai", "elsewhere"}
NoDefault == [policy |-> Unset, local |-> Unset, cloud |-> Unset]
Idling    == [at |-> "idle", p |-> Unset, copy |-> Unset, sel |-> NoDefault, left |-> <<>>, spoke |-> FALSE]

ProfileRow == [on : BOOLEAN, was : BOOLEAN, loc : Location, host : Host, own : {Unset, Pasted} \cup SavedKey,
               link : {Unset} \cup SavedKey, text : BOOLEAN]

RoutesTypeOK ==
    /\ \A p \in Provider : profs[p] \in ProfileRow
    /\ vaultHost \in [SavedKey -> Host \cup {Unset, "deleted"}] /\ chatRoute \in Provider \cup {Unset}
    /\ {default.local, default.cloud} \subseteq Provider \cup {Unset}
    /\ \A t \in Thread : work[t].at \in {"idle", "editing", "vaulted", "selecting", "routing", "trying", "asking"}
    /\ edits \in 0 .. MaxEdits /\ moved \cup strays \subseteq Provider

-----------------------------------------------------------------------------
(***************************************************************************)
(* Plausible bugs, see PROJECT.json                                        *)
(***************************************************************************)
AnyKeyWillDo(c) == c.host = "openai" => c.loc = "cloud"
KeepsTheSecret(c) == IF c.link # Unset THEN c.link ELSE c.own
AnyProfileFits(p, loc) == p # Unset => profs[p].on /\ profs[p].text
KeepsThePolicy(d, p) ==
    LET l == IF d.local = p THEN Unset ELSE d.local
        c == IF d.cloud = p THEN Unset ELSE d.cloud IN
    IF l = Unset /\ c = Unset THEN NoDefault ELSE [d EXCEPT !.local = l, !.cloud = c]
KeepsItsRoute(p) == chatRoute
AnotherMayGoOn(t) == work[t].sel.policy # "chosen" /\ Len(work[t].left) > 1

-----------------------------------------------------------------------------
(***************************************************************************)
(* Profiles and keys                                                       *)
(***************************************************************************)
Edit == edits < MaxEdits /\ edits' = edits + 1
Idle(t) == work[t].at = "idle"
Does(t, w) == work' = [work EXCEPT ![t] = w]

\* profile_link_base_url(): a saved key goes to the host it was saved for
KeyFits(c) == c.link # Unset => vaultHost[c.link] = c.host

\* ProfileCreate.validate_provider and _bind_credential
ValidProfile(c) == (c.host = "openai" => c.loc = "cloud") /\ KeyFits(c)

\* A linked profile's key is the vault's: it never becomes the profile's own
OwnKey(c) == IF c.link # Unset THEN Unset ELSE c.own

\* update(): one field at a time, merged with the profile as it was read
Changed(c) ==
    LET own == [c EXCEPT !.own = OwnKey(c)] IN
    {[own EXCEPT !.loc = l] : l \in Location} \cup {[own EXCEPT !.host = h] : h \in Host}
    \cup {[own EXCEPT !.text = b] : b \in BOOLEAN}
    \cup {[c EXCEPT !.own = Pasted, !.link = Unset], [own EXCEPT !.link = Unset]}
    \cup {[c EXCEPT !.own = Unset, !.link = k, !.host = vaultHost[k]] : k \in {j \in SavedKey : vaultHost[j] \in Host}}

\* create(): with a key of its own, or a saved one
CreateProfile(p, c) ==
    /\ ~profs[p].was /\ ValidProfile(c) /\ Edit
    /\ profs' = [profs EXCEPT ![p] = c]
    /\ UNCHANGED <<vaultHost, default, chatRoute, work, moved, strays>>

UpdateReads(t, p) ==
    /\ Idle(t) /\ profs[p].on /\ Edit
    /\ Does(t, [Idling EXCEPT !.at = "editing", !.p = p, !.copy = profs[p]])
    /\ UNCHANGED <<profs, vaultHost, default, chatRoute, moved, strays>>

\* _save_to_vault(): a key saved for the host of the profile
SaveToVault(t, k) ==
    /\ work[t].at = "editing" /\ vaultHost[k] = Unset
    /\ vaultHost' = [vaultHost EXCEPT ![k] = work[t].copy.host]
    /\ Does(t, [work[t] EXCEPT !.at = "vaulted", !.copy.own = Unset, !.copy.link = k])
    /\ UNCHANGED <<profs, default, chatRoute, edits, moved, strays>>

\* save_profile() writes the row whole, and makes it again if it was deleted meanwhile
UpdateSaves(t, c) ==
    LET p == work[t].p IN
    /\ Does(t, Idling)
    /\ IF ValidProfile(c)
       THEN /\ profs' = [profs EXCEPT ![p] = c]
            /\ moved' = IF c.loc # profs[p].loc THEN moved \cup {p} ELSE moved
       ELSE UNCHANGED <<profs, moved>>
    /\ UNCHANGED <<vaultHost, default, chatRoute, edits, strays>>

\* CredentialVault.delete(): refused while a profile uses the key
DeleteSavedKey(k) ==
    /\ vaultHost[k] \in Host /\ \A p \in Provider : profs[p].on => profs[p].link # k
    /\ Edit /\ vaultHost' = [vaultHost EXCEPT ![k] = "deleted"]
    /\ UNCHANGED <<profs, default, chatRoute, work, moved, strays>>

\* delete_profile(): the default goes on with the profile that is left
DefaultWithout(d, p) ==
    LET l == IF d.local = p THEN Unset ELSE d.local
        c == IF d.cloud = p THEN Unset ELSE d.cloud IN
    IF l = Unset /\ c = Unset THEN NoDefault
    ELSE [policy |-> CASE l = Unset -> "cloud_only" [] c = Unset -> "local_only" [] OTHER -> d.policy,
          local |-> l, cloud |-> c]

RouteWithout(p) == IF chatRoute = p THEN Unset ELSE chatRoute

DeleteProfileRow(p) ==
    /\ profs[p].on /\ Edit
    /\ profs' = [profs EXCEPT ![p].on = FALSE, ![p].link = Unset, ![p].own = Unset]
    /\ default' = DefaultWithout(default, p) /\ chatRoute' = RouteWithout(p)
    /\ UNCHANGED <<vaultHost, work, moved, strays>>

-----------------------------------------------------------------------------
(***************************************************************************)
(* Routes: looked at, then written                                         *)
(***************************************************************************)
\* _validate_selected_profile()
Fits(p, loc) == p # Unset => profs[p].on /\ profs[p].text /\ profs[p].loc = loc

\* DefaultSelectionRequest.validate_required_profiles
Needs(policy) == CASE policy = "local_only" -> {"local"} [] policy = "cloud_only" -> {"cloud"} [] OTHER -> Location

SelectChecks(t, policy, l, c) ==
    /\ Idle(t) /\ Edit
    /\ "local" \in Needs(policy) => l # Unset
    /\ "cloud" \in Needs(policy) => c # Unset
    /\ Fits(l, "local") /\ Fits(c, "cloud")
    /\ Does(t, [Idling EXCEPT !.at = "selecting", !.sel = [policy |-> policy, local |-> l, cloud |-> c]])
    /\ UNCHANGED <<profs, vaultHost, default, chatRoute, moved, strays>>

Absent(named) == {p \in named \ {Unset} : ~profs[p].on}

\* save_default() looks again, then writes, with no foreign key to the profiles
SelectFails(t) ==
    /\ work[t].at = "selecting" /\ Absent({work[t].sel.local, work[t].sel.cloud}) # {} /\ Does(t, Idling)
    /\ UNCHANGED <<profs, vaultHost, default, chatRoute, edits, moved, strays>>

SelectWrites(t) ==
    /\ work[t].at = "selecting" /\ Does(t, Idling)
    /\ default' = work[t].sel /\ strays' = strays \cup Absent({work[t].sel.local, work[t].sel.cloud})
    /\ UNCHANGED <<profs, vaultHost, chatRoute, edits, moved>>

\* AiSettingsService._validate_route(), then the row
RouteChecks(t, p) ==
    /\ Idle(t) /\ Edit /\ (p # Unset => profs[p].on /\ profs[p].text)
    /\ Does(t, [Idling EXCEPT !.at = "routing", !.p = p])
    /\ UNCHANGED <<profs, vaultHost, default, chatRoute, moved, strays>>

RouteWrites(t) ==
    /\ work[t].at = "routing" /\ Does(t, Idling)
    /\ chatRoute' = work[t].p /\ strays' = strays \cup Absent({work[t].p})
    /\ UNCHANGED <<profs, vaultHost, default, edits, moved>>

-----------------------------------------------------------------------------
(***************************************************************************)
(* Calls                                                                   *)
(***************************************************************************)
RoutesStay == <<profs, vaultHost, default, chatRoute, edits, moved, strays>>

\* DefaultSelection.ordered_profile_ids
Chosen(p) == IF p = Unset THEN <<>> ELSE <<p>>

Ordered(d) ==
    CASE d.policy = "local_only" -> Chosen(d.local)
      [] d.policy = "cloud_only" -> Chosen(d.cloud)
      [] d.policy = "local_then_cloud" -> Chosen(d.local) \o Chosen(d.cloud)
      [] OTHER -> Chosen(d.cloud) \o Chosen(d.local)

\* chat_route() names the provider, or generate_text() reads the default
CallAsks(t, ai) ==
    /\ Idle(t) /\ (ai => chatRoute # Unset)
    /\ LET order == IF ai THEN <<chatRoute>> ELSE Ordered(default) IN
       /\ order # <<>>
       /\ Does(t, [Idling EXCEPT !.at = "trying", !.left = order, !.sel = IF ai THEN [default EXCEPT !.policy = "chosen"] ELSE default])
    /\ UNCHANGED RoutesStay

\* Without a deleted profile the call fails; one that makes no text is passed over
MayGoOn(t) == ~work[t].spoke /\ work[t].sel.policy # "chosen" /\ Len(work[t].left) > 1
Onward(t) == IF MayGoOn(t) THEN [work[t] EXCEPT !.at = "trying", !.left = Tail(@)] ELSE Idling

CallTries(t) ==
    LET p == Head(work[t].left) IN
    /\ work[t].at = "trying"
    /\ Does(t, CASE ~profs[p].on -> Idling
                 [] profs[p].on /\ ~profs[p].text -> Onward(t)
                 [] OTHER -> [work[t] EXCEPT !.at = "asking", !.p = p, !.copy = profs[p]])
    /\ UNCHANGED RoutesStay

\* The first words of a streamed answer reach the person who asked
CallSpeaks(t) == work[t].at = "asking" /\ ~work[t].spoke /\ Does(t, [work[t] EXCEPT !.spoke = TRUE]) /\ UNCHANGED RoutesStay

CallAnswers(t) == work[t].at = "asking" /\ Does(t, Idling) /\ UNCHANGED RoutesStay

CallBreaks(t) == work[t].at = "asking" /\ Does(t, Onward(t)) /\ UNCHANGED RoutesStay

-----------------------------------------------------------------------------
NewProfiles == {c \in [on : {TRUE}, was : {TRUE}, loc : Location, host : Host, own : {Pasted}, link : {Unset}, text : {TRUE}] : ValidProfile(c)}

\* No profile yet, or one that was made before
Absentee == [on |-> FALSE, was |-> FALSE, loc |-> "local", host |-> "elsewhere", own |-> Unset, link |-> Unset, text |-> FALSE]

RoutesInit ==
    /\ profs \in [Provider -> NewProfiles \cup {Absentee}]
    /\ vaultHost = [k \in SavedKey |-> Unset] /\ default = NoDefault /\ chatRoute = Unset
    /\ work = [t \in Thread |-> Idling] /\ edits = 0 /\ moved = {} /\ strays = {}

ProfileSteps ==
    \/ \E p \in Provider : DeleteProfileRow(p) \/ \E c \in NewProfiles : CreateProfile(p, c)
    \/ \E t \in Thread :
           \/ \E p \in Provider : UpdateReads(t, p)
           \/ \E k \in SavedKey : SaveToVault(t, k)
           \/ work[t].at = "editing" /\ \E c \in Changed(work[t].copy) : UpdateSaves(t, c)
           \/ work[t].at = "vaulted" /\ UpdateSaves(t, work[t].copy)
    \/ \E k \in SavedKey : DeleteSavedKey(k)

RouteSteps ==
    \E t \in Thread :
        \/ \E policy \in {"local_only", "local_then_cloud", "cloud_only", "cloud_then_local"} :
               \E l, c \in Provider \cup {Unset} : SelectChecks(t, policy, l, c)
        \/ \E p \in Provider \cup {Unset} : RouteChecks(t, p)
        \/ SelectFails(t) \/ SelectWrites(t) \/ RouteWrites(t)

CallSteps ==
    \E t \in Thread :
        \/ \E ai \in BOOLEAN : CallAsks(t, ai)
        \/ CallTries(t) \/ CallSpeaks(t) \/ CallAnswers(t) \/ CallBreaks(t)

RoutesNext == ProfileSteps \/ RouteSteps \/ CallSteps

RoutesSpec == RoutesInit /\ [][RoutesNext]_routesVars

-----------------------------------------------------------------------------
(***************************************************************************)
(* Properties                                                              *)
(***************************************************************************)
\* A saved key leaves only for the host it was saved for, and no profile keeps a copy of it
KeysStayHome ==
    /\ \A t \in Thread : work[t].at = "asking" /\ work[t].copy.link # Unset
                             => vaultHost[work[t].copy.link] \in {work[t].copy.host, "deleted"}
    /\ \A p \in Provider : profs[p].own \notin SavedKey

\* "Local only" is local, unless the profile was moved after it was made
LocalStaysLocal ==
    \A t \in Thread : work[t].at = "asking" /\ work[t].sel.policy = "local_only" /\ work[t].p \notin moved
                          => work[t].copy.loc = "local"

\* What the routes name is there, unless it was deleted while the route was written, and the
\* default always has the profiles its policy needs
RoutesLeadSomewhere ==
    /\ \A p \in {default.local, default.cloud, chatRoute} \ {Unset} : profs[p].on \/ p \in strays
    /\ default.policy # Unset => /\ "local" \in Needs(default.policy) => default.local # Unset
                                 /\ "cloud" \in Needs(default.policy) => default.cloud # Unset

\* Once a provider has begun to answer, no other one is asked: an answer has one author
OneAuthor == [][\A t \in Thread : work[t].spoke => work'[t].at = "idle" \/ work'[t] = work[t]]_routesVars

\* Requests go where the owner sent them, with the keys meant for that place, though profiles,
\* keys and routes are changed and deleted under calls and other changes
RoutesAreKept == [](RoutesTypeOK /\ KeysStayHome /\ LocalStaysLocal /\ RoutesLeadSomewhere) /\ OneAuthor
=============================================================================
