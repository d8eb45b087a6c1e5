------------------------------ MODULE MCDeploy ------------------------------
(***************************************************************************)
(* Processes around a deploy, and five parts of the service that share no   *)
(* state with them or with one another: the Research page, the providers,   *)
(* the notification center, the sharing of a knowledge base and the teams a *)
(* recap is sent to.  One run checks each alone, chosen by the initial      *)
(* state; see deploy.cfg.                                                   *)
(***************************************************************************)
EXTENDS MCBackgroundWork, ResearchExplorer, ProviderRoutes, NotificationCenter,
        KnowledgeSharing, RecipientTeams

CONSTANT Creator  \* the reader who makes the knowledge base, or nobody else does

VARIABLE side

deployVars == <<side, vars, explorerVars, routesVars, noticesVars, sharingVars, teamVars>>

FactKinds == "joined" :> "status" @@ "left" :> "status" @@ "draft" :> "minutes" @@ "share" :> "shared"

\* One fact while people come and go, drafts the longest and without faults, or two statuses while nobody does
NewsComes ==
    /\ happening \in {{"joined"}, {"draft"}, {"share"}, {"joined", "left"}}
    /\ staffSteps = CASE happening = {"draft"} -> 0
                      [] Cardinality(happening) = 2 -> MaxStaff
                      [] OTHER -> MaxStaff - 1
    /\ faultSteps = IF happening = {"draft"} THEN MaxBreaks ELSE 0

\* People use the page with the connection there is, or somebody sets one up
ExplorerBegins ==
    IF integration.account = 1 THEN changes = MaxChanges /\ asks = 0 ELSE changes = 0 /\ asks = MaxAsks - 1

\* No profile yet, or a local one and OpenAI
ProvidersBegin ==
    \/ \A p \in Provider : ~profs[p].was
    \/ /\ \A p \in Provider : profs[p].was
       /\ \E p, q \in Provider : profs[p].loc = "local" /\ profs[q].host = "openai"

\* Three decisions on the sharing and somebody who moves; two, and a mail that is not confirmed; two, and
\* people who move; one person less to tell, two decisions, a move and a question
SharingBeginsWith ==
    /\ \A u \in Reader : role[u] = "member"
    /\ <<kb.maker, shareSteps, moveSteps, askSteps, unsureMails>> \in
          {<<"owner", 0, MaxMoves - 1, MaxAsked, MaxUnsure>>, <<"owner", MaxShares - 2, MaxMoves, MaxAsked, 0>>,
           <<"owner", MaxShares - 2, MaxMoves - 2, MaxAsked, MaxUnsure>>,
           <<Creator, MaxShares - 2, MaxMoves - 1, MaxAsked - 1, MaxUnsure>>}

\* The part that is checked begins anyhow, the others in one way
DeployInit ==
    /\ side \in {"processes", "research", "providers", "news", "sharing", "teams"}
    /\ Init /\ ExplorerInit /\ ExplorerBegins /\ RoutesInit /\ NoticesInit /\ NewsComes
    /\ SharingInit /\ SharingBeginsWith /\ TeamsInit
    /\ side # "research" => integration.account = 0
    /\ side = "providers" => ProvidersBegin
    /\ side # "providers" => \A p \in Provider : profs[p] = Absentee
    /\ side # "news" => happening = {"joined"} /\ \A u \in Teammate : staffing[u] = "none"
    /\ side # "sharing" => shareSteps = 0

ProcessesAlone == side = "processes" /\ Next
                  /\ UNCHANGED <<explorerVars, routesVars, noticesVars, sharingVars, teamVars>>
ResearchAlone  == side = "research" /\ ExplorerNext
                  /\ UNCHANGED <<vars, routesVars, noticesVars, sharingVars, teamVars>>
ProvidersAlone == side = "providers" /\ RoutesNext
                  /\ UNCHANGED <<vars, explorerVars, noticesVars, sharingVars, teamVars>>
NewsAlone      == side = "news" /\ NoticesNext
                  /\ UNCHANGED <<vars, explorerVars, routesVars, sharingVars, teamVars>>
SharingAlone   == side = "sharing" /\ SharingNext
                  /\ UNCHANGED <<vars, explorerVars, routesVars, noticesVars, teamVars>>
TeamsAlone     == side = "teams" /\ TeamsNext
                  /\ UNCHANGED <<vars, explorerVars, routesVars, noticesVars, sharingVars>>

DeployNext ==
    /\ UNCHANGED side
    /\ ProcessesAlone \/ ResearchAlone \/ ProvidersAlone \/ NewsAlone \/ SharingAlone \/ TeamsAlone

DeploySpec == DeployInit /\ [][DeployNext]_deployVars

\* Pairs of identical actors: as only one part runs, pairs of different parts may change places
\* together, which keeps the group small
Swap(pair) == CHOOSE f \in Permutations(pair) : \A x \in pair : f[x] # x

DeploySymmetry ==
    {Swap(Proc) @@ Swap(Tab) @@ Swap(Provider) @@ Swap(Announcer) @@ Swap(Desk), Swap(Setup) @@ Swap(Thread) @@ Swap(Team)}
=============================================================================
