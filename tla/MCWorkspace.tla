---------------------------- MODULE MCWorkspace ----------------------------
(***************************************************************************)
(* The leave timer, calendar reconciliation, access to the workspace, paid  *)
(* research and provider keys keep state of their own and never act on one  *)
(* another's: one run checks each of them alone, chosen by the initial      *)
(* state.                                                                   *)
(***************************************************************************)
EXTENDS LeaveTimer, CalendarSync, WorkspaceAccess, PrepResearch, ProviderKeys

VARIABLE side

workspaceVars == <<side, timerVars, calendarVars, accessVars, researchVars, keysVars>>

WorkspaceInit ==
    /\ side \in {"timer", "calendar", "access", "research", "keys"}
    /\ TimerInit /\ ResearchInit /\ KeysInit
    /\ CalendarInit /\ (side # "calendar" => provider = "stable")
    /\ AccessInit /\ (side # "access" => \A p \in Person \ {Founder} : accounts[p].st = "none")

TimerAlone    == side = "timer" /\ TimerNext /\ UNCHANGED <<calendarVars, accessVars, researchVars, keysVars>>
CalendarAlone == side = "calendar" /\ CalendarNext /\ UNCHANGED <<timerVars, accessVars, researchVars, keysVars>>
AccessAlone   == side = "access" /\ AccessNext /\ UNCHANGED <<timerVars, calendarVars, researchVars, keysVars>>
ResearchAlone == side = "research" /\ ResearchNext /\ UNCHANGED <<timerVars, calendarVars, accessVars, keysVars>>
KeysAlone     == side = "keys" /\ KeysNext /\ UNCHANGED <<timerVars, calendarVars, accessVars, researchVars>>

WorkspaceNext ==
    /\ UNCHANGED side
    /\ TimerAlone \/ CalendarAlone \/ AccessAlone \/ ResearchAlone \/ KeysAlone

WorkspaceSpec == WorkspaceInit /\ [][WorkspaceNext]_workspaceVars /\ CalendarFairness

\* Every row, every step under way and every bound keeps its type
WorkspaceTypeOK == TimerTypeOK /\ CalendarTypeOK /\ AccessTypeOK /\ ResearchTypeOK /\ KeysTypeOK

\* What the owner is shown is what was spent: the research report counts every
\* paid call once, and a balance is that of the key it stands beside
SpendIsShown == ReportShowsItsSpend /\ ShownBalanceIsOfTheKey
=============================================================================
