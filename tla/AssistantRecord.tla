-------------------------- MODULE AssistantRecord --------------------------
(***************************************************************************)
(* What a workspace is told about the assistants of its calls, as          *)
(* AssistantRecord.state of call_coverage.py promises it: "scheduled |     *)
(* joining | in_call | ended | idle - what the assistant is doing now".    *)
(* The specification every record follows, whoever scheduled it and        *)
(* whatever the scheduler, the capture service and teammates do.           *)
(***************************************************************************)
CONSTANT Record

VARIABLE doing

Phase == {"idle", "scheduled", "joining", "in_call", "ended"}

\* One step of one assistant: it is scheduled, withdrawn or skipped, it goes
\* ahead, waits in line, gives up or gets in, is in the call, and is done;
\* an older answer may be told after a newer one
Leads == [ idle      |-> {"scheduled", "joining"},
           scheduled |-> {"joining", "idle"},
           joining   |-> {"in_call", "ended", "scheduled", "idle"},
           in_call   |-> {"ended", "idle", "joining"},
           ended     |-> {"idle", "in_call", "joining"} ]

Init == doing \in [Record -> {"idle", "scheduled"}]

Next == /\ doing' \in [Record -> Phase]
        /\ \A r \in Record : doing'[r] \in {doing[r]} \union Leads[doing[r]]

Spec == Init /\ [][Next]_doing

=============================================================================
