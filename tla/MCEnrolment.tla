----------------------------- MODULE MCEnrolment ----------------------------
(***************************************************************************)
(* The rules that decide which calls are recorded, and the minutes that     *)
(* people send of one call; beside them the claims of a generated draft and *)
(* the personal versions of minutes.  They share no state and one run       *)
(* checks each alone, chosen by the initial state; see manual.cfg.          *)
(***************************************************************************)
EXTENDS MCMinutes, CalendarRules, MinutesEvidence, MinutesVersions

CONSTANTS mine, team,        \* calendars
          q1, q2, n1, n2     \* segments and names

\* Two people with a calendar each
TwoPeople == {"p1", "p2"}
OneEach == [f \in {mine, team} |-> IF f = mine THEN "p1" ELSE "p2"]

VARIABLE side

enrolmentVars == <<side, vars, rulesVars, evidenceVars, versionVars>>

\* Two segments: named or not, finalized or not, long or naming somebody; drafts of up to two claims
SpokenOrder == <<q1, q2>>
SegmentOf(raw, done, long, names) == [raw |-> raw, done |-> done, long |-> long, names |-> names]
Transcripts ==
    {q1 :> x @@ q2 :> y : x \in {SegmentOf(n1, TRUE, TRUE, {}), SegmentOf(NoVoice, TRUE, FALSE, {n2})},
                          y \in {SegmentOf(n2, TRUE, TRUE, {}), SegmentOf(n1, FALSE, TRUE, {})}}
Cites   == {{1}, {2}, {q2, 1}, {2, Unknown}, {Unknown}}
ModelClaims == [kind : {"said"}, who : Voice, cites : Cites] \cup [kind : {"action", "asked"}, who : {NoVoice, n2}, cites : Cites]
Answers == {{c, d} : c \in ModelClaims, d \in [kind : {"said"}, who : Voice, cites : {{1}}]} \cup {{}}
Edits   == {{c} : c \in [kind : {"said", "action"}, who : Voice, cites : {{q1}, {q1, q2}}]}

\* Both rules are on and nothing else is done or goes wrong, or one rule is on
EnrolmentInit ==
    /\ side \in {"minutes", "rules", "claims", "versions"}
    /\ Init /\ RulesInit /\ EvidenceInit /\ VersionInit
    /\ rules["p1"].on /\ (side # "rules" => ~rules["p1"].newOnly /\ ~rules["p2"].on)
    /\ IF rules["p2"].on THEN turns = MaxTurns /\ \A p \in Owner : ~rules[p].newOnly ELSE turns = 0
    /\ side # "claims" => segs = CHOOSE t \in Transcript : TRUE

MinutesAlone == side = "minutes" /\ Next /\ UNCHANGED <<rulesVars, evidenceVars, versionVars>>
RulesAlone   == side = "rules" /\ RulesNext /\ UNCHANGED <<vars, evidenceVars, versionVars>>
ClaimsAlone  == side = "claims" /\ EvidenceNext /\ UNCHANGED <<vars, rulesVars, versionVars>>
VersionsAlone == side = "versions" /\ VersionNext /\ UNCHANGED <<vars, rulesVars, evidenceVars>>

EnrolmentNext == UNCHANGED side /\ (MinutesAlone \/ RulesAlone \/ ClaimsAlone \/ VersionsAlone)

EnrolmentSpec == EnrolmentInit /\ [][EnrolmentNext]_enrolmentVars

\* Minutes say what was said: a draft rests on the transcript as it now is, and
\* a personal version is shared as its author read and approved it
MinutesAreSound == MinutesAreGrounded /\ SharedIsReviewed
=============================================================================
