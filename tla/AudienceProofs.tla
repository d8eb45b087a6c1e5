--------------------------- MODULE AudienceProofs ---------------------------
(***************************************************************************)
(* Who hears what, proved for any number of people, facts, requests and     *)
(* changes: everybody of an audience is told of each fact, once, and nobody *)
(* else is (NotificationCenter); what people were told of a knowledge base  *)
(* is so, and answers are kept only for its readers (KnowledgeSharing); a   *)
(* recap goes to the teams the last edits asked for (RecipientTeams).       *)
(***************************************************************************)
EXTENDS NotificationCenter, KnowledgeSharing, RecipientTeams, SequenceTheorems, FiniteSetTheorems, TLAPS

-----------------------------------------------------------------------------
(***************************************************************************)
(* The notification center.  told and heldRoles only grow, so what was      *)
(* right once stays right.  A pass that knows whom to tell has read the     *)
(* roles they held; before its writes it reads the memberships again; and   *)
(* each person it found is still on its list, or has a row, or the pass     *)
(* has failed.                                                              *)
(***************************************************************************)
Role   == {"none", "member", "admin", "owner", "sharing", "handed_over"}
Note   == [who : Teammate, fact : Fact, copy : {1}, read : BOOLEAN]
Pass   == [at : {"quiet", "begun", "known", "writing"}, fact : Fact \cup {"none"},
           whole : SUBSET Teammate, todo : SUBSET Teammate, failed : BOOLEAN]

\* The types of every variable
ListTypes ==
    /\ notes \in SUBSET Note
    /\ told \in SUBSET (Teammate \X Fact)
    /\ mailed = {p \in told : FactKind[p[2]] = "shared"}
    /\ heard \in [Fact -> SUBSET Teammate]
    /\ news \in [Announcer -> Pass]
    /\ happening \in SUBSET Fact

StaffTypes ==
    /\ staffing \in [Teammate -> {"none", "member", "admin"}]
    /\ covering \in [Teammate -> {"none", "owner", "sharing", "handed_over"}]
    /\ heldRoles \in [Teammate -> SUBSET Role]

CacheTypes ==
    /\ spoken \in Seq(Fact) /\ Len(spoken) <= CacheSize
    /\ staffSteps \in 0 .. MaxStaff /\ faultSteps \in 0 .. MaxBreaks

\* Every row in a list was told, and is the only one of its person and fact
RowsAreTold == \A n \in notes : <<n.who, n.fact>> \in told

\* What a person is now, they ever were
RolesAreHeld ==
    \A u \in Teammate :
        /\ staffing[u] \in heldRoles[u]
        /\ covering[u] # "none" => covering[u] \in heldRoles[u]

\* Who may hear of the draft minutes, and who is of the workspace
Entitled(u, f) == FactKind[f] = "minutes" => u = Named \/ heldRoles[u] \cap {"owner", "admin"} # {}
Employed(u)    == heldRoles[u] \cap {"member", "admin"} # {}

\* A pass tells only those who may hear of its fact
PassesAreRight ==
    \A a \in Announcer :
        /\ news[a].at # "quiet" => news[a].fact \in Fact
        /\ news[a].at \in {"quiet", "begun"} => news[a].todo = {}
        /\ \A u \in news[a].todo : Entitled(u, news[a].fact)
        /\ news[a].at = "writing" => \A u \in news[a].todo : Employed(u)

\* Who was to hear of it is on the list, or was told, unless the pass failed
PassesAreWhole ==
    \A a \in Announcer :
        news[a].at = "writing" /\ ~news[a].failed =>
            \A u \in news[a].whole : u \in news[a].todo \/ <<u, news[a].fact>> \in told

NoticesInv ==
    /\ ListTypes /\ StaffTypes /\ CacheTypes
    /\ RowsAreTold /\ OneNoteEach /\ RolesAreHeld
    /\ PassesAreRight /\ PassesAreWhole
    /\ ToldByRight /\ NobodyMissed

USE NoticesAssumption

-----------------------------------------------------------------------------
\* Before anything is announced nothing is owed
LEMMA NoticesBegin == NoticesInit => NoticesInv
<1> SUFFICES ASSUME NoticesInit PROVE NoticesInv  OBVIOUS
<1>1. ListTypes  BY DEF NoticesInit, ListTypes, Pass, Quiet
<1>2. StaffTypes  BY DEF NoticesInit, StaffTypes, Role
<1>3. CacheTypes  BY EmptySeq DEF NoticesInit, CacheTypes
<1>4. RowsAreTold /\ OneNoteEach /\ ToldByRight /\ NobodyMissed
    BY DEF NoticesInit, RowsAreTold, OneNoteEach, ToldByRight, NobodyMissed
<1>5. RolesAreHeld  BY DEF NoticesInit, RolesAreHeld
<1>6. PassesAreRight /\ PassesAreWhole  BY DEF NoticesInit, PassesAreRight, PassesAreWhole, Quiet
<1> QED  BY <1>1, <1>2, <1>3, <1>4, <1>5, <1>6 DEF NoticesInv

-----------------------------------------------------------------------------
(***************************************************************************)
(* What a step leaves as it is                                             *)
(***************************************************************************)

\* Rights are judged by roles ever held: they only grow
LEMMA RightsStay ==
    ASSUME StaffTypes, StaffTypes', \A u \in Teammate : heldRoles[u] \subseteq heldRoles'[u]
    PROVE  /\ \A u \in Teammate, f \in Fact \cup {"none"} : Entitled(u, f) => Entitled(u, f)'
           /\ \A u \in Teammate : Employed(u) => Employed(u)'
BY DEF Entitled, Employed

\* The people a fact is for are entitled to it
LEMMA AudienceIsEntitled ==
    ASSUME StaffTypes, RolesAreHeld, NEW f \in Fact
    PROVE  /\ Audience(f) \subseteq Teammate
           /\ \A u \in Audience(f) : Entitled(u, f)
           /\ Admins \subseteq Teammate
           /\ \A u \in Admins : Entitled(u, f)
BY DEF Audience, Members, CoverRoles, Admins, Entitled, StaffTypes, RolesAreHeld

\* Current members are employed
LEMMA MembersAreEmployed ==
    ASSUME StaffTypes, RolesAreHeld, NEW group \in SUBSET Teammate
    PROVE  Members(group) \subseteq group /\ \A u \in Members(group) : Employed(u)
BY DEF Members, Employed, StaffTypes, RolesAreHeld

\* A step of one pass leaves the others as they are
LEMMA PassStep ==
    ASSUME ListTypes, NEW a \in Announcer, NEW p \in Pass, Says(a, p)
    PROVE  /\ news' \in [Announcer -> Pass] /\ news'[a] = p
           /\ \A b \in Announcer \ {a} : news'[b] = news[b]
BY DEF ListTypes, Says

-----------------------------------------------------------------------------
(***************************************************************************)
(* Announcing                                                              *)
(***************************************************************************)

\* A pass p that may stand where pass a stood: entitled people only, and all
\* of those it set out to tell
Sound(p) ==
    /\ p \in Pass
    /\ p.at # "quiet" => p.fact \in Fact
    /\ p.at \in {"quiet", "begun"} => p.todo = {}
    /\ \A u \in p.todo : Entitled(u, p.fact)
    /\ p.at = "writing" => \A u \in p.todo : Employed(u)
    /\ p.at = "writing" /\ ~p.failed => \A u \in p.whole : u \in p.todo \/ <<u, p.fact>> \in told

\* Every pass under way is sound
LEMMA PassesAreSound == NoticesInv => \A a \in Announcer : Sound(news[a])
BY DEF NoticesInv, ListTypes, PassesAreRight, PassesAreWhole, Sound

\* A step of a pass that only reads, or gives up, keeps the invariant
LEMMA PassGoesOn ==
    ASSUME NoticesInv, NEW a \in Announcer, NEW p, Sound(p), Says(a, p),
           UNCHANGED <<Held, notes, mailed, spoken, told, heard>>, faultSteps' \in 0 .. MaxBreaks
    PROVE  NoticesInv'
<1>1. p \in Pass  BY DEF Sound
<1>2. news' \in [Announcer -> Pass] /\ news'[a] = p /\ \A b \in Announcer \ {a} : news'[b] = news[b]
    BY <1>1, PassStep DEF NoticesInv
<1>3. ListTypes' /\ StaffTypes' /\ CacheTypes'
    BY <1>2 DEF NoticesInv, ListTypes, StaffTypes, CacheTypes, Held
<1>4. RowsAreTold' /\ OneNoteEach' /\ RolesAreHeld' /\ ToldByRight' /\ NobodyMissed'
    BY DEF NoticesInv, RowsAreTold, OneNoteEach, RolesAreHeld, ToldByRight, NobodyMissed, Held
<1>5. /\ \A u, f : Entitled(u, f)' = Entitled(u, f)
      /\ \A u : Employed(u)' = Employed(u)
      /\ told' = told
    BY DEF Held, Entitled, Employed
<1>6. \A b \in Announcer : Sound(news'[b])
    BY <1>2, PassesAreSound
<1>7. PassesAreRight'  BY <1>5, <1>6 DEF PassesAreRight, Sound
<1>8. PassesAreWhole'  BY <1>5, <1>6 DEF PassesAreWhole, Sound
<1> QED  BY <1>3, <1>4, <1>7, <1>8 DEF NoticesInv

\* A pass begins with a fact and nobody to tell
LEMMA BeginKeeps ==
    ASSUME NoticesInv, NEW a \in Announcer, NEW f \in Fact, AnnouncingBegins(a, f)
    PROVE  NoticesInv'
<1> DEFINE p == [Quiet EXCEPT !.at = "begun", !.fact = f]
<1>1. Sound(p)  BY DEF Sound, Pass, Quiet
<1>2. Says(a, p) /\ UNCHANGED <<Held, notes, mailed, spoken, told, heard>>
    BY DEF AnnouncingBegins
<1>3. faultSteps' \in 0 .. MaxBreaks
    BY DEF AnnouncingBegins, NoticesInv, CacheTypes
<1> HIDE DEF p
<1> QED  BY <1>1, <1>2, <1>3, PassGoesOn

\* The audience it reads is entitled
LEMMA AudienceKeeps ==
    ASSUME NoticesInv, NEW a \in Announcer, ReadsAudience(a) \/ AudienceUnread(a)
    PROVE  NoticesInv'
<1>1. news[a].at = "begun" /\ news[a] \in Pass /\ news[a].fact \in Fact
    BY DEF ReadsAudience, AudienceUnread, NoticesInv, ListTypes, PassesAreRight
<1>2. /\ Audience(news[a].fact) \subseteq Teammate /\ Admins \subseteq Teammate
      /\ \A u \in Audience(news[a].fact) \cup Admins : Entitled(u, news[a].fact)
    BY <1>1, AudienceIsEntitled DEF NoticesInv
<1>3. CASE ReadsAudience(a)
    <2> DEFINE p == [news[a] EXCEPT !.at = "known", !.todo = Audience(news[a].fact)]
    <2>1. Sound(p)  BY <1>1, <1>2 DEF Sound, Pass
    <2>2. Says(a, p) /\ UNCHANGED <<Held, notes, mailed, spoken, told, heard>> /\ faultSteps' = faultSteps
        BY <1>3 DEF ReadsAudience
    <2>3. faultSteps' \in 0 .. MaxBreaks  BY <2>2 DEF NoticesInv, CacheTypes
    <2> HIDE DEF p
    <2> QED  BY <2>1, <2>2, <2>3, PassGoesOn
<1>4. CASE AudienceUnread(a)
    <2> DEFINE p == [news[a] EXCEPT !.at = "known", !.todo = Admins, !.failed = TRUE]
    <2>1. Sound(p)  BY <1>1, <1>2 DEF Sound, Pass
    <2>2. Says(a, p) /\ UNCHANGED <<Held, notes, mailed, spoken, told, heard>>
        BY <1>4 DEF AudienceUnread
    <2>3. faultSteps' \in 0 .. MaxBreaks  BY <1>4 DEF AudienceUnread, NoticesInv, CacheTypes
    <2> HIDE DEF p
    <2> QED  BY <2>1, <2>2, <2>3, PassGoesOn
<1> QED  BY <1>3, <1>4

\* The members among them who know it already have a row
LEMMA LeavingOutKeeps ==
    ASSUME NoticesInv, NEW a \in Announcer, LeavesOutTheKnowing(a)
    PROVE  NoticesInv'
<1> DEFINE group == Members(news[a].todo)
           p == [news[a] EXCEPT !.at = "writing", !.whole = group, !.todo = group \ Knowing(news[a].fact)]
<1>1. news[a].at = "known" /\ Sound(news[a])
    BY PassesAreSound DEF LeavesOutTheKnowing
<1>2. group \subseteq news[a].todo /\ \A u \in group : Employed(u)
    BY <1>1, MembersAreEmployed DEF NoticesInv, Sound, Pass
<1>3. \A u \in group : u \in Knowing(news[a].fact) => <<u, news[a].fact>> \in told
    BY DEF Knowing, NoticesInv, RowsAreTold
<1>4. Sound(p)
    <2> HIDE DEF group
    <2> QED  BY <1>1, <1>2, <1>3 DEF Sound, Pass
<1>5. Says(a, p) /\ UNCHANGED <<Held, notes, mailed, spoken, told, heard>> /\ faultSteps' = faultSteps
    BY DEF LeavesOutTheKnowing
<1>6. faultSteps' \in 0 .. MaxBreaks  BY <1>5 DEF NoticesInv, CacheTypes
<1> HIDE DEF p
<1> QED  BY <1>4, <1>5, <1>6, PassGoesOn

\* A pass that failed owes nothing
LEMMA FailureKeeps ==
    ASSUME NoticesInv, NEW a \in Announcer, WriteFails(a)
    PROVE  NoticesInv'
<1> DEFINE p == [news[a] EXCEPT !.at = "writing", !.todo = {}, !.failed = TRUE]
<1>1. Sound(news[a]) /\ news[a].at # "quiet"  BY PassesAreSound DEF WriteFails
<1>2. Sound(p)  BY <1>1 DEF Sound, Pass
<1>3. Says(a, p) /\ UNCHANGED <<Held, notes, mailed, spoken, told, heard>>  BY DEF WriteFails
<1>4. faultSteps' \in 0 .. MaxBreaks  BY DEF WriteFails, NoticesInv, CacheTypes
<1> HIDE DEF p
<1> QED  BY <1>2, <1>3, <1>4, PassGoesOn

\* The row of one person: they were told already, or they are told now, once
LEMMA WriteKeeps ==
    ASSUME NoticesInv, NEW a \in Announcer, NEW u \in Teammate, WritesNote(a, u)
    PROVE  NoticesInv'
<1> DEFINE f == news[a].fact
           p == [news[a] EXCEPT !.todo = @ \ {u}]
           copies == {n.copy : n \in {m \in notes : m.who = u /\ m.fact = f}}
           note == [who |-> u, fact |-> f, copy |-> Cardinality(copies) + 1, read |-> FALSE]
<1>1. news[a].at = "writing" /\ u \in news[a].todo /\ Sound(news[a]) /\ f \in Fact
    BY PassesAreSound DEF WritesNote, Sound
<1>2. p \in Pass /\ Says(a, p)  BY <1>1 DEF Sound, Pass, WritesNote
<1>3. news' \in [Announcer -> Pass] /\ news'[a] = p /\ \A b \in Announcer \ {a} : news'[b] = news[b]
    <2> HIDE DEF p
    <2> QED  BY <1>2, PassStep DEF NoticesInv
<1>4. UNCHANGED <<happening, staffing, covering, staffSteps, heldRoles, spoken, faultSteps, heard>>
    BY DEF WritesNote, Held
<1>5. CASE Refused(u, f)
    <2>1. UNCHANGED <<notes, mailed, told>>  BY <1>5 DEF WritesNote
    <2>2. <<u, f>> \in told  BY <1>5 DEF Refused, NoticesInv, RowsAreTold
    <2> HIDE DEF f
    <2>3. Sound(p)  BY <1>1, <1>2, <2>2 DEF Sound, Pass, f
    <2> HIDE DEF p
    <2> QED  BY <1>2, <1>4, <2>1, <2>3, PassGoesOn DEF Held, NoticesInv, CacheTypes
<1>6. CASE ~Refused(u, f)
    <2>1. /\ notes' = notes \cup {note}
          /\ mailed' = IF FactKind[f] = "shared" THEN mailed \cup {<<u, f>>} ELSE mailed
          /\ told' = told \cup {<<u, f>>}
        BY <1>6 DEF WritesNote
    <2>2. copies = {}  BY <1>6 DEF Refused
    <2>3. note = [who |-> u, fact |-> f, copy |-> 1, read |-> FALSE]
        <3> HIDE DEF copies
        <3>1. Cardinality(copies) + 1 = 1  BY <2>2, FS_EmptySet
        <3> QED  BY <3>1
    <2>4. note \in Note /\ note.who = u /\ note.fact = f  BY <1>1, <2>3 DEF Note
    <2> HIDE DEF note, copies
    <2>5. ListTypes'
        <3>1. notes' \in SUBSET Note  BY <2>1, <2>4 DEF NoticesInv, ListTypes
        <3>2. told' \in SUBSET (Teammate \X Fact)  BY <1>1, <2>1 DEF NoticesInv, ListTypes
        <3>3. mailed' = {q \in told' : FactKind[q[2]] = "shared"}
            BY <1>1, <2>1 DEF NoticesInv, ListTypes
        <3> QED  BY <1>3, <1>4, <3>1, <3>2, <3>3 DEF NoticesInv, ListTypes
    <2>6. StaffTypes' /\ CacheTypes' /\ RolesAreHeld'
        BY <1>4 DEF NoticesInv, StaffTypes, CacheTypes, RolesAreHeld
    <2>7. RowsAreTold'  BY <2>1, <2>4 DEF NoticesInv, RowsAreTold
    <2>8. OneNoteEach'  BY <1>6, <2>1, <2>4 DEF NoticesInv, OneNoteEach, Refused
    <2>9. ToldByRight'
        <3>1. Entitled(u, f) /\ Employed(u)  BY <1>1 DEF Sound
        <3>2. \A q \in told' : q \in told \/ (q[1] = u /\ q[2] = f)  BY <2>1
        <3> HIDE DEF f
        <3> QED  BY <1>4, <3>1, <3>2 DEF NoticesInv, ToldByRight, Entitled, Employed
    <2>10. NobodyMissed'  BY <1>4, <2>1 DEF NoticesInv, NobodyMissed
    <2>11. /\ \A v, g : Entitled(v, g)' = Entitled(v, g)
           /\ \A v : Employed(v)' = Employed(v)
        BY <1>4 DEF Entitled, Employed
    <2>12. p.at = news[a].at /\ p.fact = f /\ p.whole = news[a].whole /\ p.failed = news[a].failed
           /\ p.todo = news[a].todo \ {u}
        BY <1>1 DEF Sound, Pass
    <2> HIDE DEF p
    <2>13. PassesAreRight'
        BY <1>1, <1>3, <2>11, <2>12, PassesAreSound DEF PassesAreRight, Sound
    <2>14. PassesAreWhole'
        <3> SUFFICES ASSUME NEW b \in Announcer, news'[b].at = "writing", ~news'[b].failed, NEW v \in news'[b].whole
                     PROVE  v \in news'[b].todo \/ <<v, news'[b].fact>> \in told'
            BY DEF PassesAreWhole
        <3>1. CASE b = a  BY <1>1, <1>3, <2>1, <2>12, <3>1 DEF Sound
        <3>2. CASE b # a  BY <1>3, <2>1, <3>2 DEF NoticesInv, PassesAreWhole
        <3> QED  BY <3>1, <3>2
    <2> QED  BY <2>5, <2>6, <2>7, <2>8, <2>9, <2>10, <2>13, <2>14 DEF NoticesInv
<1> QED  BY <1>5, <1>6

\* What is remembered is never more than the cache holds
LEMMA RememberedFits ==
    ASSUME CacheTypes, NEW f \in Fact
    PROVE  Remembered(f) \in Seq(Fact) /\ Len(Remembered(f)) <= CacheSize
<1> DEFINE longer == Append(spoken, f)
<1>1. longer \in Seq(Fact) /\ Len(longer) = Len(spoken) + 1 /\ longer # <<>>
    BY AppendProperties DEF CacheTypes
<1>2. Tail(longer) \in Seq(Fact) /\ Len(Tail(longer)) = Len(longer) - 1
    BY <1>1, HeadTailProperties
<1>3. Len(longer) \in Nat /\ Len(spoken) \in Nat  BY <1>1, LenProperties DEF CacheTypes
<1>4. Remembered(f) \in {spoken, longer, Tail(longer)}  BY DEF Remembered
<1>5. Remembered(f) = longer => Len(longer) <= CacheSize \/ longer = spoken
    <2> HIDE DEF longer
    <2> SUFFICES ASSUME Remembered(f) = longer, longer # spoken, ~(Len(longer) <= CacheSize) PROVE FALSE
        OBVIOUS
    <2>1. Remembered(f) \in {spoken, Tail(longer)}  BY <1>3 DEF Remembered, longer
    <2>2. longer = Tail(longer)  BY <2>1
    <2>3. Len(longer) = Len(longer) - 1  BY <1>2, <2>2
    <2> QED  BY <1>3, <2>3
<1> HIDE DEF longer
<1> QED  BY <1>1, <1>2, <1>3, <1>4, <1>5 DEF CacheTypes

\* At the end everyone on the list of a pass without a failure has been told
LEMMA EndKeeps ==
    ASSUME NoticesInv, NEW a \in Announcer, AnnouncingEnds(a)
    PROVE  NoticesInv'
<1>1. news[a].at = "writing" /\ news[a].todo = {} /\ Sound(news[a]) /\ news[a].fact \in Fact
      /\ news[a] \in Pass
    BY PassesAreSound DEF AnnouncingEnds, Sound
<1>2. Quiet \in Pass /\ Says(a, Quiet)  BY DEF Pass, Quiet, AnnouncingEnds
<1>3. news' \in [Announcer -> Pass] /\ news'[a] = Quiet /\ \A b \in Announcer \ {a} : news'[b] = news[b]
    BY <1>2, PassStep DEF NoticesInv
<1>4. UNCHANGED <<happening, staffing, covering, staffSteps, heldRoles, notes, mailed, faultSteps, told>>
    BY DEF AnnouncingEnds, Held
<1>5. heard' \in [Fact -> SUBSET Teammate] /\ NobodyMissed'
    <2>1. CASE news[a].failed  BY <1>4, <2>1 DEF AnnouncingEnds, NoticesInv, ListTypes, NobodyMissed
    <2>2. CASE ~news[a].failed
        <3>1. heard' = [heard EXCEPT ![news[a].fact] = @ \cup news[a].whole]
            BY <2>2 DEF AnnouncingEnds
        <3>2. news[a].whole \subseteq Teammate  BY <1>1 DEF Pass
        <3>3. \A u \in news[a].whole : <<u, news[a].fact>> \in told  BY <1>1, <2>2 DEF Sound
        <3> QED  BY <1>1, <1>4, <3>1, <3>2, <3>3 DEF NoticesInv, ListTypes, NobodyMissed
    <2> QED  BY <2>1, <2>2
<1>6. ListTypes'  BY <1>3, <1>4, <1>5 DEF NoticesInv, ListTypes
<1>7. CacheTypes'  BY <1>1, <1>4, RememberedFits DEF NoticesInv, CacheTypes, AnnouncingEnds
<1>8. StaffTypes' /\ RowsAreTold' /\ OneNoteEach' /\ RolesAreHeld' /\ ToldByRight'
    BY <1>4 DEF NoticesInv, StaffTypes, RowsAreTold, OneNoteEach, RolesAreHeld, ToldByRight
<1>9. /\ \A v, g : Entitled(v, g)' = Entitled(v, g)
      /\ \A v : Employed(v)' = Employed(v)
    BY <1>4 DEF Entitled, Employed
<1>10. \A b \in Announcer : Sound(news'[b])
    BY <1>2, <1>3, PassesAreSound DEF Sound, Quiet
<1>11. PassesAreRight'  BY <1>9, <1>10 DEF PassesAreRight, Sound
<1>12. PassesAreWhole'  BY <1>4, <1>10 DEF PassesAreWhole, Sound
<1> QED  BY <1>5, <1>6, <1>7, <1>8, <1>11, <1>12 DEF NoticesInv

\* The end of the process ends every pass
LEMMA RestartKeeps == NoticesInv /\ NoticesRestart => NoticesInv'
<1> SUFFICES ASSUME NoticesInv, NoticesRestart PROVE NoticesInv'  OBVIOUS
<1>1. UNCHANGED <<happening, staffing, covering, staffSteps, heldRoles, notes, mailed, told, heard>>
      /\ spoken' = <<>> /\ news' = [a \in Announcer |-> Quiet] /\ faultSteps' \in 0 .. MaxBreaks
    BY DEF NoticesRestart, Held, NoticesInv, CacheTypes
<1>2. ListTypes'  BY <1>1 DEF NoticesInv, ListTypes, Pass, Quiet
<1>3. StaffTypes' /\ RowsAreTold' /\ OneNoteEach' /\ RolesAreHeld' /\ ToldByRight' /\ NobodyMissed'
    BY <1>1 DEF NoticesInv, StaffTypes, RowsAreTold, OneNoteEach, RolesAreHeld, ToldByRight, NobodyMissed
<1>4. CacheTypes'  BY <1>1, EmptySeq DEF NoticesInv, CacheTypes
<1>5. PassesAreRight' /\ PassesAreWhole'  BY <1>1 DEF PassesAreRight, PassesAreWhole, Quiet
<1> QED  BY <1>2, <1>3, <1>4, <1>5 DEF NoticesInv

-----------------------------------------------------------------------------
(***************************************************************************)
(* Readers and staff                                                       *)
(***************************************************************************)

\* Reading, dismissing and pruning leave rows that were there, at most one
\* for each
LEMMA ReadersKeep == NoticesInv /\ ReaderSteps => NoticesInv'
<1> SUFFICES ASSUME NoticesInv, ReaderSteps PROVE NoticesInv'  OBVIOUS
<1>1. notes' \in SUBSET Note /\ OneNoteEach'
      /\ \A n \in notes' : \E m \in notes : m.who = n.who /\ m.fact = n.fact
    <2>1. ASSUME NEW u \in Teammate, NEW which, MarksRead(u, which)
          PROVE  /\ notes' \in SUBSET Note /\ OneNoteEach'
                 /\ \A n \in notes' : \E m \in notes : m.who = n.who /\ m.fact = n.fact
        <3> DEFINE after(n) == IF n \in which /\ n.who = u THEN [n EXCEPT !.read = TRUE] ELSE n
        <3>1. notes' = {after(n) : n \in notes}  BY <2>1 DEF MarksRead, Reads
        <3>2. \A n \in notes : after(n) \in Note /\ after(n).who = n.who /\ after(n).fact = n.fact
            BY DEF NoticesInv, ListTypes, Note
        <3> HIDE DEF after
        <3> QED  BY <3>1, <3>2 DEF NoticesInv, OneNoteEach
    <2>2. ASSUME notes' \subseteq notes
          PROVE  /\ notes' \in SUBSET Note /\ OneNoteEach'
                 /\ \A n \in notes' : \E m \in notes : m.who = n.who /\ m.fact = n.fact
        BY <2>2 DEF NoticesInv, ListTypes, OneNoteEach
    <2>3. (\E u \in Teammate : \E which : MarksRead(u, which)) \/ notes' \subseteq notes
        BY DEF ReaderSteps, Dismisses, Prunes, Reads
    <2> QED  BY <2>1, <2>2, <2>3
<1>2. UNCHANGED <<happening, staffing, covering, staffSteps, heldRoles, mailed, spoken, news, faultSteps, told, heard>>
    BY DEF ReaderSteps, MarksRead, Dismisses, Prunes, Reads, Held
<1>3. RowsAreTold'  BY <1>1, <1>2 DEF NoticesInv, RowsAreTold
<1>4. ListTypes' /\ StaffTypes' /\ CacheTypes'  BY <1>1, <1>2 DEF NoticesInv, ListTypes, StaffTypes, CacheTypes
<1>5. RolesAreHeld' /\ ToldByRight' /\ NobodyMissed' /\ PassesAreRight' /\ PassesAreWhole'
    BY <1>2 DEF NoticesInv, RolesAreHeld, ToldByRight, NobodyMissed, PassesAreRight, PassesAreWhole, Entitled, Employed
<1> QED  BY <1>1, <1>3, <1>4, <1>5 DEF NoticesInv

\* A change of staff takes nobody a role they ever held
LEMMA StaffKeeps == NoticesInv /\ StaffSteps => NoticesInv'
<1> SUFFICES ASSUME NoticesInv, StaffSteps PROVE NoticesInv'  OBVIOUS
<1>1. UNCHANGED <<happening, notes, mailed, spoken, news, faultSteps, told, heard>>
    BY DEF StaffSteps, SetsRole, Covers, ListsStay
<1>2. StaffTypes' /\ RolesAreHeld' /\ staffSteps' \in 0 .. MaxStaff
      /\ \A u \in Teammate : heldRoles[u] \subseteq heldRoles'[u]
    <2>1. ASSUME NEW u \in Teammate, NEW now \in {"none", "member", "admin"}, SetsRole(u, now)
          PROVE  /\ StaffTypes' /\ RolesAreHeld' /\ staffSteps' \in 0 .. MaxStaff
                 /\ \A v \in Teammate : heldRoles[v] \subseteq heldRoles'[v]
        <3>1. /\ staffing' = [staffing EXCEPT ![u] = now] /\ covering' = covering
              /\ heldRoles' = [heldRoles EXCEPT ![u] = @ \cup {now}]
              /\ staffSteps' \in 0 .. MaxStaff
            BY <2>1 DEF SetsRole, Staffs, NoticesInv, CacheTypes
        <3> QED  BY <3>1 DEF NoticesInv, StaffTypes, RolesAreHeld, Role
    <2>2. ASSUME NEW u \in Teammate, NEW now \in {"none", "owner", "sharing", "handed_over"}, Covers(u, now)
          PROVE  /\ StaffTypes' /\ RolesAreHeld' /\ staffSteps' \in 0 .. MaxStaff
                 /\ \A v \in Teammate : heldRoles[v] \subseteq heldRoles'[v]
        <3>1. /\ covering' = [covering EXCEPT ![u] = now] /\ staffing' = staffing
              /\ heldRoles' = [heldRoles EXCEPT ![u] = @ \cup {now}]
              /\ staffSteps' \in 0 .. MaxStaff
            BY <2>2 DEF Covers, Staffs, NoticesInv, CacheTypes
        <3> QED  BY <3>1 DEF NoticesInv, StaffTypes, RolesAreHeld, Role
    <2> QED  BY <2>1, <2>2 DEF StaffSteps
<1>3. ListTypes' /\ CacheTypes' /\ RowsAreTold' /\ OneNoteEach' /\ NobodyMissed' /\ PassesAreWhole'
    BY <1>1, <1>2 DEF NoticesInv, ListTypes, CacheTypes, RowsAreTold, OneNoteEach, NobodyMissed, PassesAreWhole
<1>4. /\ \A u \in Teammate, f \in Fact \cup {"none"} : Entitled(u, f) => Entitled(u, f)'
      /\ \A u \in Teammate : Employed(u) => Employed(u)'
    BY <1>2, RightsStay DEF NoticesInv
<1>5. PassesAreRight'
    <2>1. \A a \in Announcer : news[a].fact \in Fact \cup {"none"} /\ news[a].todo \subseteq Teammate
        BY DEF NoticesInv, ListTypes, Pass
    <2> QED  BY <1>1, <1>4, <2>1 DEF NoticesInv, PassesAreRight
<1>6. ToldByRight'
    <2>1. \A q \in told : q[1] \in Teammate /\ q[2] \in Fact  BY DEF NoticesInv, ListTypes
    <2> QED  BY <1>1, <1>2, <2>1 DEF NoticesInv, ToldByRight
<1> QED  BY <1>2, <1>3, <1>5, <1>6 DEF NoticesInv

-----------------------------------------------------------------------------
(***************************************************************************)
(* The theorems                                                            *)
(***************************************************************************)

\* Each action of a pass, in turn
LEMMA AnnouncersKeep == NoticesInv /\ AnnouncerSteps => NoticesInv'
<1> SUFFICES ASSUME NoticesInv, NEW a \in Announcer,
                    \/ \E f \in Fact : AnnouncingBegins(a, f)
                    \/ ReadsAudience(a) \/ AudienceUnread(a) \/ LeavesOutTheKnowing(a)
                    \/ WriteFails(a) \/ AnnouncingEnds(a)
                    \/ \E u \in Teammate : WritesNote(a, u)
             PROVE  NoticesInv'
    BY DEF AnnouncerSteps
<1>1. CASE \E f \in Fact : AnnouncingBegins(a, f)  BY <1>1, BeginKeeps
<1>2. CASE ReadsAudience(a) \/ AudienceUnread(a)  BY <1>2, AudienceKeeps
<1>3. CASE LeavesOutTheKnowing(a)  BY <1>3, LeavingOutKeeps
<1>4. CASE WriteFails(a)  BY <1>4, FailureKeeps
<1>5. CASE AnnouncingEnds(a)  BY <1>5, EndKeeps
<1>6. CASE \E u \in Teammate : WritesNote(a, u)  BY <1>6, WriteKeeps
<1> QED  BY <1>1, <1>2, <1>3, <1>4, <1>5, <1>6

LEMMA NoticesInductive == NoticesInv /\ [NoticesNext]_noticesVars => NoticesInv'
<1>1. NoticesInv /\ UNCHANGED noticesVars => NoticesInv'
    BY DEF noticesVars, NoticesInv, ListTypes, StaffTypes, CacheTypes, RowsAreTold, OneNoteEach, RolesAreHeld,
           PassesAreRight, PassesAreWhole, ToldByRight, NobodyMissed, Entitled, Employed
<1> QED  BY <1>1, AnnouncersKeep, ReadersKeep, StaffKeeps, RestartKeeps DEF NoticesNext

\* The invariant gives the property
LEMMA NoticesInvSuffices == NoticesInv => NewsIsTold
<1> SUFFICES ASSUME NoticesInv PROVE NewsIsTold  OBVIOUS
<1>1. NoticesTypeOK
    BY DEF NoticesInv, ListTypes, StaffTypes, CacheTypes, NoticesTypeOK, Note, Pass
<1>2. MailWithNotice  BY DEF NoticesInv, ListTypes, MailWithNotice
<1> QED  BY <1>1, <1>2 DEF NoticesInv, NewsIsTold

\* Each person of the audience is told of each fact, once; of draft minutes
\* only those who may read them; and an e-mail goes with the notice of a share
\* and never without: for any number of loops and requests announcing at once,
\* of changes of staff, of dismissals and of failures (notifications.py).
THEOREM EveryoneIsToldOnce == NoticesSpec => []NewsIsTold
<1>1. NoticesInit => NoticesInv  BY NoticesBegin
<1>2. NoticesInv /\ [NoticesNext]_noticesVars => NoticesInv'  BY NoticesInductive
<1>3. NoticesInv => NewsIsTold  BY NoticesInvSuffices
<1> QED  BY <1>1, <1>2, <1>3, PTL DEF NoticesSpec
-----------------------------------------------------------------------------
(***************************************************************************)
(* Teams and recap recipients.  Who replaces the rows of a team, or the     *)
(* targets of a meeting, deletes what it saw: so long as nobody wrote in    *)
(* between, exactly the new rows are left.  An id is never given again, so  *)
(* a team that is made is meant by no earlier save.                         *)
(***************************************************************************)
\* Teams there are or were
Once == {t \in Team : teams[t].was}

\* Only teams that were ever there are meant, and those there are were made
IdsAreSpent ==
    /\ Existing \subseteq Once /\ meant \subseteq Once

\* The targets are what the last save asked for, as far as it is still there,
\* and the members what the last edit asked for, unless two requests met
RowsAreAsked ==
    /\ blended \/ targets = meant \cap Existing
    /\ \A t \in Existing \ mixed : teams[t].rows = asked[t]

TeamsInv == TeamsTypeOK /\ TargetsExist /\ IdsAreSpent /\ RowsAreAsked

\* Before anything is edited there are no teams
LEMMA TeamsBegin == TeamsInit => TeamsInv
<1> SUFFICES ASSUME TeamsInit PROVE TeamsInv  OBVIOUS
<1>1. TeamsTypeOK
    <2>1. NoTeam \in TeamRow /\ NoWrite \in Write /\ NoRecap \in Recap
        BY DEF NoTeam, TeamRow, NoWrite, Write, NoRecap, Recap
    <2>2. teams \in [Team -> TeamRow] /\ writing \in [Desk -> Write] /\ recap \in Recap
        BY <2>1 DEF TeamsInit
    <2>3. staff \subseteq Account /\ targets \subseteq Team /\ meant \subseteq Team /\ mixed \subseteq Team
        BY DEF TeamsInit
    <2>4. asked \in [Team -> SUBSET Address] /\ blended \in BOOLEAN  BY DEF TeamsInit
    <2>5. writeSteps \in 0..MaxWrites /\ leaveSteps \in 0..MaxLeavers  BY TeamsAssumption DEF TeamsInit, TeamsAssumption
    <2> QED  BY <2>2, <2>3, <2>4, <2>5 DEF TeamsTypeOK
<1>2. Existing = {} /\ targets = {} /\ meant = {}  BY DEF TeamsInit, Existing, NoTeam
<1> QED  BY <1>1, <1>2 DEF TeamsInv, TargetsExist, IdsAreSpent, RowsAreAsked

\* What a request does to its own copy leaves the others' as they are
LEMMA WriteStep ==
    ASSUME TeamsTypeOK, NEW d \in Desk, NEW w \in Write, writing' = [writing EXCEPT ![d] = w]
    PROVE  writing' \in [Desk -> Write]
BY DEF TeamsTypeOK

\* The counters of the bounds stay in their range
LEMMA WritesCounted ==
    ASSUME TeamsTypeOK, writeSteps < MaxWrites, writeSteps' = writeSteps + 1
    PROVE  writeSteps' \in 0..MaxWrites
BY TeamsAssumption DEF TeamsTypeOK, TeamsAssumption

LEMMA LeaversCounted ==
    ASSUME TeamsTypeOK, leaveSteps < MaxLeavers, leaveSteps' = leaveSteps + 1
    PROVE  leaveSteps' \in 0..MaxLeavers
BY TeamsAssumption DEF TeamsTypeOK, TeamsAssumption

\* Steps that change neither teams, targets nor what was asked for
LEMMA TeamsStay ==
    ASSUME TeamsInv, TeamsTypeOK', UNCHANGED <<teams, targets, wishes>>
    PROVE  TeamsInv'
BY DEF TeamsInv, TargetsExist, IdsAreSpent, RowsAreAsked, Existing, Once, wishes

-----------------------------------------------------------------------------
LEMMA CreateKeeps ==
    ASSUME TeamsInv, NEW t \in Team, NEW rows \in SUBSET Address, CreateTeam(t, rows)
    PROVE  TeamsInv'
<1> DEFINE made == [was |-> TRUE, on |-> TRUE, rows |-> rows]
<1> USE DEF CreateTeam
<1>1. made \in TeamRow  BY DEF TeamRow
<1>2. teams' = [teams EXCEPT ![t] = made] /\ teams \in [Team -> TeamRow]  BY DEF TeamsInv, TeamsTypeOK
<1> HIDE DEF made
<1>3. teams'[t] = made /\ \A g \in Team \ {t} : teams'[g] = teams[g]  BY <1>2
<1>4. made.was /\ made.on /\ made.rows = rows  BY DEF made
<1>5. asked' \in [Team -> SUBSET Address] /\ asked'[t] = rows /\ \A g \in Team \ {t} : asked'[g] = asked[g]
    BY DEF TeamsInv, TeamsTypeOK
<1>6. writeSteps' \in 0..MaxWrites  BY WritesCounted DEF TeamsInv
<1>7. TeamsTypeOK'
    <2>1. teams' \in [Team -> TeamRow]  BY <1>1, <1>2
    <2> QED  BY <2>1, <1>5, <1>6 DEF TeamsInv, TeamsTypeOK
<1>8. t \notin Once /\ Existing' = Existing \cup {t} /\ Once' = Once \cup {t}
    BY <1>3, <1>4 DEF Existing, Once
<1>9. TargetsExist' /\ IdsAreSpent'  BY <1>8 DEF TeamsInv, TargetsExist, IdsAreSpent
<1>10. meant \cap Existing' = meant \cap Existing  BY <1>8 DEF TeamsInv, IdsAreSpent
<1>11. RowsAreAsked'
    <2>1. \A g \in Existing' \ mixed' : teams'[g].rows = asked'[g]
        <3> SUFFICES ASSUME NEW g \in Existing' \ mixed' PROVE teams'[g].rows = asked'[g]  OBVIOUS
        <3>1. CASE g = t  BY <3>1, <1>3, <1>4, <1>5
        <3>2. CASE g # t
            <4>1. g \in Existing \ mixed /\ g \in Team  BY <3>2, <1>8 DEF Existing
            <4> QED  BY <3>2, <4>1, <1>3, <1>5 DEF TeamsInv, RowsAreAsked
        <3> QED  BY <3>1, <3>2
    <2> QED  BY <2>1, <1>10 DEF TeamsInv, RowsAreAsked
<1> QED  BY <1>7, <1>9, <1>11 DEF TeamsInv

LEMMA EditBeginKeeps ==
    ASSUME TeamsInv, NEW d \in Desk, NEW t \in Team, NEW rows \in SUBSET Address, EditBegins(d, t, rows)
    PROVE  TeamsInv'
<1> DEFINE w == [NoWrite EXCEPT !.on = t, !.rows = rows, !.gone = teams[t].rows]
<1>1. w \in Write  BY DEF Write, NoWrite, TeamsInv, TeamsTypeOK, TeamRow
<1> HIDE DEF w
<1>2. writing' = [writing EXCEPT ![d] = w]  BY DEF EditBegins, Writes, w
<1>3. writing' \in [Desk -> Write]  BY <1>1, <1>2, WriteStep DEF TeamsInv
<1>4. writeSteps' \in 0..MaxWrites  BY WritesCounted DEF TeamsInv, EditBegins, Writes
<1>5. TeamsTypeOK'  BY <1>3, <1>4 DEF TeamsInv, TeamsTypeOK, EditBegins, wishes
<1> QED  BY <1>5, TeamsStay DEF EditBegins

\* A request that gives up, or is through, has nothing more to write
LEMMA NoWriteIsWrite == NoWrite \in Write
BY DEF NoWrite, Write

LEMMA EditEndKeeps ==
    ASSUME TeamsInv, NEW d \in Desk, NEW t \in Team, EditEnds(d, t)
    PROVE  TeamsInv'
<1> USE DEF EditEnds
<1> DEFINE rows == RowsAfter(d, t)
<1>1. writing[d] \in Write /\ teams[t] \in TeamRow  BY DEF TeamsInv, TeamsTypeOK
<1>2. rows \in SUBSET Address /\ writing[d].rows \in SUBSET Address  BY <1>1 DEF RowsAfter, Write, TeamRow
<1>3. teams' = [teams EXCEPT ![t].rows = rows] /\ teams \in [Team -> TeamRow]  BY DEF TeamsInv, TeamsTypeOK
<1>4. teams[t].rows \subseteq writing[d].gone => rows = writing[d].rows  BY DEF RowsAfter
<1> HIDE DEF rows
<1>5. teams' \in [Team -> TeamRow]  BY <1>2, <1>3 DEF TeamRow
<1>6. /\ teams'[t].rows = rows /\ teams'[t].on = teams[t].on /\ teams'[t].was = teams[t].was
      /\ \A g \in Team \ {t} : teams'[g] = teams[g]
    <2>1. teams'[t] = [teams[t] EXCEPT !.rows = rows] /\ \A g \in Team \ {t} : teams'[g] = teams[g]  BY <1>3
    <2>2. teams'[t].rows = rows  BY <1>1, <2>1 DEF TeamRow
    <2>3. teams'[t].on = teams[t].on  BY <1>1, <2>1 DEF TeamRow
    <2>4. teams'[t].was = teams[t].was  BY <1>1, <2>1 DEF TeamRow
    <2> QED  BY <2>1, <2>2, <2>3, <2>4
<1>7. asked' \in [Team -> SUBSET Address] /\ asked'[t] = writing[d].rows /\ \A g \in Team \ {t} : asked'[g] = asked[g]
    BY <1>2 DEF TeamsInv, TeamsTypeOK
<1>8. writing' \in [Desk -> Write]  BY NoWriteIsWrite, WriteStep DEF TeamsInv
<1>9. TeamsTypeOK'  BY <1>5, <1>7, <1>8 DEF TeamsInv, TeamsTypeOK
<1>10. Existing' = Existing /\ Once' = Once  BY <1>6 DEF Existing, Once
<1>11. TargetsExist' /\ IdsAreSpent'  BY <1>10 DEF TeamsInv, TargetsExist, IdsAreSpent
<1>12. \A g \in Existing' \ mixed' : teams'[g].rows = asked'[g]
    <2> SUFFICES ASSUME NEW g \in Existing' \ mixed' PROVE teams'[g].rows = asked'[g]  OBVIOUS
    <2>1. CASE g = t  BY <2>1, <1>4, <1>6, <1>7
    <2>2. CASE g # t
        <3>1. g \in Existing \ mixed /\ g \in Team  BY <2>2, <1>10 DEF Existing
        <3> QED  BY <2>2, <3>1, <1>6, <1>7 DEF TeamsInv, RowsAreAsked
    <2> QED  BY <2>1, <2>2
<1>13. RowsAreAsked'  BY <1>10, <1>12 DEF TeamsInv, RowsAreAsked
<1> QED  BY <1>9, <1>11, <1>13 DEF TeamsInv

LEMMA DeleteKeeps ==
    ASSUME TeamsInv, NEW t \in Team, DeleteTeam(t)
    PROVE  TeamsInv'
<1> DEFINE none == [NoTeam EXCEPT !.was = TRUE]
<1> USE DEF DeleteTeam, TargetsWithout, wishes
<1>1. none \in TeamRow /\ none.was /\ ~none.on  BY DEF TeamRow, NoTeam
<1>2. teams' = [teams EXCEPT ![t] = none] /\ teams \in [Team -> TeamRow]  BY DEF TeamsInv, TeamsTypeOK
<1> HIDE DEF none
<1>3. teams' \in [Team -> TeamRow] /\ teams'[t] = none /\ \A g \in Team \ {t} : teams'[g] = teams[g]  BY <1>1, <1>2
<1>4. writeSteps' \in 0..MaxWrites  BY WritesCounted DEF TeamsInv
<1>5. TeamsTypeOK'  BY <1>3, <1>4 DEF TeamsInv, TeamsTypeOK
<1>6. Existing' = Existing \ {t} /\ Once' = Once \cup {t}  BY <1>1, <1>3 DEF Existing, Once
<1>7. TargetsExist' /\ IdsAreSpent'  BY <1>6 DEF TeamsInv, TargetsExist, IdsAreSpent
<1>8. RowsAreAsked'
    <2>1. blended' \/ targets' = meant' \cap Existing'  BY <1>6 DEF TeamsInv, RowsAreAsked
    <2>2. \A g \in Existing' \ mixed' : teams'[g].rows = asked'[g]
        BY <1>3, <1>6 DEF TeamsInv, RowsAreAsked, Existing
    <2> QED  BY <2>1, <2>2 DEF RowsAreAsked
<1> QED  BY <1>5, <1>7, <1>8 DEF TeamsInv

-----------------------------------------------------------------------------
LEMMA SaveBeginKeeps ==
    ASSUME TeamsInv, NEW d \in Desk, NEW groups \in SUBSET Team, SaveBegins(d, groups)
    PROVE  TeamsInv'
<1> DEFINE w == [NoWrite EXCEPT !.on = "settings", !.groups = groups, !.gone = targets]
<1>1. w \in Write  BY DEF Write, NoWrite, TeamsInv, TeamsTypeOK
<1> HIDE DEF w
<1>2. writing' = [writing EXCEPT ![d] = w]  BY DEF SaveBegins, Writes, w
<1>3. writing' \in [Desk -> Write]  BY <1>1, <1>2, WriteStep DEF TeamsInv
<1>4. writeSteps' \in 0..MaxWrites  BY WritesCounted DEF TeamsInv, SaveBegins, Writes
<1>5. TeamsTypeOK'  BY <1>3, <1>4 DEF TeamsInv, TeamsTypeOK, SaveBegins, wishes
<1> QED  BY <1>5, TeamsStay DEF SaveBegins

LEMMA SaveEndKeeps ==
    ASSUME TeamsInv, NEW d \in Desk, SaveEnds(d)
    PROVE  TeamsInv'
<1> USE DEF SaveEnds
<1>1. writing[d].groups \subseteq Existing  BY DEF SaveCollides
<1>2. Existing' = Existing /\ Once' = Once /\ Existing \subseteq Team  BY DEF Existing, Once
<1>3. writing' \in [Desk -> Write]  BY NoWriteIsWrite, WriteStep DEF TeamsInv
<1>4. targets' \subseteq Existing  BY <1>1 DEF TeamsInv, TargetsExist
<1>5. TeamsTypeOK'  BY <1>1, <1>2, <1>3, <1>4 DEF TeamsInv, TeamsTypeOK
<1>6. TargetsExist' /\ IdsAreSpent'  BY <1>1, <1>2, <1>4 DEF TeamsInv, TargetsExist, IdsAreSpent
<1>7. RowsAreAsked'
    <2>1. blended' \/ targets' = meant' \cap Existing'  BY <1>1, <1>2
    <2>2. \A g \in Existing' \ mixed' : teams'[g].rows = asked'[g]  BY <1>2 DEF TeamsInv, RowsAreAsked
    <2> QED  BY <2>1, <2>2 DEF RowsAreAsked
<1> QED  BY <1>5, <1>6, <1>7 DEF TeamsInv

\* A request that fails changes nothing
LEMMA GivingUpKeeps ==
    ASSUME TeamsInv, NEW d \in Desk, writing' = [writing EXCEPT ![d] = NoWrite],
           UNCHANGED <<staff, teams, targets, recap, wishes, writeSteps, leaveSteps>>
    PROVE  TeamsInv'
<1>1. writing' \in [Desk -> Write]  BY NoWriteIsWrite, WriteStep DEF TeamsInv
<1>2. TeamsTypeOK'  BY <1>1 DEF TeamsInv, TeamsTypeOK, wishes
<1> QED  BY <1>2, TeamsStay

\* Nor does a send
LEMMA RecapKeeps ==
    ASSUME TeamsInv, SendReads \/ SendExpands \/ SendEnds
    PROVE  TeamsInv'
<1>1. recap' \in Recap
    <2>1. CASE SendReads  BY <2>1 DEF SendReads, Recap, TeamsInv, TeamsTypeOK
    <2>2. CASE SendExpands
        <3>1. \A t \in Team : ActiveMembers(t) \subseteq Address
            BY DEF ActiveMembers, TeamsInv, TeamsTypeOK, TeamRow
        <3>2. recap \in Recap /\ recap.read \subseteq Team  BY DEF TeamsInv, TeamsTypeOK, Recap
        <3>3. UNION {ActiveMembers(t) : t \in recap.read} \in SUBSET Address  BY <3>1, <3>2
        <3> HIDE DEF ActiveMembers
        <3>4. recap' = [recap EXCEPT !.st = "ready", !.to = UNION {ActiveMembers(t) : t \in recap.read}]
            BY <2>2 DEF SendExpands
        <3> QED  BY <3>2, <3>3, <3>4 DEF Recap
    <2>3. CASE SendEnds  BY <2>3 DEF SendEnds, Recap, NoRecap
    <2> QED  BY <2>1, <2>2, <2>3
<1>2. UNCHANGED rest  BY DEF SendReads, SendExpands, SendEnds
<1>3. TeamsTypeOK'  BY <1>1, <1>2 DEF TeamsInv, TeamsTypeOK, rest, wishes
<1> QED  BY <1>2, <1>3, TeamsStay DEF rest

\* Who leaves or comes back leaves the rows alone
LEMMA MovesKeep ==
    ASSUME TeamsInv, NEW u \in Account, Leave(u) \/ ComeBack(u)
    PROVE  TeamsInv'
<1>1. staff' \subseteq Account  BY DEF TeamsInv, TeamsTypeOK, Leave, ComeBack
<1>2. leaveSteps' \in 0..MaxLeavers  BY LeaversCounted DEF TeamsInv, Leave, ComeBack
<1>3. UNCHANGED <<teams, targets, writing, recap, wishes, writeSteps>>  BY DEF Leave, ComeBack
<1>4. TeamsTypeOK'  BY <1>1, <1>2, <1>3 DEF TeamsInv, TeamsTypeOK, wishes
<1> QED  BY <1>3, <1>4, TeamsStay

LEMMA TeamsInductive == TeamsInv /\ [TeamsNext]_teamVars => TeamsInv'
<1> SUFFICES ASSUME TeamsInv, [TeamsNext]_teamVars PROVE TeamsInv'  OBVIOUS
<1>1. CASE TeamSteps
    <2>1. PICK t \in Team : \/ DeleteTeam(t)
                            \/ \E rows \in SUBSET Address : CreateTeam(t, rows) \/ \E d \in Desk : EditBegins(d, t, rows)
                            \/ \E d \in Desk : EditEnds(d, t) \/ EditFails(d, t)
        BY <1>1 DEF TeamSteps
    <2>2. CASE DeleteTeam(t)  BY <2>2, DeleteKeeps
    <2>3. ASSUME NEW rows \in SUBSET Address, CreateTeam(t, rows) PROVE TeamsInv'  BY <2>3, CreateKeeps
    <2>4. ASSUME NEW rows \in SUBSET Address, NEW d \in Desk, EditBegins(d, t, rows) PROVE TeamsInv'  BY <2>4, EditBeginKeeps
    <2>5. ASSUME NEW d \in Desk, EditEnds(d, t) PROVE TeamsInv'  BY <2>5, EditEndKeeps
    <2>6. ASSUME NEW d \in Desk, EditFails(d, t) PROVE TeamsInv'  BY <2>6, GivingUpKeeps DEF EditFails
    <2> QED  BY <2>1, <2>2, <2>3, <2>4, <2>5, <2>6
<1>2. CASE SaveSteps
    <2>1. ASSUME NEW d \in Desk, SaveEnds(d) PROVE TeamsInv'  BY <2>1, SaveEndKeeps
    <2>2. ASSUME NEW d \in Desk, SaveFails(d) PROVE TeamsInv'  BY <2>2, GivingUpKeeps DEF SaveFails
    <2>3. ASSUME NEW d \in Desk, NEW groups \in SUBSET Team, SaveBegins(d, groups) PROVE TeamsInv'  BY <2>3, SaveBeginKeeps
    <2> QED  BY <1>2, <2>1, <2>2, <2>3 DEF SaveSteps
<1>3. CASE SendReads \/ SendExpands \/ SendEnds  BY <1>3, RecapKeeps
<1>4. ASSUME NEW u \in Account, Leave(u) \/ ComeBack(u) PROVE TeamsInv'  BY <1>4, MovesKeep
<1>5. CASE UNCHANGED teamVars
    <2>1. TeamsTypeOK'  BY <1>5 DEF TeamsInv, TeamsTypeOK, teamVars
    <2> QED  BY <1>5, <2>1, TeamsStay DEF teamVars, wishes
<1> QED  BY <1>1, <1>2, <1>3, <1>4, <1>5 DEF TeamsNext

-----------------------------------------------------------------------------
\* Whom a recap is expanded to
LEMMA RecapIsRight ==
    ASSUME TeamsInv, [TeamsNext]_teamVars, recap.st = "read", recap'.st = "ready",
           ~blended, recap.read = targets, mixed \cap recap.read = {}
    PROVE  recap'.to = {a \in UNION {asked[t] : t \in meant \cap Existing} : a \in Outside \cup staff}
<1>1. SendExpands
    <2>1. recap' # recap  OBVIOUS
    <2>2. CASE SendReads  BY <2>2 DEF SendReads
    <2>3. CASE SendEnds  BY <2>3 DEF SendEnds, NoRecap
    <2>4. CASE TeamSteps  BY <2>1, <2>4 DEF TeamSteps, DeleteTeam, CreateTeam, EditBegins, EditEnds, EditFails
    <2>5. CASE SaveSteps  BY <2>1, <2>5 DEF SaveSteps, SaveBegins, SaveEnds, SaveFails
    <2>6. CASE \E u \in Account : Leave(u) \/ ComeBack(u)  BY <2>1, <2>6 DEF Leave, ComeBack
    <2> QED  BY <2>1, <2>2, <2>3, <2>4, <2>5, <2>6 DEF TeamsNext, teamVars
<1>2. recap'.to = UNION {ActiveMembers(t) : t \in recap.read}  BY <1>1 DEF SendExpands, TeamsInv, TeamsTypeOK, Recap
<1>3. recap.read = meant \cap Existing  BY DEF TeamsInv, RowsAreAsked
<1>4. \A t \in recap.read : teams[t].rows = asked[t]  BY <1>3 DEF TeamsInv, RowsAreAsked
<1>5. \A t \in recap.read : ActiveMembers(t) = asked[t] \cap (Outside \cup staff)  BY <1>4 DEF ActiveMembers
<1> QED  BY <1>2, <1>3, <1>5

\* No meeting targets a deleted team, and a recap goes to exactly those the last
\* edits of its teams and settings ask for, for any number of people who edit at
\* once, of teams, addresses and changes of staff (recipient_groups.py, and the
\* delivery settings of sqlalchemy_repository.py).
THEOREM RecapsFollowTheirTeams == TeamsSpec => TeamsAreFollowed
<1>1. TeamsInit => TeamsInv  BY TeamsBegin
<1>2. TeamsInv /\ [TeamsNext]_teamVars => TeamsInv'  BY TeamsInductive
<1>3. TeamsInv => TeamsTypeOK /\ TargetsExist  BY DEF TeamsInv
<1>4. TeamsInv /\ [TeamsNext]_teamVars =>
        [(recap.st = "read" /\ recap'.st = "ready") =>
           blended \/ recap.read # targets \/ mixed \cap recap.read # {}
           \/ recap'.to = {a \in UNION {asked[t] : t \in meant \cap Existing} : a \in Outside \cup staff}]_teamVars
    BY RecapIsRight
<1> QED  BY <1>1, <1>2, <1>3, <1>4, PTL DEF TeamsSpec, TeamsAreFollowed, RecapFollowsItsTeams
-----------------------------------------------------------------------------
(***************************************************************************)
(* The sharing of a knowledge base.  A share() decides from what it read    *)
(* when it took its lock.  For whoever's membership has not changed since   *)
(* the base was made, what it read is still true when it commits, so its    *)
(* notices say what its rows do; the same holds of a deletion, as long as   *)
(* no share() commits under it.                                             *)
(***************************************************************************)
\* Members whose access is up to the sharing: they make no base and are no admins,
\* and their membership is the one they had when the base was made
Steady == {u \in Reader \ shifted : role[u] = "member" /\ kb.maker # u}

\* Who is let in by a visibility and a list of names
Opens(vis, names, u) == vis = "organization" \/ u \in names

\* Nothing is told, shared or deleted of a base that is not there yet
BeforeTheBase ==
    ~kb.was => /\ learned = [u \in Reader |-> "nothing"] /\ letters = {} /\ flying = {}
               /\ granted = {} /\ shifted = {} /\ kb.vis = "private" /\ ~overtaken

\* Both decisions are about a base that is there
DecisionsHaveABase == (kb.on => kb.was) /\ (sharing.on => kb.on) /\ (ending.on => kb.on)

\* What share() read is still true of everybody whose membership did not change
SharingIsFresh ==
    /\ kb.vis # "specific" => granted = {}
    /\ sharing.on =>
         /\ sharing.vis # "specific" => sharing.names = {}
         /\ sharing.names \subseteq Staff \cup slipped
         /\ \A u \in Reader \ shifted :
              /\ u \in sharing.staff <=> role[u] # "none"
              /\ u \in sharing.above <=> role[u] = "admin" \/ kb.maker = u
              /\ u \in sharing.old <=> kb.vis = "specific" /\ u \in granted

\* So is what a deletion read; mails it cancelled may come back, no other was written since
EndingIsFresh ==
    ending.on /\ ~overtaken =>
        /\ \A u \in Steady : u \in ending.tell <=> Opens(kb.vis, granted, u)
        /\ \A l \in letters : l.to \in Steady => l.again
        /\ \A l \in ending.held : l.to \in Steady /\ ~l.again => l.says = learned[l.to]

\* The newest notice, and every waiting mail, tells a steady member the truth
SteadyAreTold ==
    ~overtaken =>
        /\ \A u \in Steady : kb.on /\ Opens(kb.vis, granted, u) <=> learned[u] = "access"
        /\ \A l \in letters : l.to \in Steady /\ ~l.again => l.says = learned[l.to]

\* A question keeps the role of a member, and is counted
QuestionsAreCounted ==
    \A u \in Reader :
        /\ answers[u] <= askSteps
        /\ questions[u].st # "none" => answers[u] < askSteps /\ questions[u].as # "none"

SharingInv ==
    /\ SharingTypeOK /\ BeforeTheBase /\ DecisionsHaveABase
    /\ SharingIsFresh /\ EndingIsFresh /\ SteadyAreTold
    /\ QuestionsAreCounted /\ AccessEndsWithMembership /\ TalksEndWithTheBase

\* Before the base is made nobody was told anything
LEMMA SharingBegun == SharingInit => SharingInv
<1> SUFFICES ASSUME SharingInit PROVE SharingInv  OBVIOUS
<1>1. SharingTypeOK
    <2>1. kb \in BaseRow  BY DEF SharingInit, BaseRow, Visibility
    <2>2. role \in [Reader -> {"none", "member", "admin"}]  BY DEF SharingInit
    <2>3. /\ granted \subseteq Reader /\ learned \in [Reader -> {"nothing", "access", "removed", "deleted"}]
          /\ letters \subseteq Letter /\ flying \subseteq Letter /\ shifted \subseteq Reader /\ slipped \subseteq Reader
        BY DEF SharingInit
    <2>4. sharing \in [on : BOOLEAN, vis : Visibility, names : SUBSET Reader, staff : SUBSET Reader,
                       old : SUBSET Reader, above : SUBSET Reader]
        BY DEF SharingInit, NoSharing, Visibility
    <2>5. ending \in [on : BOOLEAN, tell : SUBSET Reader, held : SUBSET Letter, late : BOOLEAN]
        BY DEF SharingInit, NoEnding
    <2>6. questions \in [Reader -> Question]
        <3>1. NoChat \in Question  BY DEF NoChat, Question
        <3> QED  BY <3>1 DEF SharingInit
    <2>7. answers \in [Reader -> 0..MaxAsked]
        <3>1. 0 \in 0..MaxAsked  BY SharingAssumption DEF SharingAssumption
        <3> QED  BY <3>1 DEF SharingInit
    <2>8. /\ shareSteps \in 0..MaxShares /\ moveSteps \in 0..MaxMoves /\ askSteps \in 0..MaxAsked
          /\ unsureMails \in 0..MaxUnsure
        BY DEF SharingInit
    <2>9. overtaken \in BOOLEAN  BY DEF SharingInit
    <2> QED  BY <2>1, <2>2, <2>3, <2>4, <2>5, <2>6, <2>7, <2>8, <2>9 DEF SharingTypeOK
<1>2. /\ ~kb.was /\ ~kb.on /\ kb.vis = "private" /\ ~sharing.on /\ ~ending.on /\ ~overtaken
      /\ granted = {} /\ letters = {} /\ flying = {} /\ shifted = {}
      /\ learned = [u \in Reader |-> "nothing"]
    BY DEF SharingInit, NoSharing, NoEnding
<1>3. BeforeTheBase /\ DecisionsHaveABase /\ AccessEndsWithMembership
    BY <1>2 DEF BeforeTheBase, DecisionsHaveABase, AccessEndsWithMembership
<1>4. SharingIsFresh /\ EndingIsFresh  BY <1>2 DEF SharingIsFresh, EndingIsFresh
<1>5. SteadyAreTold  BY <1>2 DEF SteadyAreTold, Steady
<1>6. QuestionsAreCounted /\ TalksEndWithTheBase
    <2>1. askSteps >= 0  BY SharingAssumption DEF SharingInit, SharingAssumption
    <2>2. \A u \in Reader : answers[u] = 0 /\ questions[u].st = "none"  BY DEF SharingInit, NoChat
    <2> QED  BY <2>1, <2>2 DEF QuestionsAreCounted, TalksEndWithTheBase
<1> QED  BY <1>1, <1>3, <1>4, <1>5, <1>6 DEF SharingInv

-----------------------------------------------------------------------------
\* Whoever is steady stays so until their membership changes
LEMMA SteadyStay ==
    ASSUME UNCHANGED <<role, shifted>>, kb'.maker = kb.maker
    PROVE  Steady' = Steady /\ Staff' = Staff
BY DEF Steady, Staff

LEMMA MakeKeeps ==
    ASSUME SharingInv, MakeWiki
    PROVE  SharingInv'
<1> DEFINE row == [kb EXCEPT !.was = TRUE, !.on = TRUE]
<1>1. kb \in BaseRow /\ ~kb.was /\ kb' = row  BY DEF MakeWiki, SharingInv, SharingTypeOK
<1>2. row \in BaseRow /\ row.was /\ row.on /\ row.vis = kb.vis /\ row.maker = kb.maker  BY <1>1 DEF BaseRow
<1> HIDE DEF row
<1>3. /\ learned = [u \in Reader |-> "nothing"] /\ letters = {} /\ granted = {} /\ shifted = {}
      /\ kb.vis = "private" /\ ~kb.on /\ ~sharing.on /\ ~ending.on
    BY <1>1 DEF SharingInv, BeforeTheBase, DecisionsHaveABase
<1>4. /\ shifted' = shifted /\ UNCHANGED <<role, slipped, moveSteps, granted, learned, letters, flying, unsureMails,
                                           sharing, ending, overtaken, shareSteps, answers, questions, askSteps>>
    BY <1>3 DEF MakeWiki, mailing, talk
<1>5. SharingTypeOK'  BY <1>1, <1>2, <1>4 DEF SharingInv, SharingTypeOK
<1>6. Staff' = Staff  BY <1>4 DEF Staff
<1>7. BeforeTheBase' /\ DecisionsHaveABase'  BY <1>1, <1>2, <1>3, <1>4 DEF BeforeTheBase, DecisionsHaveABase
<1>8. SharingIsFresh' /\ EndingIsFresh'  BY <1>3, <1>4 DEF SharingIsFresh, EndingIsFresh
<1>9. SteadyAreTold'
    <2>1. \A u \in Reader : ~Opens(kb'.vis, granted', u) /\ learned'[u] # "access"
        BY <1>1, <1>2, <1>3, <1>4 DEF Opens
    <2> QED  BY <2>1, <1>3, <1>4 DEF SteadyAreTold, Steady
<1>10. QuestionsAreCounted' /\ TalksEndWithTheBase'
    BY <1>1, <1>2, <1>4 DEF SharingInv, QuestionsAreCounted, TalksEndWithTheBase
<1>11. AccessEndsWithMembership'  BY <1>4, <1>6 DEF SharingInv, AccessEndsWithMembership
<1> QED  BY <1>5, <1>7, <1>8, <1>9, <1>10, <1>11 DEF SharingInv

LEMMA ShareBeginKeeps ==
    ASSUME SharingInv, NEW vis \in Visibility, NEW names \in SUBSET Reader, SharingBegins(vis, names)
    PROVE  SharingInv'
<1> DEFINE s == [on |-> TRUE, vis |-> vis, names |-> names, staff |-> Staff, old |-> OldNames,
                 above |-> {u \in Reader : role[u] = "admin" \/ kb.maker = u}]
<1>1. /\ sharing' = s /\ kb.on /\ (vis # "specific" => names = {}) /\ names \subseteq Staff
      /\ shareSteps < MaxShares /\ shareSteps' = shareSteps + 1
      /\ UNCHANGED <<role, shifted, slipped, moveSteps, kb, granted, learned, letters, flying, unsureMails,
                     ending, overtaken, answers, questions, askSteps>>
    BY DEF SharingBegins, people, mailing, talk
<1>2. s \in [on : BOOLEAN, vis : Visibility, names : SUBSET Reader, staff : SUBSET Reader,
             old : SUBSET Reader, above : SUBSET Reader]
    <2>1. OldNames \subseteq Reader  BY DEF OldNames, SharingInv, SharingTypeOK
    <2>2. Staff \subseteq Reader  BY DEF Staff
    <2> QED  BY <2>1, <2>2
<1>3. /\ s.on /\ s.vis = vis /\ s.names = names /\ s.staff = Staff /\ s.old = OldNames
      /\ s.above = {u \in Reader : role[u] = "admin" \/ kb.maker = u}
    OBVIOUS
<1> HIDE DEF s
<1>4. shareSteps' \in 0..MaxShares
    <2>1. shareSteps \in 0..MaxShares  BY DEF SharingInv, SharingTypeOK
    <2> QED  BY <1>1, <2>1, SharingAssumption DEF SharingAssumption
<1>5. SharingTypeOK'  BY <1>1, <1>2, <1>4 DEF SharingInv, SharingTypeOK
<1>6. Steady' = Steady /\ Staff' = Staff  BY <1>1, SteadyStay
<1>7. BeforeTheBase' /\ DecisionsHaveABase'  BY <1>1 DEF SharingInv, BeforeTheBase, DecisionsHaveABase
<1>8. SharingIsFresh'
    <2>1. sharing'.vis # "specific" => sharing'.names = {}  BY <1>1, <1>3
    <2>2. sharing'.names \subseteq Staff' \cup slipped'  BY <1>1, <1>3, <1>6
    <2>3. ASSUME NEW u \in Reader
          PROVE  /\ u \in sharing'.staff <=> role'[u] # "none"
                 /\ u \in sharing'.above <=> role'[u] = "admin" \/ kb'.maker = u
                 /\ u \in sharing'.old <=> kb'.vis = "specific" /\ u \in granted'
        <3>1. u \in sharing'.staff <=> role'[u] # "none"  BY <1>1, <1>3 DEF Staff
        <3>2. u \in sharing'.above <=> role'[u] = "admin" \/ kb'.maker = u  BY <1>1, <1>3
        <3>3. u \in sharing'.old <=> kb'.vis = "specific" /\ u \in granted'  BY <1>1, <1>3 DEF OldNames
        <3> QED  BY <3>1, <3>2, <3>3
    <2>4. kb'.vis # "specific" => granted' = {}  BY <1>1 DEF SharingInv, SharingIsFresh
    <2> QED  BY <2>1, <2>2, <2>3, <2>4 DEF SharingIsFresh
<1>9. EndingIsFresh'  BY <1>1, <1>6 DEF SharingInv, EndingIsFresh
<1>10. SteadyAreTold'  BY <1>1, <1>6 DEF SharingInv, SteadyAreTold
<1>11. QuestionsAreCounted' /\ TalksEndWithTheBase'  BY <1>1 DEF SharingInv, QuestionsAreCounted, TalksEndWithTheBase
<1>12. AccessEndsWithMembership'  BY <1>1, <1>6 DEF SharingInv, AccessEndsWithMembership
<1> QED  BY <1>5, <1>7, <1>8, <1>9, <1>10, <1>11, <1>12 DEF SharingInv

-----------------------------------------------------------------------------
\* Whom a share() takes for a reader, before and after, is one
LEMMA ShareSeesReaders ==
    ASSUME SharingInv, sharing.on, NEW u \in Steady
    PROVE  /\ u \in Reader /\ u \in Staff /\ u \notin sharing.above
           /\ u \in Before(sharing) <=> Opens(kb.vis, granted, u)
           /\ u \in After(sharing) <=> Opens(sharing.vis, sharing.names, u)
<1>1. u \in Reader \ shifted /\ role[u] = "member" /\ kb.maker # u  BY DEF Steady
<1>2. u \in sharing.staff /\ u \notin sharing.above /\ (u \in sharing.old <=> kb.vis = "specific" /\ u \in granted)
    BY <1>1 DEF SharingInv, SharingIsFresh
<1>3. kb.vis # "specific" => granted = {}  BY DEF SharingInv, SharingIsFresh
<1>4. u \in Before(sharing) <=> Opens(kb.vis, granted, u)  BY <1>2, <1>3 DEF Before, Opens
<1>5. u \in After(sharing) <=> Opens(sharing.vis, sharing.names, u)  BY <1>2 DEF After, Opens
<1> QED  BY <1>1, <1>2, <1>4, <1>5 DEF Staff

\* A share() tells of access whoever has it afterwards, and of its loss whoever had it before
LEMMA ShareTellsTheTruth ==
    ASSUME SharingInv, sharing.on, NEW u \in Steady
    PROVE  /\ u \in ToldOfAccess(sharing) <=> Opens(sharing.vis, sharing.names, u)
           /\ u \in ToldOfLoss(sharing) <=> Opens(kb.vis, granted, u) /\ ~Opens(sharing.vis, sharing.names, u)
<1>1. /\ u \notin sharing.above
      /\ u \in Before(sharing) <=> Opens(kb.vis, granted, u)
      /\ u \in After(sharing) <=> Opens(sharing.vis, sharing.names, u)
    BY ShareSeesReaders
<1>2. CASE sharing.vis = "organization"
    <2>1. u \in sharing.staff  BY DEF Steady, SharingInv, SharingIsFresh
    <2> QED  BY <1>2, <2>1 DEF ToldOfAccess, ToldOfLoss, Opens
<1>3. CASE sharing.vis # "organization"
    <2>1. u \in sharing.names => u \in After(sharing)  BY <1>3 DEF After
    <2>2. u \in Added(sharing) \cup StillIn(sharing) <=> u \in After(sharing)
        BY <1>1, <2>1 DEF Added, StillIn
    <2> QED  BY <1>1, <1>3, <2>2 DEF ToldOfAccess, ToldOfLoss, Lost
<1> QED  BY <1>2, <1>3

\* So the notice a steady member gets, if any, says what is so from now on
LEMMA NoticesSayWhatIsSo ==
    ASSUME SharingInv, sharing.on, NEW u \in Steady
    PROVE  /\ \A n \in Notices(sharing) : n.to = u =>
                n.says = IF Opens(sharing.vis, sharing.names, u) THEN "access" ELSE "removed"
           /\ (\E n \in Notices(sharing) : n.to = u) <=>
                Opens(sharing.vis, sharing.names, u) \/ Opens(kb.vis, granted, u)
<1> DEFINE opens == Opens(sharing.vis, sharing.names, u)
           opened == Opens(kb.vis, granted, u)
<1>1. u \in Staff  BY ShareSeesReaders
<1>2. (u \in ToldOfAccess(sharing) <=> opens) /\ (u \in ToldOfLoss(sharing) <=> opened /\ ~opens)
    BY ShareTellsTheTruth
<1> HIDE DEF opens, opened
<1>3. \A n \in NoticesTo(ToldOfAccess(sharing), "access") :
        n.says = "access" /\ (n.to = u => u \in ToldOfAccess(sharing))
    BY DEF NoticesTo
<1>4. \A n \in NoticesTo(ToldOfLoss(sharing), "removed") :
        n.says = "removed" /\ (n.to = u => u \in ToldOfLoss(sharing))
    BY DEF NoticesTo
<1>5. opens => \E n \in NoticesTo(ToldOfAccess(sharing), "access") : n.to = u
    <2> SUFFICES ASSUME opens PROVE \E n \in NoticesTo(ToldOfAccess(sharing), "access") : n.to = u  OBVIOUS
    <2>1. [to |-> u, says |-> "access", again |-> FALSE] \in NoticesTo(ToldOfAccess(sharing), "access")
        BY <1>1, <1>2 DEF NoticesTo
    <2> QED  BY <2>1
<1>6. opened /\ ~opens => \E n \in NoticesTo(ToldOfLoss(sharing), "removed") : n.to = u
    <2> SUFFICES ASSUME opened /\ ~opens PROVE \E n \in NoticesTo(ToldOfLoss(sharing), "removed") : n.to = u  OBVIOUS
    <2>1. [to |-> u, says |-> "removed", again |-> FALSE] \in NoticesTo(ToldOfLoss(sharing), "removed")
        BY <1>1, <1>2 DEF NoticesTo
    <2> QED  BY <2>1
<1>7. \A n \in Notices(sharing) : n.to = u => n.says = IF opens THEN "access" ELSE "removed"
    BY <1>2, <1>3, <1>4 DEF Notices
<1>8. (\E n \in Notices(sharing) : n.to = u) <=> opens \/ opened
    BY <1>2, <1>3, <1>4, <1>5, <1>6 DEF Notices
<1> QED  BY <1>7, <1>8 DEF opens, opened

\* What was learned is the notice, or what was learned before
LEMMA LearnedIsTheNotice ==
    ASSUME SharingInv, NEW u \in Reader
    PROVE  \/ \E n \in Notices(sharing) : n.to = u /\ ToldBy(Notices(sharing), u) = n.says
           \/ (\A n \in Notices(sharing) : n.to # u) /\ ToldBy(Notices(sharing), u) = learned[u]
<1>1. CASE \E n \in Notices(sharing) : n.to = u
    <2> DEFINE n == CHOOSE n \in Notices(sharing) : n.to = u
    <2>1. n \in Notices(sharing) /\ n.to = u  BY <1>1
    <2>2. ToldBy(Notices(sharing), u) = n.says  BY <1>1 DEF ToldBy
    <2> QED  BY <2>1, <2>2
<1>2. CASE \A n \in Notices(sharing) : n.to # u  BY <1>2 DEF ToldBy
<1> QED  BY <1>1, <1>2

LEMMA NoticeShape ==
    ASSUME NEW group, NEW says \in {"access", "removed", "deleted"}
    PROVE  NoticesTo(group, says) \subseteq Letter /\ \A l \in NoticesTo(group, says) : l.says = says /\ l.to \in group \cap Staff
<1> SUFFICES ASSUME NEW l \in NoticesTo(group, says)
             PROVE  l \in Letter /\ l.says = says /\ l.to \in group \cap Staff
    OBVIOUS
<1>1. PICK u \in group \cap Staff : l = [to |-> u, says |-> says, again |-> FALSE]  BY DEF NoticesTo
<1>2. u \in Reader  BY DEF Staff
<1>3. [to |-> u, says |-> says, again |-> FALSE] \in Letter  BY <1>2 DEF Letter
<1> QED  BY <1>1, <1>3

LEMMA NoticesAreLetters == Notices(sharing) \subseteq Letter
<1>1. \A group : NoticesTo(group, "access") \subseteq Letter /\ NoticesTo(group, "removed") \subseteq Letter
    BY NoticeShape
<1> QED  BY <1>1 DEF Notices

LEMMA ShareEndKeeps ==
    ASSUME SharingInv, SharingEnds
    PROVE  SharingInv'
<1> DEFINE row == [kb EXCEPT !.vis = sharing.vis]
           end == [ending EXCEPT !.late = ending.on /\ (@ \/ sharing.names # {})]
<1>1. /\ sharing.on /\ granted' = sharing.names /\ kb' = row /\ ending' = end
      /\ letters' = Notices(sharing) /\ learned' = [u \in Reader |-> ToldBy(Notices(sharing), u)]
      /\ overtaken' = (overtaken \/ ending.on) /\ sharing' = NoSharing
      /\ UNCHANGED <<role, shifted, slipped, moveSteps, flying, unsureMails, shareSteps, answers, questions, askSteps>>
    BY DEF SharingEnds, people, mailing, talk, Superseded
<1>2. /\ kb \in BaseRow /\ sharing.vis \in Visibility /\ sharing.names \subseteq Reader /\ ending.on \in BOOLEAN
      /\ ending \in [on : BOOLEAN, tell : SUBSET Reader, held : SUBSET Letter, late : BOOLEAN]
    BY DEF SharingInv, SharingTypeOK
<1>3. /\ row \in BaseRow /\ row.vis = sharing.vis /\ row.was = kb.was /\ row.on = kb.on /\ row.maker = kb.maker
    BY <1>2 DEF BaseRow
<1>4. end \in [on : BOOLEAN, tell : SUBSET Reader, held : SUBSET Letter, late : BOOLEAN] /\ end.on = ending.on
    BY <1>2
<1> HIDE DEF row, end
<1>5. kb.was /\ kb.on  BY <1>1 DEF SharingInv, DecisionsHaveABase
<1>6. learned' \in [Reader -> {"nothing", "access", "removed", "deleted"}]
    <2> SUFFICES ASSUME NEW u \in Reader PROVE ToldBy(Notices(sharing), u) \in {"nothing", "access", "removed", "deleted"}
        BY <1>1
    <2>1. learned[u] \in {"nothing", "access", "removed", "deleted"}  BY DEF SharingInv, SharingTypeOK
    <2>2. \A n \in Notices(sharing) : n.says \in {"access", "removed", "deleted"}  BY NoticesAreLetters DEF Letter
    <2> QED  BY <2>1, <2>2, LearnedIsTheNotice
<1>7. NoSharing \in [on : BOOLEAN, vis : Visibility, names : SUBSET Reader, staff : SUBSET Reader,
                     old : SUBSET Reader, above : SUBSET Reader] /\ ~NoSharing.on
    BY DEF NoSharing, Visibility
<1>8. overtaken' \in BOOLEAN  BY <1>1
<1>9. SharingTypeOK'  BY <1>1, <1>2, <1>3, <1>4, <1>6, <1>7, <1>8, NoticesAreLetters DEF SharingInv, SharingTypeOK
<1>10. Steady' = Steady /\ Staff' = Staff  BY <1>1, <1>3, SteadyStay
<1>11. BeforeTheBase' /\ DecisionsHaveABase'  BY <1>1, <1>3, <1>5, <1>7 DEF BeforeTheBase, DecisionsHaveABase
<1>12. SharingIsFresh'  BY <1>1, <1>3, <1>7 DEF SharingInv, SharingIsFresh
<1>13. EndingIsFresh'  BY <1>1, <1>4 DEF EndingIsFresh
<1>14. SteadyAreTold'
    <2> SUFFICES ASSUME ~overtaken'
                 PROVE  /\ \A u \in Steady : kb'.on /\ Opens(kb'.vis, granted', u) <=> learned'[u] = "access"
                        /\ \A l \in letters' : l.to \in Steady /\ ~l.again => l.says = learned'[l.to]
        BY <1>10 DEF SteadyAreTold
    <2>1. ~overtaken /\ ~ending.on  BY <1>1
    <2>2. ASSUME NEW u \in Steady
          PROVE  /\ kb'.on /\ Opens(kb'.vis, granted', u) <=> learned'[u] = "access"
                 /\ \A l \in letters' : l.to = u => l.says = learned'[u]
        <3> DEFINE opens == Opens(sharing.vis, sharing.names, u)
                   opened == Opens(kb.vis, granted, u)
        <3>1. u \in Reader /\ learned'[u] = ToldBy(Notices(sharing), u)  BY <1>1 DEF Steady
        <3>2. Opens(kb'.vis, granted', u) <=> opens  BY <1>1, <1>3
        <3>3. opened <=> learned[u] = "access"  BY <1>5, <2>1 DEF SharingInv, SteadyAreTold
        <3>4. /\ \A n \in Notices(sharing) : n.to = u => n.says = IF opens THEN "access" ELSE "removed"
              /\ (\E n \in Notices(sharing) : n.to = u) <=> opens \/ opened
            BY <1>1, NoticesSayWhatIsSo
        <3> HIDE DEF opens, opened
        <3>5. CASE \E n \in Notices(sharing) : n.to = u
            <4>1. learned'[u] = IF opens THEN "access" ELSE "removed"  BY <3>1, <3>4, <3>5, LearnedIsTheNotice
            <4>2. kb'.on  BY <1>1, <1>3, <1>5
            <4> QED  BY <1>1, <3>2, <3>4, <4>1, <4>2
        <3>6. CASE \A n \in Notices(sharing) : n.to # u
            <4>1. learned'[u] = learned[u]  BY <3>1, <3>6, LearnedIsTheNotice
            <4>2. ~opens /\ ~opened  BY <3>4, <3>6
            <4> QED  BY <1>1, <3>2, <3>3, <3>6, <4>1, <4>2
        <3> QED  BY <3>5, <3>6
    <2> QED  BY <2>2
<1>15. QuestionsAreCounted' /\ TalksEndWithTheBase'
    BY <1>1, <1>3 DEF SharingInv, QuestionsAreCounted, TalksEndWithTheBase
<1>16. AccessEndsWithMembership'  BY <1>1, <1>10 DEF SharingInv, SharingIsFresh, AccessEndsWithMembership
<1> QED  BY <1>9, <1>11, <1>12, <1>13, <1>14, <1>15, <1>16 DEF SharingInv

\* A share() the database ends leaves everything as it was
LEMMA ShareFailKeeps ==
    ASSUME SharingInv, SharingFails
    PROVE  SharingInv'
<1>1. /\ sharing' = NoSharing
      /\ UNCHANGED <<role, shifted, slipped, moveSteps, kb, granted, learned, letters, flying, unsureMails,
                     ending, overtaken, shareSteps, answers, questions, askSteps>>
    BY DEF SharingFails, people, mailing, talk
<1>2. NoSharing \in [on : BOOLEAN, vis : Visibility, names : SUBSET Reader, staff : SUBSET Reader,
                     old : SUBSET Reader, above : SUBSET Reader] /\ ~NoSharing.on
    BY DEF NoSharing, Visibility
<1>3. SharingTypeOK'  BY <1>1, <1>2 DEF SharingInv, SharingTypeOK
<1>4. Steady' = Steady /\ Staff' = Staff  BY <1>1, SteadyStay
<1>5. BeforeTheBase' /\ DecisionsHaveABase'  BY <1>1, <1>2 DEF SharingInv, BeforeTheBase, DecisionsHaveABase
<1>6. SharingIsFresh'  BY <1>1, <1>2 DEF SharingInv, SharingIsFresh
<1>7. EndingIsFresh' /\ SteadyAreTold'  BY <1>1, <1>4 DEF SharingInv, EndingIsFresh, SteadyAreTold
<1>8. QuestionsAreCounted' /\ TalksEndWithTheBase'  BY <1>1 DEF SharingInv, QuestionsAreCounted, TalksEndWithTheBase
<1>9. AccessEndsWithMembership'  BY <1>1, <1>4 DEF SharingInv, AccessEndsWithMembership
<1> QED  BY <1>3, <1>5, <1>6, <1>7, <1>8, <1>9 DEF SharingInv

-----------------------------------------------------------------------------
LEMMA DeletionBeginKeeps ==
    ASSUME SharingInv, WikiDeletionBegins
    PROVE  SharingInv'
<1> DEFINE told_ == IF kb.vis = "organization" THEN Staff ELSE granted
           end == [on |-> TRUE, tell |-> told_, held |-> letters, late |-> FALSE]
<1>1. /\ kb.on /\ ending' = end /\ letters' = {}
      /\ UNCHANGED <<role, shifted, slipped, moveSteps, kb, granted, learned, flying, unsureMails, sharing,
                     overtaken, shareSteps, answers, questions, askSteps>>
    BY DEF WikiDeletionBegins, people, mailing, talk, Superseded
<1>2. told_ \subseteq Reader  BY DEF Staff, SharingInv, SharingTypeOK
<1>3. end \in [on : BOOLEAN, tell : SUBSET Reader, held : SUBSET Letter, late : BOOLEAN]
      /\ end.on /\ end.tell = told_ /\ end.held = letters
    <2> HIDE DEF told_
    <2> QED  BY <1>2 DEF SharingInv, SharingTypeOK
<1> HIDE DEF end
<1>4. SharingTypeOK'  BY <1>1, <1>3 DEF SharingInv, SharingTypeOK
<1>5. Steady' = Steady /\ Staff' = Staff  BY <1>1, SteadyStay
<1>6. kb.was  BY <1>1 DEF SharingInv, DecisionsHaveABase
<1>7. BeforeTheBase' /\ DecisionsHaveABase'  BY <1>1, <1>6 DEF SharingInv, BeforeTheBase, DecisionsHaveABase
<1>8. SharingIsFresh'  BY <1>1, <1>5 DEF SharingInv, SharingIsFresh
<1>9. EndingIsFresh'
    <2>1. \A u \in Steady : u \in Staff  BY DEF Steady, Staff
    <2>2. \A u \in Steady : u \in told_ <=> Opens(kb.vis, granted, u)
        <3>1. kb.vis = "organization" => granted = {}  BY DEF SharingInv, SharingIsFresh
        <3> QED  BY <2>1, <3>1 DEF Opens
    <2>3. ~overtaken => \A l \in letters : l.to \in Steady /\ ~l.again => l.says = learned[l.to]
        BY DEF SharingInv, SteadyAreTold
    <2> HIDE DEF told_
    <2> QED  BY <1>1, <1>3, <1>5, <2>2, <2>3 DEF EndingIsFresh
<1>10. SteadyAreTold'  BY <1>1, <1>5 DEF SharingInv, SteadyAreTold
<1>11. QuestionsAreCounted' /\ TalksEndWithTheBase'  BY <1>1 DEF SharingInv, QuestionsAreCounted, TalksEndWithTheBase
<1>12. AccessEndsWithMembership'  BY <1>1, <1>5 DEF SharingInv, AccessEndsWithMembership
<1> QED  BY <1>4, <1>7, <1>8, <1>9, <1>10, <1>11, <1>12 DEF SharingInv

LEMMA DeletionEndKeeps ==
    ASSUME SharingInv, WikiDeletionEnds
    PROVE  SharingInv'
<1> DEFINE row == [kb EXCEPT !.on = FALSE]
           news_ == NoticesTo(ending.tell, "deleted")
<1>1. /\ ending.on /\ ~sharing.on /\ kb' = row /\ granted' = {} /\ answers' = [u \in Reader |-> 0]
      /\ letters' = letters \cup news_
      /\ learned' = [u \in Reader |-> IF u \in ending.tell \cap Staff THEN "deleted" ELSE learned[u]]
      /\ ending' = NoEnding
      /\ UNCHANGED <<role, shifted, slipped, moveSteps, flying, unsureMails, sharing, overtaken, shareSteps,
                     questions, askSteps>>
    BY DEF WikiDeletionEnds, people, mailing, TalksAfterDelete
<1>2. kb \in BaseRow  BY DEF SharingInv, SharingTypeOK
<1>3. row \in BaseRow /\ ~row.on /\ row.was = kb.was /\ row.vis = kb.vis /\ row.maker = kb.maker  BY <1>2 DEF BaseRow
<1> HIDE DEF row
<1>4. news_ \subseteq Letter /\ \A l \in news_ : l.says = "deleted" /\ l.to \in ending.tell \cap Staff
    BY NoticeShape
<1> HIDE DEF news_
<1>5. NoEnding \in [on : BOOLEAN, tell : SUBSET Reader, held : SUBSET Letter, late : BOOLEAN] /\ ~NoEnding.on
    BY DEF NoEnding
<1>6. kb.was /\ kb.on  BY <1>1 DEF SharingInv, DecisionsHaveABase
<1>7. learned' \in [Reader -> {"nothing", "access", "removed", "deleted"}]  BY <1>1 DEF SharingInv, SharingTypeOK
<1>8. answers' \in [Reader -> 0..MaxAsked]
    <2>1. 0 \in 0..MaxAsked  BY SharingAssumption DEF SharingAssumption
    <2> QED  BY <1>1, <2>1
<1>9. SharingTypeOK'  BY <1>1, <1>3, <1>4, <1>5, <1>7, <1>8 DEF SharingInv, SharingTypeOK
<1>10. Steady' = Steady /\ Staff' = Staff  BY <1>1, <1>3, SteadyStay
<1>11. BeforeTheBase' /\ DecisionsHaveABase'  BY <1>1, <1>3, <1>5, <1>6 DEF BeforeTheBase, DecisionsHaveABase
<1>12. SharingIsFresh' /\ EndingIsFresh'  BY <1>1, <1>5 DEF SharingIsFresh, EndingIsFresh
<1>13. SteadyAreTold'
    <2> SUFFICES ASSUME ~overtaken
                 PROVE  /\ \A u \in Steady : learned'[u] # "access"
                        /\ \A l \in letters' : l.to \in Steady /\ ~l.again => l.says = learned'[l.to]
        BY <1>1, <1>3, <1>10 DEF SteadyAreTold
    <2>1. \A u \in Steady : u \in Reader /\ u \in Staff  BY DEF Steady, Staff
    <2>2. \A u \in Steady : u \in ending.tell <=> learned[u] = "access"
        BY <1>1, <1>6 DEF SharingInv, EndingIsFresh, SteadyAreTold
    <2>3. \A u \in Steady : learned'[u] = IF u \in ending.tell THEN "deleted" ELSE learned[u]  BY <1>1, <2>1
    <2>4. \A l \in letters : l.to \in Steady => l.again  BY <1>1 DEF SharingInv, EndingIsFresh
    <2> QED  BY <1>1, <1>4, <2>2, <2>3, <2>4
<1>14. QuestionsAreCounted' /\ TalksEndWithTheBase'
    <2>1. \A u \in Reader : answers'[u] = 0  BY <1>1
    <2>2. \A u \in Reader : 0 <= askSteps /\ (questions[u].st # "none" => 0 < askSteps /\ questions[u].as # "none")
        <3> SUFFICES ASSUME NEW u \in Reader
                     PROVE  0 <= askSteps /\ (questions[u].st # "none" => 0 < askSteps /\ questions[u].as # "none")
            OBVIOUS
        <3>1. answers[u] \in Nat  BY SharingAssumption DEF SharingInv, SharingTypeOK, SharingAssumption
        <3>2. askSteps \in Nat  BY SharingAssumption DEF SharingInv, SharingTypeOK, SharingAssumption
        <3>3. questions[u].st # "none" => answers[u] < askSteps /\ questions[u].as # "none"
            BY DEF SharingInv, QuestionsAreCounted
        <3> QED  BY <3>1, <3>2, <3>3
    <2> QED  BY <1>1, <2>1, <2>2 DEF QuestionsAreCounted, TalksEndWithTheBase
<1>15. AccessEndsWithMembership'  BY <1>1 DEF AccessEndsWithMembership
<1> QED  BY <1>9, <1>11, <1>12, <1>13, <1>14, <1>15 DEF SharingInv

\* Steps that change nothing but mails, and a deletion that is given up
LEMMA LettersKeep ==
    ASSUME SharingInv, letters' \subseteq Letter, flying' \subseteq Letter, unsureMails' \in 0..MaxUnsure,
           ending' \in {ending, NoEnding},
           UNCHANGED <<role, shifted, slipped, moveSteps, kb, granted, learned, sharing, overtaken, shareSteps,
                       answers, questions, askSteps>>,
           ~kb.was => letters' = {} /\ flying' = {},
           ~overtaken => /\ \A l \in letters' : l.to \in Steady /\ ~l.again => l.says = learned[l.to]
                         /\ ending' = ending => \A l \in letters' : l \in letters \/ l.again
    PROVE  SharingInv'
<1>1. NoEnding \in [on : BOOLEAN, tell : SUBSET Reader, held : SUBSET Letter, late : BOOLEAN] /\ ~NoEnding.on
    BY DEF NoEnding
<1>2. ending' \in [on : BOOLEAN, tell : SUBSET Reader, held : SUBSET Letter, late : BOOLEAN]
    BY <1>1 DEF SharingInv, SharingTypeOK
<1>3. SharingTypeOK'  BY <1>2 DEF SharingInv, SharingTypeOK
<1>4. Steady' = Steady /\ Staff' = Staff  BY SteadyStay
<1>5. BeforeTheBase' /\ DecisionsHaveABase'  BY <1>1 DEF SharingInv, BeforeTheBase, DecisionsHaveABase
<1>6. SharingIsFresh'  BY <1>4 DEF SharingInv, SharingIsFresh
<1>7. EndingIsFresh'
    <2>1. CASE ending' = NoEnding  BY <1>1, <2>1 DEF EndingIsFresh
    <2>2. CASE ending' = ending  BY <1>4, <2>2 DEF SharingInv, EndingIsFresh
    <2> QED  BY <2>1, <2>2
<1>8. SteadyAreTold'  BY <1>4 DEF SharingInv, SteadyAreTold
<1>9. QuestionsAreCounted' /\ TalksEndWithTheBase'  BY DEF SharingInv, QuestionsAreCounted, TalksEndWithTheBase
<1>10. AccessEndsWithMembership'  BY <1>4 DEF SharingInv, AccessEndsWithMembership
<1> QED  BY <1>3, <1>5, <1>6, <1>7, <1>8, <1>9, <1>10 DEF SharingInv

LEMMA DeletionFailKeeps ==
    ASSUME SharingInv, WikiDeletionFails
    PROVE  SharingInv'
<1>1. /\ ending.on /\ letters' = letters \cup ending.held /\ ending' = NoEnding
      /\ UNCHANGED <<role, shifted, slipped, moveSteps, kb, granted, learned, flying, unsureMails, sharing, overtaken,
                     shareSteps, answers, questions, askSteps>>
    BY DEF WikiDeletionFails, people, mailing, talk
<1>2. letters' \subseteq Letter /\ flying' \subseteq Letter /\ unsureMails' \in 0..MaxUnsure
    BY <1>1 DEF SharingInv, SharingTypeOK
<1>3. kb.was  BY <1>1 DEF SharingInv, DecisionsHaveABase
<1>4. ~overtaken => \A l \in letters' : l.to \in Steady /\ ~l.again => l.says = learned[l.to]
    BY <1>1 DEF SharingInv, EndingIsFresh, SteadyAreTold
<1>5. ending' # ending  BY <1>1 DEF NoEnding
<1> QED  BY <1>1, <1>2, <1>3, <1>4, <1>5, LettersKeep

LEMMA LetterStepsKeep ==
    ASSUME SharingInv, LetterReturns \/ \E l \in letters : LetterLeaves(l) \/ LetterIsSending(l)
    PROVE  SharingInv'
<1>1. ~overtaken => \A l \in letters : l.to \in Steady /\ ~l.again => l.says = learned[l.to]
    BY DEF SharingInv, SteadyAreTold
<1>2. letters \subseteq Letter /\ flying \subseteq Letter /\ unsureMails \in 0..MaxUnsure  BY DEF SharingInv, SharingTypeOK
<1>3. ~kb.was => letters = {} /\ flying = {}  BY DEF SharingInv, BeforeTheBase
<1>4. CASE LetterReturns
    <2> DEFINE back == {[l EXCEPT !.again = TRUE] : l \in flying}
    <2>1. back \subseteq Letter /\ \A l \in back : l.again
        <3>1. \A l \in flying : [l EXCEPT !.again = TRUE] \in Letter /\ [l EXCEPT !.again = TRUE].again
            BY <1>2 DEF Letter
        <3> QED  BY <3>1
    <2>2. flying = {} => back = {}  OBVIOUS
    <2> HIDE DEF back
    <2>3. /\ flying' = {} /\ letters' = letters \cup back /\ ending' = ending /\ unsureMails' = unsureMails
          /\ UNCHANGED <<role, shifted, slipped, moveSteps, kb, granted, learned, sharing, overtaken, shareSteps,
                         answers, questions, askSteps>>
        BY <1>4 DEF LetterReturns, people, talk, back
    <2> QED  BY <1>1, <1>2, <1>3, <2>1, <2>2, <2>3, LettersKeep
<1>5. ASSUME NEW l \in letters, LetterLeaves(l) \/ LetterIsSending(l)
      PROVE  SharingInv'
    <2>1. /\ letters' = letters \ {l} /\ flying' \in {flying, {l}} /\ ending' = ending
          /\ UNCHANGED <<role, shifted, slipped, moveSteps, kb, granted, learned, sharing, overtaken, shareSteps,
                         answers, questions, askSteps>>
        BY <1>5 DEF LetterLeaves, LetterIsSending, people, mailing, talk
    <2>2. unsureMails' \in 0..MaxUnsure
        <3>1. unsureMails' = unsureMails \/ (unsureMails < MaxUnsure /\ unsureMails' = unsureMails + 1)
            BY <1>5 DEF LetterLeaves, LetterIsSending, mailing
        <3> QED  BY <1>2, <3>1, SharingAssumption DEF SharingAssumption
    <2> QED  BY <1>1, <1>2, <1>3, <2>1, <2>2, LettersKeep
<1> QED  BY <1>4, <1>5

-----------------------------------------------------------------------------
\* Whose membership changes is no longer steady; everybody else is as before
LEMMA MoveKeeps ==
    ASSUME SharingInv, NEW u \in Reader, NEW r \in {"none", "member", "admin"}, Moves(u, r),
           granted' \in {granted, granted \ {u}}, slipped' \in {slipped, slipped \cup {u}},
           u \in Staff' \/ (u \notin granted' /\ (sharing.on /\ u \in sharing.names => u \in slipped'))
    PROVE  SharingInv'
<1>1. /\ kb.was /\ moveSteps < MaxMoves /\ moveSteps' = moveSteps + 1
      /\ role' = [role EXCEPT ![u] = r] /\ shifted' = shifted \cup {u}
      /\ UNCHANGED <<kb, learned, letters, flying, unsureMails, sharing, ending, overtaken, shareSteps,
                     answers, questions, askSteps>>
    BY DEF Moves, mailing, talk
<1>2. role' \in [Reader -> {"none", "member", "admin"}] /\ \A v \in Reader \ {u} : role'[v] = role[v]
    BY <1>1 DEF SharingInv, SharingTypeOK
<1>3. moveSteps' \in 0..MaxMoves
    <2>1. moveSteps \in 0..MaxMoves  BY DEF SharingInv, SharingTypeOK
    <2> QED  BY <1>1, <2>1, SharingAssumption DEF SharingAssumption
<1>4. SharingTypeOK'  BY <1>1, <1>2, <1>3 DEF SharingInv, SharingTypeOK
<1>5. Steady' = Steady \ {u}  BY <1>1, <1>2 DEF Steady
<1>6. Staff \ {u} \subseteq Staff' /\ Staff \subseteq Reader  BY <1>2 DEF Staff
<1>7. \A v \in Reader \ {u} : v \in granted' <=> v \in granted  OBVIOUS
<1>8. BeforeTheBase' /\ DecisionsHaveABase'  BY <1>1 DEF SharingInv, BeforeTheBase, DecisionsHaveABase
<1>9. SharingIsFresh'
    <2>1. kb'.vis # "specific" => granted' = {}  BY <1>1 DEF SharingInv, SharingIsFresh
    <2>2. ASSUME sharing'.on
          PROVE  /\ sharing'.vis # "specific" => sharing'.names = {}
                 /\ sharing'.names \subseteq Staff' \cup slipped'
        <3>1. /\ sharing'.on = sharing.on /\ sharing'.names = sharing.names /\ sharing'.vis = sharing.vis  BY <1>1
        <3>2. sharing.names \subseteq Staff \cup slipped /\ (sharing.vis # "specific" => sharing.names = {})
            BY <2>2, <3>1 DEF SharingInv, SharingIsFresh
        <3> QED  BY <1>6, <2>2, <3>1, <3>2
    <2>3. ASSUME sharing'.on, NEW v \in Reader \ shifted'
          PROVE  /\ v \in sharing'.staff <=> role'[v] # "none"
                 /\ v \in sharing'.above <=> role'[v] = "admin" \/ kb'.maker = v
                 /\ v \in sharing'.old <=> kb'.vis = "specific" /\ v \in granted'
        <3>1. v \in Reader \ shifted /\ v # u /\ role'[v] = role[v] /\ (v \in granted' <=> v \in granted)  BY <1>1, <1>2
        <3>2. /\ v \in sharing.staff <=> role[v] # "none"
              /\ v \in sharing.above <=> role[v] = "admin" \/ kb.maker = v
              /\ v \in sharing.old <=> kb.vis = "specific" /\ v \in granted
            BY <1>1, <2>3, <3>1 DEF SharingInv, SharingIsFresh
        <3> QED  BY <1>1, <3>1, <3>2
    <2> QED  BY <2>1, <2>2, <2>3 DEF SharingIsFresh
<1>10. \A v \in Steady' : v \in Steady /\ v \in Reader \ {u}  BY <1>5 DEF Steady
<1>11. EndingIsFresh'
    <2>1. \A v \in Steady' : Opens(kb'.vis, granted', v) <=> Opens(kb.vis, granted, v)  BY <1>1, <1>7, <1>10 DEF Opens
    <2> QED  BY <1>1, <1>10, <2>1 DEF SharingInv, EndingIsFresh
<1>12. SteadyAreTold'
    <2>1. \A v \in Steady' : Opens(kb'.vis, granted', v) <=> Opens(kb.vis, granted, v)  BY <1>1, <1>7, <1>10 DEF Opens
    <2> QED  BY <1>1, <1>10, <2>1 DEF SharingInv, SteadyAreTold
<1>13. QuestionsAreCounted' /\ TalksEndWithTheBase'  BY <1>1 DEF SharingInv, QuestionsAreCounted, TalksEndWithTheBase
<1>14. AccessEndsWithMembership'  BY <1>6 DEF SharingInv, AccessEndsWithMembership
<1> QED  BY <1>4, <1>8, <1>9, <1>11, <1>12, <1>13, <1>14 DEF SharingInv

LEMMA StaffMovesKeep ==
    ASSUME SharingInv, StaffMoves
    PROVE  SharingInv'
<1>1. PICK u \in Reader : RemoveReader(u) \/ InviteBack(u) \/ \E r \in {"member", "admin"} : SetRole(u, r)
    BY DEF StaffMoves
<1>2. role \in [Reader -> {"none", "member", "admin"}]  BY DEF SharingInv, SharingTypeOK
<1>3. CASE RemoveReader(u)
    <2>1. Moves(u, "none") /\ granted' = granted \ {u} /\ slipped' \in {slipped, slipped \cup {u}}
          /\ (sharing.on /\ u \in sharing.names => u \in slipped')
        BY <1>3 DEF RemoveReader, GrantedWithout
    <2> QED  BY <2>1, MoveKeeps
<1>4. ASSUME NEW r \in {"member", "admin"}, Moves(u, r), UNCHANGED <<granted, slipped>>
      PROVE  SharingInv'
    <2>1. u \in Staff'  BY <1>2, <1>4 DEF Moves, Staff
    <2> QED  BY <1>4, <2>1, MoveKeeps
<1>5. CASE InviteBack(u)  BY <1>4, <1>5 DEF InviteBack
<1>6. CASE \E r \in {"member", "admin"} : SetRole(u, r)  BY <1>4, <1>6 DEF SetRole
<1> QED  BY <1>1, <1>3, <1>5, <1>6

-----------------------------------------------------------------------------
\* Conversations change no access
LEMMA ChatKeeps ==
    ASSUME SharingInv,
           UNCHANGED <<role, shifted, slipped, moveSteps, kb, granted, learned, letters, flying, unsureMails, sharing,
                       overtaken, shareSteps>>,
           ending' = ending \/ \E late \in BOOLEAN : ending' = [ending EXCEPT !.late = late],
           answers' \in [Reader -> 0..MaxAsked], questions' \in [Reader -> Question], askSteps' \in 0..MaxAsked,
           QuestionsAreCounted', TalksEndWithTheBase'
    PROVE  SharingInv'
<1>1. /\ ending' \in [on : BOOLEAN, tell : SUBSET Reader, held : SUBSET Letter, late : BOOLEAN]
      /\ ending'.on = ending.on /\ ending'.tell = ending.tell /\ ending'.held = ending.held
    BY DEF SharingInv, SharingTypeOK
<1>2. SharingTypeOK'  BY <1>1 DEF SharingInv, SharingTypeOK
<1>3. Steady' = Steady /\ Staff' = Staff  BY SteadyStay
<1>4. BeforeTheBase' /\ DecisionsHaveABase'  BY <1>1 DEF SharingInv, BeforeTheBase, DecisionsHaveABase
<1>5. SharingIsFresh'  BY <1>3 DEF SharingInv, SharingIsFresh
<1>6. EndingIsFresh' /\ SteadyAreTold'  BY <1>1, <1>3 DEF SharingInv, EndingIsFresh, SteadyAreTold
<1>7. AccessEndsWithMembership'  BY <1>3 DEF SharingInv, AccessEndsWithMembership
<1> QED  BY <1>2, <1>4, <1>5, <1>6, <1>7 DEF SharingInv

LEMMA ChatStepsKeep ==
    ASSUME SharingInv, ChatSteps
    PROVE  SharingInv'
<1>1. PICK u \in Reader : AskWiki(u) \/ SearchWiki(u) \/ SaveExchange(u) \/ ChatEnds(u) \/ DeleteTalk(u)
    BY DEF ChatSteps
<1>2. /\ answers \in [Reader -> 0..MaxAsked] /\ questions \in [Reader -> Question] /\ askSteps \in 0..MaxAsked
      /\ ending.on \in BOOLEAN /\ role[u] \in {"none", "member", "admin"} /\ MaxAsked \in Nat
    BY SharingAssumption DEF SharingInv, SharingTypeOK, SharingAssumption
<1>3. \A v \in Reader : /\ answers[v] <= askSteps
                        /\ questions[v].st # "none" => answers[v] < askSteps /\ questions[v].as # "none"
    BY DEF SharingInv, QuestionsAreCounted
<1>4. \A v \in Reader : answers[v] > 0 => kb.on  BY DEF SharingInv, TalksEndWithTheBase
<1>5. NoChat \in Question /\ NoChat.st = "none"  BY DEF NoChat, Question
<1>6. UNCHANGED <<role, shifted, slipped, moveSteps, kb, granted, learned, letters, flying, unsureMails, sharing,
                  overtaken, shareSteps>>
    BY <1>1 DEF AskWiki, SearchWiki, SaveExchange, ChatEnds, DeleteTalk, ChatMoves, people, access, mailing
<1>7. CASE AskWiki(u)
    <2> DEFINE q == [st |-> "asked", as |-> role[u], goesOn |-> answers[u] > 0]
    <2>1. /\ role[u] # "none" /\ askSteps < MaxAsked /\ askSteps' = askSteps + 1 /\ ending' = ending /\ answers' = answers
          /\ questions' = [questions EXCEPT ![u] = q]
        BY <1>7 DEF AskWiki, ChatMoves
    <2>2. q \in Question /\ q.st = "asked" /\ q.as = role[u]  BY <1>2 DEF Question
    <2> HIDE DEF q
    <2>3. questions' \in [Reader -> Question] /\ questions'[u] = q /\ \A v \in Reader \ {u} : questions'[v] = questions[v]
        BY <1>2, <2>1, <2>2
    <2>4. askSteps' \in 0..MaxAsked  BY <1>2, <2>1
    <2>5. QuestionsAreCounted'
        <3> SUFFICES ASSUME NEW v \in Reader
                     PROVE  /\ answers[v] <= askSteps + 1
                            /\ questions'[v].st # "none" => answers[v] < askSteps + 1 /\ questions'[v].as # "none"
            BY <2>1 DEF QuestionsAreCounted
        <3>1. answers[v] \in Nat /\ askSteps \in Nat /\ answers[v] <= askSteps  BY <1>2, <1>3
        <3>2. questions'[v].st # "none" => questions'[v].as # "none"  BY <1>3, <2>1, <2>2, <2>3
        <3> QED  BY <3>1, <3>2
    <2>6. TalksEndWithTheBase'  BY <1>4, <1>6, <2>1 DEF TalksEndWithTheBase
    <2> QED  BY <1>2, <1>6, <2>1, <2>3, <2>4, <2>5, <2>6, ChatKeeps
<1>8. CASE SearchWiki(u)
    <2> DEFINE q == [questions[u] EXCEPT !.st = "found"]
    <2>1. /\ questions[u].st = "asked" /\ UNCHANGED <<answers, ending, askSteps>>
          /\ questions' = [questions EXCEPT ![u] = q]
        BY <1>8 DEF SearchWiki, ChatMoves
    <2>2. q \in Question /\ q.as = questions[u].as  BY <1>2 DEF Question
    <2> HIDE DEF q
    <2>3. questions' \in [Reader -> Question] /\ questions'[u] = q /\ \A v \in Reader \ {u} : questions'[v] = questions[v]
        BY <1>2, <2>1, <2>2
    <2>4. QuestionsAreCounted'  BY <1>3, <2>1, <2>2, <2>3 DEF QuestionsAreCounted
    <2>5. TalksEndWithTheBase'  BY <1>4, <1>6, <2>1 DEF TalksEndWithTheBase
    <2> QED  BY <1>2, <1>6, <2>1, <2>3, <2>4, <2>5, ChatKeeps
<1>9. CASE SaveExchange(u)
    <2>1. /\ questions[u].st = "found" /\ kb.on /\ askSteps' = askSteps
          /\ answers' = [answers EXCEPT ![u] = @ + 1] /\ questions' = [questions EXCEPT ![u] = NoChat]
          /\ ending' = [ending EXCEPT !.late = ending.on]
        BY <1>9 DEF SaveExchange, StillReads, CanRead, ChatMoves
    <2>2. answers[u] < askSteps  BY <1>3, <2>1
    <2>3. answers[u] + 1 \in 0..MaxAsked  BY <1>2, <2>2
    <2>4. /\ answers' \in [Reader -> 0..MaxAsked] /\ answers'[u] = answers[u] + 1
          /\ \A v \in Reader \ {u} : answers'[v] = answers[v]
        BY <1>2, <2>1, <2>3
    <2>5. questions' \in [Reader -> Question] /\ questions'[u] = NoChat /\ \A v \in Reader \ {u} : questions'[v] = questions[v]
        BY <1>2, <1>5, <2>1
    <2>6. answers'[u] <= askSteps  BY <1>2, <2>2, <2>4
    <2>7. QuestionsAreCounted'  BY <1>3, <1>5, <2>1, <2>4, <2>5, <2>6 DEF QuestionsAreCounted
    <2>8. TalksEndWithTheBase'  BY <1>6, <2>1 DEF TalksEndWithTheBase
    <2> QED  BY <1>2, <1>6, <2>1, <2>4, <2>5, <2>7, <2>8, ChatKeeps
<1>10. CASE ChatEnds(u)
    <2>1. questions' = [questions EXCEPT ![u] = NoChat] /\ UNCHANGED <<answers, ending, askSteps>>
        BY <1>10 DEF ChatEnds, ChatMoves
    <2>2. questions' \in [Reader -> Question] /\ questions'[u] = NoChat /\ \A v \in Reader \ {u} : questions'[v] = questions[v]
        BY <1>2, <1>5, <2>1
    <2>3. QuestionsAreCounted'  BY <1>3, <1>5, <2>1, <2>2 DEF QuestionsAreCounted
    <2>4. TalksEndWithTheBase'  BY <1>4, <1>6, <2>1 DEF TalksEndWithTheBase
    <2> QED  BY <1>2, <1>6, <2>1, <2>2, <2>3, <2>4, ChatKeeps
<1>11. CASE DeleteTalk(u)
    <2>1. answers' = [answers EXCEPT ![u] = 0] /\ UNCHANGED <<questions, ending, askSteps>>
        BY <1>11 DEF DeleteTalk, access
    <2>2. 0 \in 0..MaxAsked  BY <1>2
    <2>3. answers' \in [Reader -> 0..MaxAsked] /\ answers'[u] = 0 /\ \A v \in Reader \ {u} : answers'[v] = answers[v]
        BY <1>2, <2>1, <2>2
    <2>4. \A v \in Reader : answers'[v] = answers[v] \/ answers'[v] = 0  BY <2>3
    <2>5. QuestionsAreCounted'
        <3> SUFFICES ASSUME NEW v \in Reader
                     PROVE  /\ answers'[v] <= askSteps
                            /\ questions[v].st # "none" => answers'[v] < askSteps /\ questions[v].as # "none"
            BY <2>1 DEF QuestionsAreCounted
        <3>1. answers[v] \in Nat /\ askSteps \in Nat  BY <1>2
        <3> QED  BY <1>3, <2>4, <3>1
    <2>6. TalksEndWithTheBase'  BY <1>4, <1>6, <2>4 DEF TalksEndWithTheBase
    <2> QED  BY <1>2, <1>6, <2>1, <2>3, <2>5, <2>6, ChatKeeps
<1> QED  BY <1>1, <1>7, <1>8, <1>9, <1>10, <1>11

LEMMA SharingInductive == SharingInv /\ [SharingNext]_sharingVars => SharingInv'
<1> SUFFICES ASSUME SharingInv, [SharingNext]_sharingVars PROVE SharingInv'  OBVIOUS
<1>1. CASE WikiSteps
    <2>1. ASSUME NEW vis \in Visibility, NEW names \in SUBSET Reader, SharingBegins(vis, names) PROVE SharingInv'
        BY <2>1, ShareBeginKeeps
    <2> QED  BY <1>1, <2>1, MakeKeeps, ShareEndKeeps, ShareFailKeeps, DeletionBeginKeeps, DeletionEndKeeps,
                DeletionFailKeeps, LetterStepsKeep DEF WikiSteps
<1>2. CASE StaffMoves  BY <1>2, StaffMovesKeep
<1>3. CASE ChatSteps  BY <1>3, ChatStepsKeep
<1>4. CASE UNCHANGED sharingVars
    <2>1. UNCHANGED <<role, kb, granted, learned, letters, flying, sharing, ending, answers, questions,
                      shifted, slipped, overtaken, shareSteps, moveSteps, askSteps, unsureMails>>
        BY <1>4 DEF sharingVars
    <2>2. QuestionsAreCounted' /\ TalksEndWithTheBase'
        BY <2>1 DEF SharingInv, QuestionsAreCounted, TalksEndWithTheBase
    <2>3. answers' \in [Reader -> 0..MaxAsked] /\ questions' \in [Reader -> Question] /\ askSteps' \in 0..MaxAsked
        BY <2>1 DEF SharingInv, SharingTypeOK
    <2> QED  BY <2>1, <2>2, <2>3, ChatKeeps
<1> QED  BY <1>1, <1>2, <1>3, <1>4 DEF SharingNext

\* The invariant says of members, letters and answers what the property does
LEMMA SharingInvSuffices == SharingInv => SharingTypeOK /\ SharingIsTold
<1> SUFFICES ASSUME SharingInv PROVE SharingTypeOK /\ SharingIsTold  OBVIOUS
<1>1. NoticesAreTrue
    <2> SUFFICES ASSUME ~overtaken, NEW u \in Staff \ (shifted \cup {kb.maker}), role[u] = "member"
                 PROVE  /\ MayReadNow(u) <=> learned[u] = "access"
                        /\ \A l \in letters : l.to = u /\ ~l.again => l.says = learned[u]
        BY DEF NoticesAreTrue
    <2>1. u \in Steady  BY DEF Steady, Staff
    <2>2. kb.on /\ Opens(kb.vis, granted, u) <=> learned[u] = "access"  BY <2>1 DEF SharingInv, SteadyAreTold
    <2>3. \A l \in letters : l.to = u /\ ~l.again => l.says = learned[u]  BY <2>1 DEF SharingInv, SteadyAreTold
    <2>4. MayReadNow(u) <=> kb.on /\ Opens(kb.vis, granted, u)  BY DEF MayReadNow, CanRead, Opens
    <2> QED  BY <2>2, <2>3, <2>4
<1> QED  BY <1>1 DEF SharingInv, SharingIsTold

\* An answer is added by one step only, which asks who may read
LEMMA AnswersNeedAReader ==
    ASSUME SharingInv, [SharingNext]_sharingVars, NEW u \in Reader, answers'[u] > answers[u]
    PROVE  MayReadNow(u) \/ questions[u].as # role[u]
<1>1. answers \in [Reader -> Nat]  BY SharingAssumption DEF SharingInv, SharingTypeOK, SharingAssumption
<1>2. answers'[u] # answers[u]  BY <1>1
<1>3. SaveExchange(u)
    <2>1. CASE WikiSteps
        <3>1. answers' = answers \/ WikiDeletionEnds
            BY <2>1 DEF WikiSteps, MakeWiki, SharingBegins, SharingEnds, SharingFails, WikiDeletionBegins,
                        WikiDeletionFails, LetterReturns, LetterLeaves, LetterIsSending, talk
        <3>2. ~WikiDeletionEnds
            <4> SUFFICES ASSUME WikiDeletionEnds PROVE FALSE  OBVIOUS
            <4>1. answers'[u] = 0  BY DEF WikiDeletionEnds, TalksAfterDelete
            <4> QED  BY <1>1, <4>1
        <3> QED  BY <1>2, <3>1, <3>2
    <2>2. CASE StaffMoves  BY <1>2, <2>2 DEF StaffMoves, RemoveReader, InviteBack, SetRole, Moves, talk
    <2>3. CASE ChatSteps
        <3>1. PICK v \in Reader : AskWiki(v) \/ SearchWiki(v) \/ SaveExchange(v) \/ ChatEnds(v) \/ DeleteTalk(v)
            BY <2>3 DEF ChatSteps
        <3>2. CASE SaveExchange(v)
            <4>1. answers' = [answers EXCEPT ![v] = @ + 1]  BY <3>2 DEF SaveExchange
            <4>2. v = u  BY <1>1, <1>2, <4>1
            <4> QED  BY <3>2, <4>2
        <3>3. CASE DeleteTalk(v)
            <4>1. answers' = [answers EXCEPT ![v] = 0]  BY <3>3 DEF DeleteTalk
            <4>2. answers'[u] = answers[u] \/ answers'[u] = 0  BY <1>1, <4>1
            <4> QED  BY <1>1, <1>2, <4>2
        <3>4. CASE AskWiki(v) \/ SearchWiki(v) \/ ChatEnds(v)  BY <1>2, <3>4 DEF AskWiki, SearchWiki, ChatEnds
        <3> QED  BY <3>1, <3>2, <3>3, <3>4
    <2>4. CASE UNCHANGED sharingVars  BY <1>2, <2>4 DEF sharingVars
    <2> QED  BY <2>1, <2>2, <2>3, <2>4 DEF SharingNext
<1>4. questions[u].st = "found" /\ CanRead(u, questions[u].as)  BY <1>3 DEF SaveExchange, StillReads
<1>5. questions[u].as # "none"  BY <1>4 DEF SharingInv, QuestionsAreCounted
<1> QED  BY <1>4, <1>5 DEF MayReadNow

\* People are told who may read a knowledge base as it is, nobody who left keeps
\* a row that would let them in again, no answer outlives the base or is kept for
\* somebody who may not read it, for any number of readers, decisions, mails and
\* questions at once (knowledge_bases.py, knowledge_service.py, accounts.py).
THEOREM ReadersAreToldTheTruth == SharingSpec => SharingHolds
<1>1. SharingInit => SharingInv  BY SharingBegun
<1>2. SharingInv /\ [SharingNext]_sharingVars => SharingInv'  BY SharingInductive
<1>3. SharingInv => SharingTypeOK /\ SharingIsTold  BY SharingInvSuffices
<1>4. SharingInv /\ [SharingNext]_sharingVars =>
        [\A u \in Reader : answers'[u] > answers[u] => MayReadNow(u) \/ questions[u].as # role[u]]_sharingVars
    BY AnswersNeedAReader
<1> QED  BY <1>1, <1>2, <1>3, <1>4, PTL DEF SharingSpec, SharingHolds, AnswersStayWithReaders
=============================================================================
