-------------------------- MODULE EnrolmentProofs ---------------------------
(***************************************************************************)
(* Proofs about which calls are recorded and what their minutes say.  The   *)
(* stored draft rests on the transcript as it now is, for any transcripts,  *)
(* any answers of the model and any number of corrections; a personal       *)
(* version is read as its author approved it, for any number of windows,    *)
(* generations and readers; an assistant is sent where the rules ask for    *)
(* one, for any people, calendars, calls and processes that scan.           *)
(*                                                                         *)
(* The argument.  Revisions only grow: a generation that read both the      *)
(* transcript and its revision before a change is older than the revision   *)
(* there is, so a draft of the current revision was checked against the     *)
(* current words.  A window whose revision is the row's shows the row.      *)
(***************************************************************************)
EXTENDS MCEnrolment, WellFoundedInduction, TLAPS


(***************************************************************************)
(* The checks of a draft: sorting the claims out leaves exactly those that  *)
(* stand                                                                   *)
(***************************************************************************)

\* A claim as the checks see it, whatever it cites
Sentence(k, w, x) == [kind |-> k, who |-> w, cites |-> x]
IsClaim(c) == /\ c = Sentence(c.kind, c.who, c.cites)
              /\ c.kind = "said" => c.who # NoVoice

\* What a claim is after its citations were sorted out
LEMMA OnlyFinalizedClaim ==
    ASSUME NEW c, NEW snap, IsClaim(c)
    PROVE  /\ IsClaim(OnlyFinalized(c, snap))
           /\ OnlyFinalized(c, snap).kind = c.kind /\ OnlyFinalized(c, snap).who = c.who
           /\ OnlyFinalized(c, snap).cites = c.cites \cap Finalized(snap)
<1> DEFINE k == c.kind
           w == c.who
           x == c.cites
           y == x \cap Finalized(snap)
<1>1. c = Sentence(k, w, x)  BY DEF IsClaim
<1>2. OnlyFinalized(c, snap) = [c EXCEPT !.cites = y]  BY DEF OnlyFinalized
<1> HIDE DEF k, w, x, y
<1>3. [c EXCEPT !.cites = y] = Sentence(k, w, y)  BY <1>1 DEF Sentence
<1>4. k = "said" => w # NoVoice  BY DEF IsClaim, k, w
<1> QED  BY <1>2, <1>3, <1>4 DEF IsClaim, Sentence, k, w, x, y

\* A name the evidence does not support is taken off a claim nobody said
LEMMA NamelessClaim ==
    ASSUME NEW c, IsClaim(c), c.kind # "said"
    PROVE  /\ IsClaim([c EXCEPT !.who = NoVoice])
           /\ [c EXCEPT !.who = NoVoice].kind = c.kind /\ [c EXCEPT !.who = NoVoice].who = NoVoice
           /\ [c EXCEPT !.who = NoVoice].cites = c.cites
<1> DEFINE k == c.kind
           w == c.who
           x == c.cites
<1>1. c = Sentence(k, w, x) /\ k # "said"  BY DEF IsClaim
<1> HIDE DEF k, w, x
<1>2. [c EXCEPT !.who = NoVoice] = Sentence(k, NoVoice, x)  BY <1>1 DEF Sentence
<1> QED  BY <1>1, <1>2 DEF IsClaim, Sentence, k, w, x

\* No draft sinks for a claim after the claims were sorted out
LEMMA SupportedIsValid ==
    ASSUME NEW claims, NEW snap, \A c \in claims : IsClaim(c)
    PROVE  Valid(Supported(claims, snap), snap)
<1> DEFINE cited == {OnlyFinalized(c, snap) : c \in claims}
           backed(c) == \E s \in c.cites : Backs(s, c, snap)
           stays == {c \in cited : c.cites # {} /\ (c.kind = "said" => backed(c))}
<1>1. \A c \in cited : IsClaim(c) /\ c.cites \subseteq Finalized(snap)
    BY OnlyFinalizedClaim
<1>2. SUFFICES ASSUME NEW c \in stays, NEW d,
                      d = IF c.who = NoVoice \/ backed(c) THEN c ELSE [c EXCEPT !.who = NoVoice]
               PROVE  /\ d.cites # {} /\ d.cites \subseteq Finalized(snap)
                      /\ d.who # NoVoice => \E s \in d.cites : Backs(s, d, snap)
    BY DEF Supported, Valid
<1>3. IsClaim(c) /\ c.cites # {} /\ c.cites \subseteq Finalized(snap) /\ (c.kind = "said" => backed(c))
    BY <1>1
<1>4. CASE c.who = NoVoice \/ backed(c)  BY <1>2, <1>3, <1>4
<1>5. CASE ~(c.who = NoVoice \/ backed(c))
    <2>1. d = [c EXCEPT !.who = NoVoice] /\ c.kind # "said"  BY <1>2, <1>3, <1>5
    <2> QED  BY <1>3, <2>1, NamelessClaim
<1> QED  BY <1>4, <1>5

\* Nothing that was supported is left out
LEMMA ValidIsSupported ==
    ASSUME NEW claims, NEW snap, NEW c \in claims, IsClaim(c), Valid({c}, snap)
    PROVE  c \in Supported(claims, snap)
<1> DEFINE k == c.kind
           w == c.who
           x == c.cites
           backed(d) == \E s \in d.cites : Backs(s, d, snap)
<1>1. c.cites # {} /\ c.cites \subseteq Finalized(snap) /\ (c.who # NoVoice => backed(c))  BY DEF Valid
<1>2. OnlyFinalized(c, snap) = c
    <2>1. x \cap Finalized(snap) = x  BY <1>1
    <2>2. c = Sentence(k, w, x)  BY DEF IsClaim
    <2>3. OnlyFinalized(c, snap) = [c EXCEPT !.cites = x]  BY <2>1 DEF OnlyFinalized
    <2> HIDE DEF k, w, x
    <2> QED  BY <2>2, <2>3 DEF Sentence
<1>3. c.kind = "said" => backed(c)  BY <1>1 DEF IsClaim
<1>4. c.who = NoVoice \/ backed(c)  BY <1>1
<1> QED  BY <1>1, <1>2, <1>3, <1>4 DEF Supported

\* Bringing citations back to ids changes neither what is claimed nor of whom
LEMMA NormalizedAreClaims ==
    ASSUME NEW claims, NEW snap, \A c \in claims : IsClaim(c)
    PROVE  \A c \in Normalized(claims, snap) : IsClaim(c)
<1> SUFFICES ASSUME NEW c \in claims
             PROVE  IsClaim([c EXCEPT !.cites = {Resolved(x, snap) : x \in c.cites}])
    BY DEF Normalized
<1> DEFINE k == c.kind
           w == c.who
           x == c.cites
           y == {Resolved(i, snap) : i \in x}
<1>1. c = Sentence(k, w, x) /\ (k = "said" => w # NoVoice)  BY DEF IsClaim
<1> HIDE DEF k, w, x, y
<1>2. [c EXCEPT !.cites = y] = Sentence(k, w, y)  BY <1>1 DEF Sentence
<1> QED  BY <1>1, <1>2 DEF IsClaim, Sentence, x, y

\* What the schema lets through are claims
LEMMA AnswersAreClaims ==
    ASSUME NEW d \in ModelDraft \cup Rewritten
    PROVE  \A c \in d : IsClaim(c)
BY EvidenceAssumption DEF Answer, IsClaim, Sentence

-----------------------------------------------------------------------------
(***************************************************************************)
(* The draft                                                               *)
(***************************************************************************)
Desk(d) == d = [pc |-> d.pc, snap |-> d.snap, rev |-> d.rev, at |-> d.at]
Draft(m) == m = [claims |-> m.claims, of |-> m.of, rev |-> m.rev, skewed |-> m.skewed, st |-> m.st]

\* A generation knows a transcript and a revision that were current once; while
\* the revision it began with is the current one, so are the words it knows
ReadOnce ==
    /\ transcriptRev \in Nat
    /\ Desk(composing)
    /\ composing.pc # "rest" => /\ composing.at \in Nat /\ composing.at <= transcriptRev
                                /\ composing.at = transcriptRev => composing.snap = Snapshot
    /\ composing.pc = "model" => composing.rev \in Nat /\ composing.rev <= transcriptRev

\* No draft is of a revision still to come
DraftedOnce == Draft(mom) /\ (mom.st # "none" => mom.rev \in Nat /\ mom.rev <= transcriptRev)

EvidenceInv == ReadOnce /\ DraftedOnce /\ MinutesAreGrounded

LEMMA EvidenceBegins == EvidenceInit => EvidenceInv
BY DEF EvidenceInit, EvidenceInv, ReadOnce, DraftedOnce, MinutesAreGrounded, Desk, Draft, AtDesk, NoMom

\* A stored draft stands, leaves nothing out that stands, and nobody who spoke
LEMMA SettledIsGrounded ==
    ASSUME EvidenceInv, NEW claims \in ModelDraft, SettleDraft(claims)
    PROVE  EvidenceInv'
<1> DEFINE snap == composing.snap
           cited == Normalized(claims, snap)
           kept == Supported(cited, snap)
<1>1. \A c \in cited : IsClaim(c)  BY AnswersAreClaims, NormalizedAreClaims
<1>2. Valid(kept, snap)  BY <1>1, SupportedIsValid
<1>3. /\ composing.pc = "model" /\ composing' = AtDesk
      /\ UNCHANGED <<segs, fixes, transcriptRev>> /\ sunk' = sunk
      /\ \/ mom' = mom
         \/ /\ EveryoneHeard(cited, snap) /\ transcriptRev = composing.rev
            /\ mom' = [claims |-> kept, of |-> cited, rev |-> composing.rev, skewed |-> composing.at # composing.rev,
                       st |-> "generated"]
    BY <1>2 DEF SettleDraft, StillCurrent
<1>4. ReadOnce'  BY <1>3 DEF EvidenceInv, ReadOnce, Desk, AtDesk
<1>5. Snapshot' = Snapshot /\ \A s \in Seg : Speaker(s)' = Speaker(s)  BY <1>3 DEF Snapshot, Speaker
<1>6. CASE mom' = mom
    <2>1. DraftedOnce'  BY <1>3, <1>6 DEF EvidenceInv, DraftedOnce
    <2>2. MinutesAreGrounded'  BY <1>3, <1>5, <1>6 DEF EvidenceInv, MinutesAreGrounded
    <2> QED  BY <1>4, <2>1, <2>2 DEF EvidenceInv
<1>7. CASE mom' # mom
    <2>1. /\ EveryoneHeard(cited, snap) /\ transcriptRev = composing.rev
          /\ mom' = [claims |-> kept, of |-> cited, rev |-> composing.rev, skewed |-> composing.at # composing.rev,
                     st |-> "generated"]
        BY <1>3, <1>7
    <2>2. DraftedOnce'  BY <1>3, <2>1 DEF EvidenceInv, ReadOnce, DraftedOnce, Draft
    <2> SUFFICES ASSUME ~mom'.skewed PROVE EvidenceInv'
        BY <1>3, <1>4, <2>1, <2>2 DEF EvidenceInv, MinutesAreGrounded
    <2>3. snap = Snapshot  BY <1>3, <2>1 DEF EvidenceInv, ReadOnce
    <2> HIDE DEF snap, cited, kept
    <2>4. Valid(mom'.claims, Snapshot')  BY <1>2, <1>5, <2>1, <2>3
    <2>5. \A c \in mom'.of : Valid({c}, Snapshot') => c \in mom'.claims
        BY <1>1, <1>5, <2>1, <2>3, ValidIsSupported DEF kept
    <2>6. ASSUME NEW s \in Seg, segs[s].done, segs[s].long, Speaker(s) # NoVoice
          PROVE  \E c \in cited : c.kind = "said" /\ c.who = Speaker(s)
        <3>1. s \in Finalized(snap) /\ snap[s].long /\ snap[s].speaker = Speaker(s)
            BY <2>3, <2>6 DEF Finalized, Snapshot
        <3>2. Speaker(s) \in Substantive(snap)  BY <2>6, <3>1 DEF Substantive
        <3> QED  BY <2>1, <3>2 DEF EveryoneHeard
    <2>7. ASSUME NEW s \in Seg, segs'[s].done, segs'[s].long, Speaker(s)' # NoVoice
          PROVE  \E c \in mom'.of : c.kind = "said" /\ c.who = Speaker(s)'
                                    /\ (c \in mom'.claims \/ ~Valid({c}, Snapshot'))
        <3>1. PICK c \in cited : c.kind = "said" /\ c.who = Speaker(s)  BY <1>3, <1>5, <2>6, <2>7
        <3> QED  BY <1>5, <2>1, <2>5, <3>1
    <2>8. ~sunk'  BY <1>3 DEF EvidenceInv, MinutesAreGrounded
    <2>9. MinutesAreGrounded'  BY <2>4, <2>5, <2>7, <2>8 DEF MinutesAreGrounded
    <2> QED  BY <1>4, <2>2, <2>9 DEF EvidenceInv
<1> QED  BY <1>6, <1>7

\* A change of the transcript makes every draft and every generation old
LEMMA ChangesAreGrounded ==
    ASSUME EvidenceInv, transcriptRev' = transcriptRev + 1, UNCHANGED <<composing, mom, sunk>>
    PROVE  EvidenceInv'
<1>1. ReadOnce'  BY DEF EvidenceInv, ReadOnce
<1>2. DraftedOnce'  BY DEF EvidenceInv, ReadOnce, DraftedOnce
<1>3. mom.st # "none" => mom'.rev # transcriptRev'
    BY DEF EvidenceInv, ReadOnce, DraftedOnce
<1>4. MinutesAreGrounded'  BY <1>3 DEF EvidenceInv, MinutesAreGrounded
<1> QED  BY <1>1, <1>2, <1>4 DEF EvidenceInv

\* Every action on the draft and its transcript keeps the invariant
LEMMA EvidenceInductive == EvidenceInv /\ [EvidenceNext]_evidenceVars => EvidenceInv'
<1> SUFFICES ASSUME EvidenceInv, [EvidenceNext]_evidenceVars PROVE EvidenceInv'  OBVIOUS
<1>1. ASSUME UNCHANGED <<segs, fixes, transcriptRev>>
      PROVE  Snapshot' = Snapshot /\ \A s : Speaker(s)' = Speaker(s)
    BY <1>1 DEF Snapshot, Speaker
<1>2. ASSUME UNCHANGED <<segs, fixes, transcriptRev, mom, sunk>>, ReadOnce' PROVE EvidenceInv'
    BY <1>1, <1>2 DEF EvidenceInv, DraftedOnce, MinutesAreGrounded
<1>3. CASE ReadTranscript
    <2>1. composing' = [pc |-> "read", snap |-> Snapshot, rev |-> 0, at |-> transcriptRev]
          /\ UNCHANGED <<segs, fixes, transcriptRev, mom, sunk>>
        BY <1>3 DEF ReadTranscript
    <2>2. ReadOnce'  BY <1>1, <2>1 DEF EvidenceInv, ReadOnce, Desk
    <2> QED  BY <1>2, <2>1, <2>2
<1>4. CASE AskModel
    <2>1. composing.pc = "read" /\ composing' = [composing EXCEPT !.pc = "model", !.rev = transcriptRev]
          /\ UNCHANGED <<segs, fixes, transcriptRev, mom, sunk>>
        BY <1>4 DEF AskModel
    <2>2. composing = [pc |-> composing.pc, snap |-> composing.snap, rev |-> composing.rev, at |-> composing.at]
        BY DEF EvidenceInv, ReadOnce, Desk
    <2>3. composing' = [pc |-> "model", snap |-> composing.snap, rev |-> transcriptRev, at |-> composing.at]
        BY <2>1, <2>2
    <2>5. /\ Desk(composing') /\ composing'.pc = "model" /\ composing'.snap = composing.snap
          /\ composing'.rev = transcriptRev /\ composing'.at = composing.at
        BY <2>3 DEF Desk
    <2>6. /\ transcriptRev \in Nat /\ composing.at \in Nat /\ composing.at <= transcriptRev
          /\ composing.at = transcriptRev => composing.snap = Snapshot
        BY <2>1 DEF EvidenceInv, ReadOnce
    <2>7. transcriptRev' = transcriptRev /\ Snapshot' = Snapshot  BY <1>1, <2>1
    <2>4. ReadOnce'  BY <2>5, <2>6, <2>7 DEF ReadOnce
    <2> QED  BY <1>2, <2>1, <2>4
<1>5. CASE ModelFails
    <2>1. ReadOnce'  BY <1>5 DEF ModelFails, EvidenceInv, ReadOnce, Desk, AtDesk
    <2> QED  BY <1>2, <1>5, <2>1 DEF ModelFails
<1>6. ASSUME NEW a \in ModelDraft, SettleDraft(a) PROVE EvidenceInv'
    BY <1>6, SettledIsGrounded
<1>7. ASSUME NEW e \in Rewritten, UpdateMom(e) PROVE EvidenceInv'
    <2>1. /\ mom.st # "none" /\ Valid(e, Snapshot) /\ mom' = [mom EXCEPT !.claims = e, !.of = e, !.st = "edited"]
          /\ UNCHANGED <<segs, fixes, transcriptRev, composing, sunk>>
        BY <1>7 DEF UpdateMom, MayEdit
    <2>2. mom = [claims |-> mom.claims, of |-> mom.of, rev |-> mom.rev, skewed |-> mom.skewed, st |-> mom.st]
        BY DEF EvidenceInv, DraftedOnce, Draft
    <2>3. mom' = [claims |-> e, of |-> e, rev |-> mom.rev, skewed |-> mom.skewed, st |-> "edited"]
        BY <2>1, <2>2
    <2>4. ReadOnce'  BY <1>1, <2>1 DEF EvidenceInv, ReadOnce
    <2>5. DraftedOnce'  BY <2>1, <2>3 DEF EvidenceInv, DraftedOnce, Draft
    <2>6. MinutesAreGrounded'  BY <1>1, <2>1, <2>3 DEF EvidenceInv, MinutesAreGrounded
    <2> QED  BY <2>4, <2>5, <2>6 DEF EvidenceInv
<1>8. ASSUME NEW s \in Seg, NEW n \in Voice \cup {NoVoice}, CorrectSpeaker(s, n) PROVE EvidenceInv'
    BY <1>8, ChangesAreGrounded DEF CorrectSpeaker
<1>9. ASSUME NEW t \in Transcript, ReplaceTranscript(t) PROVE EvidenceInv'
    BY <1>9, ChangesAreGrounded DEF ReplaceTranscript
<1>10. CASE UNCHANGED evidenceVars
    <2>1. UNCHANGED <<segs, fixes, transcriptRev, composing, mom, sunk>>  BY <1>10 DEF evidenceVars
    <2>2. ReadOnce'  BY <1>1, <2>1 DEF EvidenceInv, ReadOnce
    <2> QED  BY <1>2, <2>1, <2>2
<1> QED  BY <1>3, <1>4, <1>5, <1>6, <1>7, <1>8, <1>9, <1>10 DEF EvidenceNext

-----------------------------------------------------------------------------
(***************************************************************************)
(* Personal versions                                                       *)
(***************************************************************************)
Row(r)  == r = [status |-> r.status, content |-> r.content, source |-> r.source, visibility |-> r.visibility,
                revision |-> r.revision, token |-> r.token, old |-> r.old]
Texts   == texts \in Nat /\ row.revision \in Nat

\* A window that shows the revision of the row shows its text
WindowsAreTrue ==
    /\ shown = [w \in Window |-> shown[w]]
    /\ row.status # "removed" =>
          \A w \in Window : /\ shown[w].revision \in Nat /\ shown[w].revision <= row.revision
                            /\ shown[w].revision = row.revision => shown[w].content = row.content

\* An approved row holds the text that was on the screen
ApprovedAsShown == row.status = "approved" => row.content # 0 /\ row.content = approvedText

VersionInv == Row(row) /\ Texts /\ WindowsAreTrue /\ ApprovedAsShown

LEMMA VersionBegins == VersionInit => VersionInv
BY DEF VersionInit, VersionInv, Row, Texts, WindowsAreTrue, ApprovedAsShown, EmptyRow, Shown

\* A row whose revision goes up: the window that did it shows the row, the
\* others are behind
LEMMA AdvanceIsShown ==
    ASSUME VersionInv, NEW r, Row(r), NEW w \in Window, Advance(w, r), texts' \in Nat,
           row.status # "removed",
           r.status = "approved" => r.content # 0 /\ r.content = approvedText'
    PROVE  VersionInv'
<1>1. /\ row' = [r EXCEPT !.revision = row.revision + 1] /\ shown' = [shown EXCEPT ![w] = Shown(row')]
    BY DEF Advance
<1>2. row' = [status |-> r.status, content |-> r.content, source |-> r.source, visibility |-> r.visibility,
              revision |-> row.revision + 1, token |-> r.token, old |-> r.old]
    BY <1>1 DEF Row
<1>3. row.revision \in Nat /\ shown = [v \in Window |-> shown[v]]  BY DEF VersionInv, Texts, WindowsAreTrue
<1>4. Row(row') /\ Texts'  BY <1>2, <1>3 DEF Row, Texts
<1>5. ApprovedAsShown'  BY <1>2 DEF ApprovedAsShown
<1>6. WindowsAreTrue'
    <2>1. shown' = [v \in Window |-> shown'[v]] /\ shown'[w] = Shown(row')
          /\ \A v \in Window \ {w} : shown'[v] = shown[v]
        BY <1>1, <1>3
    <2>2. SUFFICES ASSUME row'.status # "removed", NEW v \in Window
                   PROVE  /\ shown'[v].revision \in Nat /\ shown'[v].revision <= row'.revision
                          /\ shown'[v].revision = row'.revision => shown'[v].content = row'.content
        BY <2>1 DEF WindowsAreTrue
    <2>3. CASE v = w  BY <1>2, <1>3, <2>1, <2>3 DEF Shown
    <2>4. CASE v # w
        BY <1>2, <1>3, <2>1, <2>4 DEF VersionInv, WindowsAreTrue
    <2> QED  BY <2>3, <2>4
<1> QED  BY <1>4, <1>5, <1>6 DEF VersionInv

\* The row keeps what it says and its revision: the windows show what they showed
LEMMA SameText ==
    ASSUME VersionInv, Row(row'), row'.status = row.status, row'.content = row.content,
           row'.revision = row.revision, UNCHANGED <<shown, texts, approvedText>>
    PROVE  VersionInv'
BY DEF VersionInv, Texts, WindowsAreTrue, ApprovedAsShown

\* A row that is gone is nobody's
LEMMA GoneIsGone ==
    ASSUME VersionInv, row' = [EmptyRow EXCEPT !.status = "removed", !.revision = row.revision],
           UNCHANGED <<shown, texts, approvedText>>
    PROVE  VersionInv'
<1>1. Row(row') /\ row'.status = "removed" /\ row'.revision = row.revision  BY DEF Row, EmptyRow
<1> QED  BY <1>1 DEF VersionInv, Texts, WindowsAreTrue, ApprovedAsShown

\* Every action on a version keeps the invariant
LEMMA VersionInductive == VersionInv /\ [VersionNext]_versionVars => VersionInv'
<1> SUFFICES ASSUME VersionInv, [VersionNext]_versionVars PROVE VersionInv'  OBVIOUS
<1>1. row = [status |-> row.status, content |-> row.content, source |-> row.source, visibility |-> row.visibility,
             revision |-> row.revision, token |-> row.token, old |-> row.old]
      /\ row.revision \in Nat /\ texts \in Nat
    BY DEF VersionInv, Row, Texts
<1>2. ASSUME NEW w \in Window, Editable(w)
      PROVE  row.status # "removed" /\ shown[w].content = row.content
    BY <1>2 DEF Editable, VersionInv, WindowsAreTrue
<1>3. ASSUME NEW w \in Window, Refresh(w) PROVE VersionInv'
    <2>1. /\ row.status # "removed" /\ shown' = [shown EXCEPT ![w] = Shown(row)]
          /\ UNCHANGED <<row, texts, approvedText>>
        BY <1>3 DEF Refresh
    <2>2. shown' = [v \in Window |-> shown'[v]] /\ shown'[w] = Shown(row)
          /\ \A v \in Window \ {w} : shown'[v] = shown[v]
        BY <2>1 DEF VersionInv, WindowsAreTrue
    <2>3. WindowsAreTrue'  BY <1>1, <2>1, <2>2 DEF VersionInv, WindowsAreTrue, Shown
    <2> QED  BY <2>1, <2>3 DEF VersionInv, Texts, ApprovedAsShown
<1>4. ASSUME NEW w \in Window, EditText(w) PROVE VersionInv'
    <2> PICK r : r = [row EXCEPT !.content = texts + 1, !.status = "draft", !.token = NoToken, !.old = FALSE]  OBVIOUS
    <2>1. Editable(w) /\ texts' = texts + 1 /\ Advance(w, r)  BY <1>4 DEF EditText
    <2>2. r = [status |-> "draft", content |-> texts + 1, source |-> row.source, visibility |-> row.visibility,
               revision |-> row.revision, token |-> NoToken, old |-> FALSE]
        BY <1>1
    <2>3. Row(r) /\ r.status = "draft"  BY <2>2 DEF Row
    <2>4. texts' \in Nat /\ row.status # "removed" /\ r.status # "approved"  BY <1>1, <1>2, <2>1, <2>3
    <2> QED  BY <2>1, <2>3, <2>4, AdvanceIsShown
<1>5. ASSUME NEW w \in Window, EditGuidance(w) PROVE VersionInv'
    <2> DEFINE st == IF row.content # 0 THEN "draft" ELSE "empty"
    <2> PICK r : r = [row EXCEPT !.status = st, !.token = NoToken, !.old = FALSE]  OBVIOUS
    <2>1. Editable(w) /\ texts' = texts /\ Advance(w, r)  BY <1>5 DEF EditGuidance
    <2>2. r = [status |-> st, content |-> row.content, source |-> row.source, visibility |-> row.visibility,
               revision |-> row.revision, token |-> NoToken, old |-> FALSE]
        BY <1>1
    <2>3. Row(r) /\ r.status # "approved"  BY <2>2 DEF Row
    <2> QED  BY <1>1, <1>2, <2>1, <2>3, AdvanceIsShown
<1>6. ASSUME NEW w \in Window, Generate(w) PROVE VersionInv'
    <2> PICK r : r = [row EXCEPT !.token = row.revision + 1, !.old = FALSE]  OBVIOUS
    <2>1. Editable(w) /\ texts' = texts /\ approvedText' = approvedText /\ Advance(w, r)  BY <1>6 DEF Generate
    <2>2. r = [status |-> row.status, content |-> row.content, source |-> row.source, visibility |-> row.visibility,
               revision |-> row.revision, token |-> row.revision + 1, old |-> FALSE]
        BY <1>1
    <2>3. Row(r) /\ r.status = row.status /\ r.content = row.content  BY <2>2 DEF Row
    <2>4. r.status = "approved" => r.content # 0 /\ r.content = approvedText'
        BY <2>1, <2>3 DEF VersionInv, ApprovedAsShown
    <2> QED  BY <1>1, <1>2, <2>1, <2>3, <2>4, AdvanceIsShown
<1>7. ASSUME NEW w \in Window, ApproveVersion(w) PROVE VersionInv'
    <2> PICK r : r = [row EXCEPT !.status = "approved"]  OBVIOUS
    <2>1. Editable(w) /\ texts' = texts /\ approvedText' = shown[w].content /\ row.content # 0 /\ Advance(w, r)
        BY <1>7 DEF ApproveVersion
    <2>2. r = [status |-> "approved", content |-> row.content, source |-> row.source, visibility |-> row.visibility,
               revision |-> row.revision, token |-> row.token, old |-> row.old]
        BY <1>1
    <2>3. Row(r) /\ r.content = row.content  BY <2>2 DEF Row
    <2>4. r.content # 0 /\ r.content = approvedText'  BY <1>2, <2>1, <2>3
    <2> QED  BY <1>1, <1>2, <2>1, <2>3, <2>4, AdvanceIsShown
<1>8. ASSUME NEW w \in Window, NEW vis, NEW people, Share(w, vis, people) PROVE VersionInv'
    <2> PICK r : r = [row EXCEPT !.visibility = vis]  OBVIOUS
    <2>1. Editable(w) /\ texts' = texts /\ approvedText' = approvedText /\ Advance(w, r)  BY <1>8 DEF Share
    <2>2. r = [status |-> row.status, content |-> row.content, source |-> row.source, visibility |-> vis,
               revision |-> row.revision, token |-> row.token, old |-> row.old]
        BY <1>1
    <2>3. Row(r) /\ r.status = row.status /\ r.content = row.content  BY <2>2 DEF Row
    <2>4. r.status = "approved" => r.content # 0 /\ r.content = approvedText'
        BY <2>1, <2>3 DEF VersionInv, ApprovedAsShown
    <2> QED  BY <1>1, <1>2, <2>1, <2>3, <2>4, AdvanceIsShown
<1>9. ASSUME NEW w \in Window, RemoveVersion(w) PROVE VersionInv'
    BY <1>9, GoneIsGone DEF RemoveVersion
<1>10. ASSUME NEW g, StoreDraft(g) PROVE VersionInv'
    <2>1. /\ row.status # "removed" /\ texts' = texts + 1 /\ UNCHANGED <<shown, approvedText>>
          /\ row' = [row EXCEPT !.content = texts + 1, !.source = g.source, !.status = "draft",
                                !.token = NoToken, !.old = FALSE, !.revision = @ + 1]
        BY <1>10 DEF StoreDraft
    <2>2. row' = [status |-> "draft", content |-> texts + 1, source |-> g.source, visibility |-> row.visibility,
                  revision |-> row.revision + 1, token |-> NoToken, old |-> FALSE]
        BY <1>1, <2>1
    <2>5. row'.status = "draft" /\ row'.revision = row.revision + 1  BY <2>2
    <2>6. Row(row')  BY <2>2 DEF Row
    <2>3. Texts' /\ ApprovedAsShown'  BY <1>1, <2>1, <2>5 DEF Texts, ApprovedAsShown
    <2>4. WindowsAreTrue'  BY <1>1, <2>1, <2>2 DEF VersionInv, WindowsAreTrue
    <2> QED  BY <2>3, <2>4, <2>6 DEF VersionInv
<1>11. ASSUME row' \in {row, [row EXCEPT !.token = NoToken, !.old = FALSE], [row EXCEPT !.old = TRUE]},
              UNCHANGED <<shown, texts, approvedText>>
       PROVE  VersionInv'
    <2>1. PICK t, o : row' = [status |-> row.status, content |-> row.content, source |-> row.source,
                              visibility |-> row.visibility, revision |-> row.revision, token |-> t, old |-> o]
        BY <1>1, <1>11
    <2> QED  BY <1>11, <2>1, SameText DEF Row
<1>12. ASSUME NEW g, DropDraft(g) \/ LoseDraft(g) PROVE VersionInv'
    BY <1>11, <1>12 DEF DropDraft, ReleaseToken, LoseDraft
<1>13. CASE FifteenMinutes  BY <1>11, <1>13 DEF FifteenMinutes
<1>14. CASE TranscriptChanges  BY <1>11, <1>14 DEF TranscriptChanges
<1>15. CASE MeetingDeleted  BY <1>15, GoneIsGone DEF MeetingDeleted
<1>16. ASSUME NEW p, MoveMember(p) PROVE VersionInv'  BY <1>11, <1>16 DEF MoveMember
<1>17. CASE UNCHANGED versionVars  BY <1>11, <1>17 DEF versionVars
<1> QED  BY <1>3, <1>4, <1>5, <1>6, <1>7, <1>8, <1>9, <1>10, <1>12, <1>13, <1>14, <1>15, <1>16, <1>17 DEF VersionNext

LEMMA VersionIsReviewed == VersionInv => SharedIsReviewed
BY DEF VersionInv, ApprovedAsShown, SharedIsReviewed, Readable

-----------------------------------------------------------------------------
(***************************************************************************)
(* Theorems                                                                *)
(***************************************************************************)

\* Minutes that may be approved rest on the transcript as it is now: whatever
\* the model answers, whatever is corrected under a generation and whatever a
\* person writes into the draft (generate_draft, update, correct_speaker)
THEOREM ClaimsRestOnWords == EvidenceSpec => []MinutesAreGrounded
<1>1. EvidenceInv => MinutesAreGrounded  BY DEF EvidenceInv
<1> QED  BY <1>1, EvidenceBegins, EvidenceInductive, PTL DEF EvidenceSpec

\* What a teammate reads of a personal version is the text its creator saw when
\* approving it, whatever other windows and generations did in between
\* (minutes_versions.py: _editable, generate, approve, _readable)
THEOREM VersionsAreReviewed == VersionSpec => []SharedIsReviewed
BY VersionBegins, VersionInductive, VersionIsReviewed, PTL DEF VersionSpec

\* Both, as the run checks them side by side
THEOREM MinutesSound == EnrolmentSpec => []MinutesAreSound
<1>1. EnrolmentInit => EvidenceInv /\ VersionInv  BY EvidenceBegins, VersionBegins DEF EnrolmentInit
<1>2. [EnrolmentNext]_enrolmentVars => [EvidenceNext]_evidenceVars /\ [VersionNext]_versionVars
    BY DEF EnrolmentNext, MinutesAlone, RulesAlone, ClaimsAlone, VersionsAlone, enrolmentVars
<1>3. EvidenceInv /\ VersionInv /\ [EnrolmentNext]_enrolmentVars => (EvidenceInv /\ VersionInv)'
    BY <1>2, EvidenceInductive, VersionInductive
<1>4. EvidenceInv /\ VersionInv => MinutesAreSound
    BY VersionIsReviewed DEF EvidenceInv, MinutesAreSound
<1> QED  BY <1>1, <1>3, <1>4, PTL DEF EnrolmentSpec

-----------------------------------------------------------------------------
(***************************************************************************)
(* The rules.  A call is claimed once, for the calendar that came first.    *)
(* What an owner had listed when a rule for new events was turned on is     *)
(* noted in every calendar the rule has looked at: a scan of one it has not *)
(* looked at notes all it finds and claims nothing, and a scan that began   *)
(* before the rule was saved ends what is known of it.  An assistant goes   *)
(* in with the last answer, unless the rule was saved or the call skipped   *)
(* since.                                                                   *)
(***************************************************************************)
Meet  == {"none", "made", "pending", "joining", "joined", "cancelled", "missed", "failed"}
Taken == {"claimed", "scheduled", "failed"}
Enrolling == {"claimed", "made", "scheduled"}
Scan  == [pc : {"idle", "asked", "turns", "looks", "judged", "claimed", "made", "scheduled"},
          who : Owner \cup {Nobody}, rule : RuleRow, todo : SUBSET Feed, cut : SUBSET Feed, feed : Feed \cup {Nobody},
          left : SUBSET Occasion, count : 0 .. MaxPerScan, call : Occasion \cup {0}, reason : BOOLEAN,
          answer : [Feed -> SUBSET Occasion]]
Join  == [pc : {"idle", "first", "claims", "second", "joins"}, of : Entry \cup {Nobody}, ok : BOOLEAN, late : BOOLEAN]
Own(p) == {f \in Feed : FeedOwner[f] = p}

RulesTypes ==
    /\ listed \in [Feed -> SUBSET Occasion] /\ begun \subseteq Occasion /\ byHand \subseteq Occasion
    /\ rules \in [Owner -> RuleRow] /\ lease \in [Owner -> Scanner \cup {Nobody}]
    /\ before \in [Owner -> SUBSET Occasion]
    /\ pausing \in [Owner -> [due : BOOLEAN, feeds : SUBSET Feed]]
    /\ scans \in [Scanner -> Scan] /\ joiner \in Join
    /\ found \in [Entry -> Occurrence] /\ meets \in [Entry -> Meet] /\ skipped \subseteq Entry
    /\ turns \in 0 .. MaxTurns

\* An assistant is there only where the occurrence was claimed, and a call is claimed once
ClaimedFirst == \A e \in Entry : meets[e] # "none" => found[e] \in Taken
ClaimedOnce  == \A f, g \in Feed, c \in Occasion : found[f, c] \in Taken /\ found[g, c] \in Taken => f = g

\* What a rule for new events found when it was turned on is listed in every calendar of its
\* owner, and noted in every calendar that has been looked at
OldIsListed ==
    \A p \in Owner : /\ rules[p].feeds \cup rules[p].base \subseteq Own(p)
                     /\ before[p] # {} => rules[p].newOnly
                     /\ \A f \in Own(p) : before[p] \subseteq listed[f]
OldIsNoted == \A p \in Owner : \A f \in rules[p].base : \A c \in before[p] : found[f, c] # "none"

\* A scan is of calendars of its owner, by a rule that has not been saved since, if it matters
ScanIsOfRule(r) ==
    /\ r.who \in Owner /\ r.todo \subseteq r.rule.feeds /\ r.rule.feeds \subseteq Own(r.who)
    /\ before[r.who] # {} => r.rule.newOnly /\ r.rule.base \subseteq rules[r.who].base
    /\ \A f \in r.todo \ r.cut : before[r.who] \subseteq r.answer[f]
Defines(r) == r.rule.newOnly /\ r.feed \notin r.rule.base

\* What it has still to look at, and what it enrols
ScanIsSound(r) ==
    r.pc # "idle" =>
        /\ ScanIsOfRule(r)
        /\ r.pc \notin {"asked", "turns"} => r.feed \in Own(r.who)
        /\ r.pc = "looks" /\ Defines(r) => \A c \in before[r.who] : c \in r.left \/ found[r.feed, c] # "none"
        /\ r.pc = "judged" =>
               /\ r.call \in Occasion
               /\ Defines(r) => /\ r.reason
                                /\ \A c \in before[r.who] : c \in r.left \/ c = r.call \/ found[r.feed, c] # "none"
               /\ ~r.reason => r.count < MaxPerScan
        /\ r.pc \in Enrolling => /\ r.call \in Occasion \ before[r.who] /\ found[r.feed, r.call] \in Taken
                                 /\ r.count < MaxPerScan /\ ~Defines(r)
ScansAreSound == \A s \in Scanner : ScanIsSound(scans[s])

JoinIsSound ==
    /\ joiner.pc # "idle" => joiner.of \in Entry /\ meets[joiner.of] # "none"
    /\ joiner.pc = "joins" => joiner.late \/ Allowed(joiner.of)

RulesInv ==
    /\ RulesTypes /\ ClaimedFirst /\ ClaimedOnce /\ OldIsListed /\ OldIsNoted /\ OnlyWhatIsNew
    /\ ScansAreSound /\ JoinIsSound

USE RulesAssumption DEF RulesAssumption

-----------------------------------------------------------------------------
\* The first of some occasions
LEMMA FirstOccasion ==
    ASSUME NEW T, T \subseteq Occasion, T # {}
    PROVE  \E c \in T : \A d \in T : c <= d
<1>1. IsWellFoundedOn(OpToRel(<, Nat), Nat)  BY NatLessThanWellFounded
<1>2. T \subseteq Nat  OBVIOUS
<1>3. PICK c \in T : \A d \in T : ~(<<d, c>> \in OpToRel(<, Nat))  BY <1>1, <1>2, WFMin
<1>4. \A d \in T : ~(d < c)  BY <1>2, <1>3 DEF OpToRel
<1> QED  BY <1>2, <1>4

LEMMA RulesBegun == RulesInit => RulesInv
<1> SUFFICES ASSUME RulesInit PROVE RulesInv  OBVIOUS
<1> DEFINE first == CHOOSE c \in Occasion : \A d \in Occasion : c <= d
<1>1. first \in Occasion  BY FirstOccasion
<1> HIDE DEF first
<1>2. listed = [f \in Feed |-> {first}]  BY DEF RulesInit, first
<1>3. \A p \in Owner : rules[p] \in RuleRow /\ rules[p].base = {}
                       /\ (rules[p].feeds = {} \/ rules[p].feeds = Own(p))
    BY DEF RulesInit, RuleRow, NoRule, Own
<1>4. rules \in [Owner -> RuleRow]  BY <1>3 DEF RulesInit
<1>5. \A p \in Owner : before[p] \subseteq {first} /\ (before[p] # {} => rules[p].newOnly)
    <2> TAKE p \in Owner
    <2>1. before[p] = IF rules[p].newOnly THEN UNION {listed[f] : f \in rules[p].feeds} ELSE {}  BY DEF RulesInit
    <2>2. rules[p].feeds \subseteq Feed  BY <1>3 DEF Own
    <2>3. \A f \in rules[p].feeds : listed[f] = {first}  BY <1>2, <2>2
    <2> QED  BY <2>1, <2>3
<1>6. NoRule \in RuleRow  BY DEF NoRule, RuleRow
<1>7. NoScan \in Scan  BY <1>6 DEF NoScan, Scan
<1>8. RulesTypes
    <2>1. before \in [Owner -> SUBSET Occasion]  BY <1>1, <1>5 DEF RulesInit
    <2>2. listed \in [Feed -> SUBSET Occasion]  BY <1>1, <1>2
    <2>3. joiner \in Join  BY DEF RulesInit, NoJoiner, Join
    <2>4. found \in [Entry -> Occurrence] /\ meets \in [Entry -> Meet]  BY DEF RulesInit, Occurrence, Meet
    <2> QED  BY <1>4, <1>7, <2>1, <2>2, <2>3, <2>4 DEF RulesInit, RulesTypes, Settled
<1>9. ClaimedFirst /\ ClaimedOnce /\ OnlyWhatIsNew
    BY DEF RulesInit, ClaimedFirst, ClaimedOnce, OnlyWhatIsNew, Taken, Entry
<1>10. OldIsListed  BY <1>2, <1>3, <1>5 DEF OldIsListed, Own
<1>11. OldIsNoted  BY <1>3 DEF OldIsNoted
<1>12. ScansAreSound /\ JoinIsSound
    BY DEF RulesInit, ScansAreSound, ScanIsSound, NoScan, JoinIsSound, NoJoiner
<1> QED  BY <1>8, <1>9, <1>10, <1>11, <1>12 DEF RulesInv

-----------------------------------------------------------------------------
(***************************************************************************)
(* What a step leaves as it is                                             *)
(***************************************************************************)
\* What was noted stays noted, and what was claimed claimed
NotesLast == \A e \in Entry : /\ found[e] # "none" => found'[e] # "none"
                              /\ found[e] \in Taken => found'[e] \in Taken

\* A rule is not saved under a scan, or what it found does not count
RuleLasts(p) == before'[p] = {} \/ (before'[p] = before[p] /\ rules[p].base \subseteq rules'[p].base)

LEMMA ScanLasts ==
    ASSUME NEW r \in Scan, ScanIsSound(r), NotesLast, r.pc # "idle" => RuleLasts(r.who),
           before \in [Owner -> SUBSET Occasion]
    PROVE  ScanIsSound(r)'
<1> SUFFICES ASSUME r.pc # "idle" PROVE ScanIsSound(r)'  BY DEF ScanIsSound
<1>1. r.who \in Owner /\ RuleLasts(r.who)  BY DEF ScanIsSound, ScanIsOfRule
<1>2. before'[r.who] \subseteq before[r.who] /\ before[r.who] \subseteq Occasion  BY <1>1 DEF RuleLasts
<1>3. ScanIsOfRule(r)'  BY <1>1, <1>2 DEF ScanIsSound, ScanIsOfRule, RuleLasts
<1>4. \A f \in Feed, c \in Occasion : /\ found[f, c] # "none" => found'[f, c] # "none"
                                      /\ found[f, c] \in Taken => found'[f, c] \in Taken
    BY DEF NotesLast, Entry
<1>5. r.pc \notin {"asked", "turns"} => r.feed \in Feed /\ r.feed \in Own(r.who)
    BY DEF ScanIsSound, Own
<1>6. ASSUME r.pc \in {"looks", "judged"}, Defines(r), NEW c \in before'[r.who], found[r.feed, c] # "none"
      PROVE  found'[r.feed, c] # "none"
    BY <1>2, <1>4, <1>5, <1>6
<1>7. r.pc = "looks" /\ Defines(r) => \A c \in before'[r.who] : c \in r.left \/ found'[r.feed, c] # "none"
    BY <1>2, <1>6 DEF ScanIsSound
<1>8. r.pc = "judged" =>
          /\ r.call \in Occasion
          /\ Defines(r) => /\ r.reason
                           /\ \A c \in before'[r.who] : c \in r.left \/ c = r.call \/ found'[r.feed, c] # "none"
          /\ ~r.reason => r.count < MaxPerScan
    BY <1>2, <1>6 DEF ScanIsSound
<1>9. r.pc \in Enrolling => /\ r.call \in Occasion \ before'[r.who] /\ found'[r.feed, r.call] \in Taken
                            /\ r.count < MaxPerScan /\ ~Defines(r)
    <2> SUFFICES ASSUME r.pc \in Enrolling
                 PROVE  /\ r.call \in Occasion \ before'[r.who] /\ found'[r.feed, r.call] \in Taken
                        /\ r.count < MaxPerScan /\ ~Defines(r)
        OBVIOUS
    <2>1. r.call \in Occasion \ before[r.who] /\ found[r.feed, r.call] \in Taken /\ r.count < MaxPerScan /\ ~Defines(r)
        BY DEF ScanIsSound
    <2>2. r.feed \in Feed  BY <1>5 DEF Enrolling
    <2> QED  BY <1>2, <1>4, <2>1, <2>2
<1>10. Defines(r)' = Defines(r)  BY DEF Defines
<1> QED  BY <1>3, <1>5, <1>7, <1>8, <1>9, <1>10 DEF ScanIsSound

\* One scan moves on
LEMMA ScansLast ==
    ASSUME RulesTypes, ScansAreSound, NotesLast, \A p \in Owner : RuleLasts(p),
           NEW s \in Scanner, NEW r \in Scan, scans' = [scans EXCEPT ![s] = r], ScanIsSound(r)'
    PROVE  ScansAreSound'
<1> SUFFICES ASSUME NEW u \in Scanner PROVE ScanIsSound(scans[u])'  BY DEF ScansAreSound
<1>1. PICK old : old = scans[u]  OBVIOUS
<1>2. old \in Scan /\ ScanIsSound(old)  BY <1>1 DEF RulesTypes, ScansAreSound
<1>3. old.pc # "idle" => RuleLasts(old.who)  BY <1>2 DEF ScanIsSound, ScanIsOfRule
<1>4. ScanIsSound(old)'  BY <1>2, <1>3, ScanLasts DEF RulesTypes
<1>5. scans'[u] = old \/ scans'[u] = r  BY <1>1 DEF RulesTypes
<1>6. CASE scans'[u] = old  BY <1>4, <1>6 DEF ScanIsSound, ScanIsOfRule, Defines
<1>7. CASE scans'[u] = r  BY <1>7 DEF ScanIsSound, ScanIsOfRule, Defines
<1> QED  BY <1>5, <1>6, <1>7

\* A step of a scan: what it notes and makes is claimed, and not of the calls there were before
LEMMA ScanMoves ==
    ASSUME RulesInv, NEW s \in Scanner, NEW r \in Scan, scans' = [scans EXCEPT ![s] = r], ScanIsSound(r)',
           UNCHANGED UnmovedByScans, lease' \in [Owner -> Scanner \cup {Nobody}], turns' \in 0 .. MaxTurns,
           found' \in [Entry -> Occurrence], meets' \in [Entry -> Meet], NotesLast, ClaimedOnce',
           \A e \in Entry : /\ meets[e] # "none" => meets'[e] # "none"
                            /\ meets'[e] # "none" => \/ meets[e] # "none"
                                                     \/ found'[e] \in Taken /\ e[2] \notin before[FeedOwner[e[1]]]
    PROVE  RulesInv'
<1>1. /\ listed' = listed /\ begun' = begun /\ rules' = rules /\ pausing' = pausing /\ skipped' = skipped
      /\ byHand' = byHand /\ joiner' = joiner /\ before' = before
    BY DEF UnmovedByScans
<1>2. RulesTypes'  BY <1>1 DEF RulesInv, RulesTypes
<1>3. ClaimedFirst'  BY DEF RulesInv, ClaimedFirst, NotesLast
<1>4. OldIsListed'  BY <1>1 DEF RulesInv, OldIsListed
<1>5. OldIsNoted'
    <2> SUFFICES ASSUME NEW p \in Owner, NEW f \in rules[p].base, NEW c \in before[p] PROVE found'[f, c] # "none"
        BY <1>1 DEF OldIsNoted
    <2>1. found[f, c] # "none"  BY DEF RulesInv, OldIsNoted
    <2>2. f \in Feed /\ c \in Occasion  BY DEF RulesInv, OldIsListed, Own, RulesTypes
    <2> QED  BY <2>1, <2>2 DEF NotesLast, Entry
<1>6. OnlyWhatIsNew'
    <2> SUFFICES ASSUME NEW f \in Feed, NEW c \in Occasion, c \in before[FeedOwner[f]] PROVE meets'[f, c] = "none"
        BY <1>1 DEF OnlyWhatIsNew
    <2>1. meets[f, c] = "none"  BY DEF RulesInv, OnlyWhatIsNew
    <2>2. PICK e \in Entry : e = <<f, c>>  BY DEF Entry
    <2>3. e[1] = f /\ e[2] = c  BY <2>2
    <2> QED  BY <2>1, <2>2, <2>3
<1>7. ScansAreSound'  BY <1>1, ScansLast DEF RulesInv, RuleLasts
<1>8. JoinIsSound'  BY <1>1 DEF RulesInv, JoinIsSound, Allowed
<1> QED  BY <1>2, <1>3, <1>4, <1>5, <1>6, <1>7, <1>8 DEF RulesInv

\* What people, calendars and the scheduler do leaves rules, scans and notes alone
LEMMA OthersMove ==
    ASSUME RulesInv, UNCHANGED <<rules, scans, found, before>>, lease' \in [Owner -> Scanner \cup {Nobody}],
           pausing' \in [Owner -> [due : BOOLEAN, feeds : SUBSET Feed]], turns' \in 0 .. MaxTurns,
           listed' \in [Feed -> SUBSET Occasion], \A f \in Feed : listed[f] \subseteq listed'[f],
           begun' \subseteq Occasion, byHand' \subseteq Occasion, skipped' \subseteq Entry,
           meets' \in [Entry -> Meet], \A e \in Entry : meets'[e] = "none" <=> meets[e] = "none",
           joiner' \in Join, JoinIsSound'
    PROVE  RulesInv'
<1>1. RulesTypes'  BY DEF RulesInv, RulesTypes
<1>2. ClaimedFirst' /\ ClaimedOnce'  BY DEF RulesInv, ClaimedFirst, ClaimedOnce
<1>3. OldIsListed'  BY DEF RulesInv, OldIsListed, Own
<1>4. OldIsNoted'  BY DEF RulesInv, OldIsNoted
<1>5. OnlyWhatIsNew'  BY DEF RulesInv, OnlyWhatIsNew, Entry
<1>6. ScansAreSound'
    <2> SUFFICES ASSUME NEW u \in Scanner PROVE ScanIsSound(scans[u])'  BY DEF ScansAreSound
    <2>1. PICK old : old = scans[u]  OBVIOUS
    <2>2. old \in Scan /\ ScanIsSound(old)  BY <2>1 DEF RulesInv, RulesTypes, ScansAreSound
    <2>3. old.pc # "idle" => RuleLasts(old.who)  BY DEF RuleLasts
    <2>4. ScanIsSound(old)'  BY <2>2, <2>3, ScanLasts DEF RulesInv, RulesTypes, NotesLast
    <2>5. scans'[u] = old  BY <2>1
    <2> QED  BY <2>4, <2>5 DEF ScanIsSound, ScanIsOfRule, Defines
<1> QED  BY <1>1, <1>2, <1>3, <1>4, <1>5, <1>6 DEF RulesInv

-----------------------------------------------------------------------------
(***************************************************************************)
(* Scans                                                                   *)
(***************************************************************************)
LEMMA TurnsStay == ASSUME RulesInv, Turn \/ turns' = turns PROVE turns' \in 0 .. MaxTurns
BY DEF RulesInv, RulesTypes, Turn

LEMMA NoScanIsSound == NoScan \in Scan /\ ScanIsSound(NoScan)
<1>1. NoRule \in RuleRow  BY DEF NoRule, RuleRow
<1>2. NoScan \in Scan /\ NoScan.pc = "idle"  BY <1>1 DEF NoScan, Scan
<1> QED  BY <1>2 DEF ScanIsSound

\* A scan that only looks
LEMMA ScanOnlyMoves ==
    ASSUME RulesInv, NEW s \in Scanner, NEW r \in Scan, scans' = [scans EXCEPT ![s] = r], ScanIsSound(r),
           UNCHANGED <<UnmovedByScans, found, meets>>, lease' \in [Owner -> Scanner \cup {Nobody}],
           Turn \/ turns' = turns
    PROVE  RulesInv'
<1>1. turns' \in 0 .. MaxTurns  BY TurnsStay
<1>2. NotesLast  BY DEF NotesLast
<1>3. ClaimedOnce'  BY DEF RulesInv, ClaimedOnce
<1>4. ScanIsSound(r)'
    BY DEF ScanIsSound, ScanIsOfRule, Defines, UnmovedByScans
<1> QED  BY <1>1, <1>2, <1>3, <1>4, ScanMoves DEF RulesInv, RulesTypes, UnmovedByScans

LEMMA ScanBeginsKeeps == ASSUME RulesInv, NEW s \in Scanner, NEW p \in Owner, ScanBegins(s, p) PROVE RulesInv'
<1>1. PICK r : r = [NoScan EXCEPT !.pc = "asked", !.who = p, !.rule = rules[p]]  OBVIOUS
<1>2. rules[p] \in RuleRow  BY DEF RulesInv, RulesTypes
<1>3. r \in Scan /\ r.pc = "asked" /\ r.who = p /\ r.rule = rules[p] /\ r.todo = {}
    BY <1>1, <1>2, NoScanIsSound DEF NoScan, Scan
<1>4. ScanIsSound(r)  BY <1>3 DEF ScanIsSound, ScanIsOfRule, RulesInv, OldIsListed, Enrolling
<1>5. lease' \in [Owner -> Scanner \cup {Nobody}]  BY DEF ScanBegins, RulesInv, RulesTypes
<1> QED  BY <1>1, <1>3, <1>4, <1>5, ScanOnlyMoves DEF ScanBegins, UnmovedByScans

LEMMA EndsKeeps ==
    ASSUME RulesInv, NEW s \in Scanner, Ends(s), UNCHANGED <<UnmovedByScans, found, meets>>, Turn \/ turns' = turns
    PROVE  RulesInv'
<1>1. lease' \in [Owner -> Scanner \cup {Nobody}]  BY DEF Ends, RulesInv, RulesTypes
<1> QED  BY <1>1, NoScanIsSound, ScanOnlyMoves DEF Ends

\* The scan a step begins with
LEMMA ScanIsThere ==
    ASSUME RulesInv, NEW s \in Scanner, scans[s].pc # "idle"
    PROVE  \E q \in Scan : /\ q = scans[s] /\ ScanIsSound(q) /\ q.pc # "idle" /\ ScanIsOfRule(q) /\ q.who \in Owner
                           /\ q.rule \in RuleRow /\ q.todo \subseteq Feed
BY DEF RulesInv, RulesTypes, ScansAreSound, ScanIsSound, ScanIsOfRule, Scan

LEMMA ScanHearsKeeps == ASSUME RulesInv, NEW s \in Scanner, ScanHears(s) PROVE RulesInv'
<1>1. scans[s].pc = "asked"  BY DEF ScanHears
<1>2. PICK q \in Scan : /\ q = scans[s] /\ ScanIsSound(q) /\ ScanIsOfRule(q) /\ q.who \in Owner
                        /\ q.rule \in RuleRow /\ q.todo \subseteq Feed
    BY <1>1, ScanIsThere
<1>3. PICK cut \in SUBSET q.rule.feeds, part \in SUBSET Occasion :
          /\ IF cut # {} THEN Turn ELSE UNCHANGED turns
          /\ scans' = [scans EXCEPT ![s].pc = "turns", ![s].cut = cut, ![s].todo = scans[s].rule.feeds,
                 ![s].answer = [f \in Feed |-> IF f \in cut THEN listed[f] \cap part ELSE listed[f]]]
    BY <1>2 DEF ScanHears
<1> DEFINE heard == [f \in Feed |-> IF f \in cut THEN listed[f] \cap part ELSE listed[f]]
<1>4. heard \in [Feed -> SUBSET Occasion] /\ \A f \in Feed \ cut : heard[f] = listed[f]
    BY DEF RulesInv, RulesTypes
<1>5. PICK r : r = [q EXCEPT !.pc = "turns", !.cut = cut, !.todo = q.rule.feeds, !.answer = heard]  OBVIOUS
<1>6. scans' = [scans EXCEPT ![s] = r]  BY <1>2, <1>3, <1>5
<1>7. q.rule.feeds \subseteq Feed  BY <1>2 DEF ScanIsOfRule, Own
<1> HIDE DEF heard
<1>8. /\ r \in Scan /\ r.pc = "turns" /\ r.who = q.who /\ r.rule = q.rule /\ r.todo = q.rule.feeds /\ r.cut = cut
      /\ r.answer = heard
    BY <1>4, <1>5, <1>7 DEF Scan
<1>9. \A f \in r.todo \ r.cut : before[r.who] \subseteq r.answer[f]
    BY <1>2, <1>4, <1>8 DEF RulesInv, OldIsListed, ScanIsOfRule, Own
<1>10. ScanIsSound(r)  BY <1>2, <1>8, <1>9 DEF ScanIsSound, ScanIsOfRule, Enrolling
<1>11. UNCHANGED <<UnmovedByScans, found, meets>> /\ lease' = lease /\ (Turn \/ turns' = turns)
    BY <1>3 DEF ScanHears
<1> QED  BY <1>6, <1>8, <1>10, <1>11, ScanOnlyMoves DEF RulesInv, RulesTypes

LEMMA ScanTurnsKeeps == ASSUME RulesInv, NEW s \in Scanner, ScanTurns(s) PROVE RulesInv'
<1>1. scans[s].pc = "turns" /\ UNCHANGED <<UnmovedByScans, found, meets, turns>>  BY DEF ScanTurns
<1>2. PICK q \in Scan : /\ q = scans[s] /\ ScanIsSound(q) /\ ScanIsOfRule(q) /\ q.who \in Owner
                        /\ q.rule \in RuleRow /\ q.todo \subseteq Feed
    BY <1>1, ScanIsThere
<1>3. CASE Ends(s)  BY <1>1, <1>3, EndsKeeps
<1>4. CASE ~Ends(s)
    <2>1. PICK f \in q.todo :
              /\ lease' = lease
              /\ LET next == [scans[s] EXCEPT !.todo = @ \ {f}, !.feed = f, !.left = scans[s].answer[f],
                                              !.answer[f] = {}, !.pc = "looks"]
                 IN  scans' = [scans EXCEPT ![s] = IF scans[s].rule.newOnly /\ f \notin scans[s].rule.base /\ f \in scans[s].cut
                                                   THEN [next EXCEPT !.pc = "turns", !.left = {}] ELSE next]
        BY <1>2, <1>4 DEF ScanTurns
    <2> DEFINE skips == q.rule.newOnly /\ f \notin q.rule.base /\ f \in q.cut
               left2 == q.todo \ {f}
               found2 == [q.answer EXCEPT ![f] = {}]
    <2>2. PICK next : next = [q EXCEPT !.todo = left2, !.feed = f, !.left = q.answer[f], !.answer = found2, !.pc = "looks"]
        OBVIOUS
    <2>3. PICK r : r = IF skips THEN [next EXCEPT !.pc = "turns", !.left = {}] ELSE next  OBVIOUS
    <2>4. scans' = [scans EXCEPT ![s] = r]  BY <1>2, <2>1, <2>2, <2>3
    <2>5. f \in Feed /\ q.answer \in [Feed -> SUBSET Occasion] /\ f \in q.rule.feeds /\ f \in Own(q.who)
        BY <1>2 DEF Scan, ScanIsOfRule
    <2>6. found2 \in [Feed -> SUBSET Occasion] /\ (\A g \in Feed \ {f} : found2[g] = q.answer[g]) /\ left2 \subseteq q.todo
          /\ f \notin left2
        BY <2>5
    <2> HIDE DEF found2, left2
    <2>7. /\ next \in Scan /\ next.who = q.who /\ next.rule = q.rule /\ next.todo = left2 /\ next.cut = q.cut
          /\ next.answer = found2 /\ next.feed = f /\ next.pc = "looks" /\ next.left = q.answer[f]
        BY <1>2, <2>2, <2>5, <2>6 DEF Scan
    <2>8. /\ r \in Scan /\ r.who = q.who /\ r.rule = q.rule /\ r.todo = left2 /\ r.cut = q.cut
          /\ r.answer = found2 /\ r.feed = f
          /\ (r.pc = "turns" \/ (r.pc = "looks" /\ ~skips /\ r.left = q.answer[f]))
        BY <2>3, <2>7 DEF Scan
    <2>9. \A g \in r.todo \ r.cut : before[r.who] \subseteq r.answer[g]
        BY <1>2, <2>6, <2>8 DEF ScanIsOfRule
    <2>10. ScanIsOfRule(r)  BY <1>2, <2>6, <2>8, <2>9 DEF ScanIsOfRule
    <2>11. r.pc = "looks" /\ Defines(r) => \A c \in before[r.who] : c \in r.left
        BY <1>2, <2>5, <2>8 DEF Defines, ScanIsOfRule
    <2>12. ScanIsSound(r)  BY <2>5, <2>8, <2>10, <2>11 DEF ScanIsSound, Enrolling
    <2> QED  BY <1>1, <2>1, <2>4, <2>8, <2>12, ScanOnlyMoves DEF RulesInv, RulesTypes
<1> QED  BY <1>3, <1>4

LEMMA ScanLooksKeeps == ASSUME RulesInv, NEW s \in Scanner, ScanLooks(s) PROVE RulesInv'
<1>1. scans[s].pc = "looks" /\ scans[s].left # {} /\ ~Full(s) /\ UNCHANGED <<UnmovedByScans, found, meets, turns>>
    BY DEF ScanLooks
<1>2. PICK q \in Scan : /\ q = scans[s] /\ ScanIsSound(q) /\ ScanIsOfRule(q) /\ q.who \in Owner
                        /\ q.rule \in RuleRow /\ q.todo \subseteq Feed
    BY <1>1, ScanIsThere
<1>3. CASE Ends(s)  BY <1>1, <1>3, EndsKeeps
<1>4. CASE ~Ends(s)
    <2>1. PICK c : c = NextCall(s)  OBVIOUS
    <2>2. q.left \subseteq Occasion /\ q.left # {}  BY <1>1, <1>2 DEF Scan
    <2>3. c \in q.left /\ c \in Occasion  BY <1>2, <2>1, <2>2, FirstOccasion DEF NextCall
    <2>4. PICK why : why = (found[scans[s].feed, c] # "none" \/ c \in begun \/ Baseline(s) \/ Covered(c))  OBVIOUS
    <2>5. PICK r : r = IF c \in begun /\ ~Baseline(s) THEN [q EXCEPT !.left = q.left \ {c}]
                       ELSE [q EXCEPT !.pc = "judged", !.call = c, !.left = q.left \ {c}, !.reason = why]
        OBVIOUS
    <2>6. scans' = [scans EXCEPT ![s] = r] /\ lease' = lease  BY <1>2, <1>4, <2>1, <2>4, <2>5 DEF ScanLooks
    <2>7. why \in BOOLEAN /\ (Defines(q) => why)  BY <1>2, <2>4 DEF Baseline, Defines
    <2>8. ~Defines(q) => q.count < MaxPerScan  BY <1>1, <1>2 DEF Full, Baseline, Defines, Scan
    <2>9. q.pc = "looks" /\ q.feed \in Own(q.who)
          /\ (Defines(q) => \A d \in before[q.who] : d \in q.left \/ found[q.feed, d] # "none")
        BY <1>1, <1>2 DEF ScanIsSound
    <2>10. CASE c \in begun /\ ~Baseline(s)
        <3>1. /\ r \in Scan /\ r.pc = q.pc /\ r.who = q.who /\ r.rule = q.rule /\ r.todo = q.todo /\ r.cut = q.cut
              /\ r.answer = q.answer /\ r.feed = q.feed
            BY <2>2, <2>5, <2>10 DEF Scan
        <3>2. ~Defines(r)  BY <1>2, <2>10, <3>1 DEF Defines, Baseline
        <3>3. ScanIsSound(r)  BY <1>2, <2>9, <3>1, <3>2 DEF ScanIsSound, ScanIsOfRule, Enrolling
        <3> QED  BY <1>1, <2>6, <3>1, <3>3, ScanOnlyMoves DEF RulesInv, RulesTypes
    <2>11. CASE ~(c \in begun /\ ~Baseline(s))
        <3>1. /\ r \in Scan /\ r.pc = "judged" /\ r.who = q.who /\ r.rule = q.rule /\ r.todo = q.todo /\ r.cut = q.cut
              /\ r.answer = q.answer /\ r.feed = q.feed /\ r.call = c /\ r.reason = why /\ r.left = q.left \ {c}
              /\ r.count = q.count
            BY <2>2, <2>3, <2>5, <2>7, <2>11 DEF Scan
        <3>2. Defines(r) <=> Defines(q)  BY <3>1 DEF Defines
        <3>3. ScanIsOfRule(r)  BY <1>2, <3>1 DEF ScanIsOfRule
        <3>4. Defines(r) => \A d \in before[r.who] : d \in r.left \/ d = r.call \/ found[r.feed, d] # "none"
            BY <2>9, <3>1, <3>2
        <3>5. ScanIsSound(r)  BY <2>3, <2>7, <2>8, <2>9, <3>1, <3>2, <3>3, <3>4 DEF ScanIsSound, Enrolling
        <3> QED  BY <1>1, <2>6, <3>1, <3>5, ScanOnlyMoves DEF RulesInv, RulesTypes
    <2> QED  BY <2>10, <2>11
<1> QED  BY <1>3, <1>4

\* A calendar that has been looked at is noted: what was there before is known
LEMMA ScanLeavesFeedKeeps == ASSUME RulesInv, NEW s \in Scanner, ScanLeavesFeed(s) PROVE RulesInv'
<1>1. scans[s].pc = "looks" /\ (scans[s].left = {} \/ Full(s))
      /\ UNCHANGED <<listed, begun, pausing, lease, found, meets, skipped, byHand, joiner, before, turns>>
    BY DEF ScanLeavesFeed
<1>2. PICK q \in Scan : /\ q = scans[s] /\ ScanIsSound(q) /\ ScanIsOfRule(q) /\ q.who \in Owner
                        /\ q.rule \in RuleRow /\ q.todo \subseteq Feed
    BY <1>1, ScanIsThere
<1> DEFINE seen == Defines(q) /\ rules[q.who] = [q.rule EXCEPT !.base = rules[q.who].base]
<1>3. rules' = IF seen THEN [rules EXCEPT ![q.who].base = @ \cup {q.feed}] ELSE rules
    BY <1>2 DEF ScanLeavesFeed, Baseline, Defines
<1>4. PICK r : r = [q EXCEPT !.pc = "turns", !.left = {}, !.feed = Nobody]  OBVIOUS
<1>5. scans' = [scans EXCEPT ![s] = r]  BY <1>2, <1>4 DEF ScanLeavesFeed
<1>6. /\ r \in Scan /\ r.pc = "turns" /\ r.who = q.who /\ r.rule = q.rule /\ r.todo = q.todo /\ r.cut = q.cut
      /\ r.answer = q.answer
    BY <1>2, <1>4 DEF Scan
<1>7. ScanIsSound(r)  BY <1>2, <1>6 DEF ScanIsSound, ScanIsOfRule, Enrolling
<1>8. q.feed \in Own(q.who) /\ q.feed \in Feed  BY <1>1, <1>2 DEF ScanIsSound, Own
<1>9. seen => \A c \in before[q.who] : found[q.feed, c] # "none"
    <2>1. seen => q.left = {}  BY <1>1, <1>2 DEF Full, Baseline, Defines
    <2> QED  BY <1>1, <1>2, <2>1 DEF ScanIsSound
<1>10. /\ rules' \in [Owner -> RuleRow]
       /\ \A p \in Owner : /\ rules'[p].on = rules[p].on /\ rules'[p].newOnly = rules[p].newOnly
                           /\ rules'[p].feeds = rules[p].feeds
                           /\ rules'[p].base = rules[p].base \cup (IF seen /\ p = q.who THEN {q.feed} ELSE {})
    <2> HIDE DEF seen
    <2>1. rules \in [Owner -> RuleRow]  BY DEF RulesInv, RulesTypes
    <2>2. CASE ~seen  BY <1>3, <2>1, <2>2
    <2>3. CASE seen
        <3>1. rules' = [rules EXCEPT ![q.who] = [rules[q.who] EXCEPT !.base = rules[q.who].base \cup {q.feed}]]
            BY <1>3, <2>3
        <3>2. PICK saved : saved = [rules[q.who] EXCEPT !.base = rules[q.who].base \cup {q.feed}]  OBVIOUS
        <3>3. rules[q.who] \in RuleRow  BY <1>2, <2>1
        <3>4. /\ saved \in RuleRow /\ saved.on = rules[q.who].on /\ saved.newOnly = rules[q.who].newOnly
              /\ saved.feeds = rules[q.who].feeds /\ saved.base = rules[q.who].base \cup {q.feed}
            BY <1>8, <3>2, <3>3 DEF RuleRow
        <3> QED  BY <1>2, <2>1, <2>3, <3>1, <3>2, <3>4
    <2> QED  BY <2>2, <2>3
<1> HIDE DEF seen
<1>11. RulesTypes'  BY <1>1, <1>5, <1>6, <1>10 DEF RulesInv, RulesTypes
<1>12. ClaimedFirst' /\ ClaimedOnce' /\ OnlyWhatIsNew'
    BY <1>1 DEF RulesInv, ClaimedFirst, ClaimedOnce, OnlyWhatIsNew
<1>13. OldIsListed'  BY <1>1, <1>8, <1>10 DEF RulesInv, OldIsListed, Own
<1>14. OldIsNoted'
    <2> SUFFICES ASSUME NEW p \in Owner, NEW f \in rules'[p].base, NEW c \in before[p] PROVE found[f, c] # "none"
        BY <1>1 DEF OldIsNoted
    <2>1. f \in rules[p].base \/ (seen /\ p = q.who /\ f = q.feed)  BY <1>10
    <2>2. CASE f \in rules[p].base  BY <2>2 DEF RulesInv, OldIsNoted
    <2>3. CASE seen /\ p = q.who /\ f = q.feed  BY <1>9, <2>3
    <2> QED  BY <2>1, <2>2, <2>3
<1>15. ScansAreSound'
    <2>1. \A p \in Owner : RuleLasts(p)  BY <1>1, <1>10 DEF RuleLasts
    <2>2. NotesLast  BY <1>1 DEF NotesLast
    <2>3. ScanIsSound(r)'
        BY <1>6, <1>7, <2>1, <2>2, ScanLasts DEF ScanIsSound, ScanIsOfRule, RulesInv, RulesTypes
    <2> QED  BY <1>5, <1>6, <2>1, <2>2, <2>3, ScansLast DEF RulesInv
<1>16. JoinIsSound'
    <2>1. joiner.pc # "idle" => joiner.of \in Entry /\ FeedOwner[joiner.of[1]] \in Owner
        BY DEF RulesInv, JoinIsSound, Entry
    <2> QED  BY <1>1, <1>10, <2>1 DEF RulesInv, JoinIsSound, Allowed
<1> QED  BY <1>11, <1>12, <1>13, <1>14, <1>15, <1>16 DEF RulesInv

\* The entry a scan is at
LEMMA EntryOfScan ==
    ASSUME RulesInv, NEW q \in Scan, ScanIsSound(q), q.pc \in {"judged"} \cup Enrolling
    PROVE  \E e \in Entry : /\ e = <<q.feed, q.call>> /\ e[1] = q.feed /\ e[2] = q.call /\ q.feed \in Feed
                            /\ q.call \in Occasion /\ FeedOwner[e[1]] = q.who /\ q.who \in Owner
<1>1. q.feed \in Own(q.who) /\ q.call \in Occasion /\ q.who \in Owner
    BY DEF ScanIsSound, ScanIsOfRule, Enrolling
<1>2. q.feed \in Feed /\ FeedOwner[q.feed] = q.who  BY <1>1 DEF Own
<1>3. PICK e \in Entry : e = <<q.feed, q.call>>  BY <1>1, <1>2 DEF Entry
<1>4. e[1] = q.feed /\ e[2] = q.call  BY <1>3
<1> QED  BY <1>1, <1>2, <1>3, <1>4

LEMMA ScanClaimsKeeps == ASSUME RulesInv, NEW s \in Scanner, ScanClaims(s) PROVE RulesInv'
<1>1. scans[s].pc = "judged" /\ UNCHANGED <<UnmovedByScans, lease, meets, turns>>  BY DEF ScanClaims
<1>2. PICK q \in Scan : /\ q = scans[s] /\ ScanIsSound(q) /\ ScanIsOfRule(q) /\ q.who \in Owner
                        /\ q.rule \in RuleRow /\ q.todo \subseteq Feed
    BY <1>1, ScanIsThere
<1>3. PICK e \in Entry : /\ e = <<q.feed, q.call>> /\ e[1] = q.feed /\ e[2] = q.call /\ q.feed \in Feed
                         /\ q.call \in Occasion /\ FeedOwner[e[1]] = q.who
    BY <1>1, <1>2, EntryOfScan
<1> DEFINE refused == found[e] # "none" \/ (~q.reason /\ TakenCall(e))
           note == IF q.reason THEN "excluded" ELSE "claimed"
<1>4. found' = IF refused THEN found ELSE [found EXCEPT ![e] = note]  BY <1>2, <1>3 DEF ScanClaims
<1>5. PICK r : r = [q EXCEPT !.pc = IF refused \/ q.reason THEN "looks" ELSE "claimed"]  OBVIOUS
<1>6. scans' = [scans EXCEPT ![s] = r]  BY <1>2, <1>3, <1>5 DEF ScanClaims
<1>7. found \in [Entry -> Occurrence] /\ note \in Occurrence /\ note # "none" /\ (note \in Taken => ~q.reason)
    BY DEF RulesInv, RulesTypes, Occurrence, Taken
<1>8. ~refused => found[e] = "none"  OBVIOUS
<1>9. ~refused /\ ~q.reason => ~TakenCall(e)  OBVIOUS
<1>10. q.feed \notin q.rule.base /\ q.call \in before[q.who] => q.reason
    BY <1>1, <1>2 DEF ScanIsSound, ScanIsOfRule, Defines
<1>11. q.feed \in q.rule.base /\ q.call \in before[q.who] => found[e] # "none"
    BY <1>2, <1>3 DEF ScanIsOfRule, RulesInv, OldIsNoted
<1>12. ~refused /\ ~q.reason => q.call \notin before[q.who]  BY <1>8, <1>10, <1>11
<1>13. /\ r \in Scan /\ r.who = q.who /\ r.rule = q.rule /\ r.todo = q.todo /\ r.cut = q.cut /\ r.answer = q.answer
       /\ r.feed = q.feed /\ r.call = q.call /\ r.count = q.count /\ r.left = q.left
       /\ (r.pc = "looks" \/ (r.pc = "claimed" /\ ~refused /\ ~q.reason))
    BY <1>2, <1>5 DEF Scan
<1>14. /\ q.reason => found'[e] # "none"
       /\ ~refused /\ ~q.reason => found'[e] \in Taken
       /\ \A d \in Entry \ {e} : found'[d] = found[d]
    <2>1. (~q.reason => note = "claimed") /\ (q.reason => (refused <=> found[e] # "none"))  OBVIOUS
    <2> HIDE DEF note, refused
    <2>2. CASE refused  BY <1>4, <2>1, <2>2
    <2>3. CASE ~refused
        <3>1. found' = [found EXCEPT ![e] = note]  BY <1>4, <2>3
        <3> QED  BY <1>7, <2>1, <2>3, <3>1 DEF Taken
    <2> QED  BY <2>2, <2>3
<1>15. found' \in [Entry -> Occurrence]  BY <1>4, <1>7
<1>16. NotesLast  BY <1>4, <1>7, <1>8 DEF NotesLast, Taken
<1> HIDE DEF refused, note
<1>17. ClaimedOnce'
    <2> SUFFICES ASSUME NEW f \in Feed, NEW g \in Feed, NEW c \in Occasion, found'[f, c] \in Taken, found'[g, c] \in Taken
                 PROVE  f = g
        BY DEF ClaimedOnce
    <2>1. <<f, c>> \in Entry /\ <<g, c>> \in Entry  BY DEF Entry
    <2>2. CASE found[f, c] \in Taken /\ found[g, c] \in Taken  BY <2>2 DEF RulesInv, ClaimedOnce
    <2>3. CASE found[f, c] \notin Taken \/ found[g, c] \notin Taken
        <3>1. ~refused /\ ~q.reason /\ c = q.call
            BY <1>3, <1>4, <1>7, <2>1, <2>3 DEF note, Taken
        <3>2. \A h \in Feed : found[h, c] \notin Taken  BY <1>3, <1>9, <3>1 DEF TakenCall, Taken
        <3> QED  BY <1>3, <1>14, <2>1, <3>2
    <2> QED  BY <2>2, <2>3
<1>18. ScanIsSound(r)'
    <2>1. rules' = rules /\ before' = before  BY <1>1 DEF UnmovedByScans
    <2>2. ScanIsOfRule(r)'  BY <1>2, <1>13, <2>1 DEF ScanIsOfRule
    <2>3. q.feed \in Own(q.who) /\ q.call \in Occasion /\ (~q.reason => q.count < MaxPerScan)
        BY <1>1, <1>2 DEF ScanIsSound
    <2>4. Defines(r) => \A c \in before[r.who] : c \in r.left \/ found'[r.feed, c] # "none"
        <3> SUFFICES ASSUME Defines(r), NEW c \in before[r.who], c \notin r.left PROVE found'[r.feed, c] # "none"
            OBVIOUS
        <3>1. c = q.call \/ found[q.feed, c] # "none"  BY <1>1, <1>2, <1>13 DEF ScanIsSound, Defines
        <3>2. c \in Occasion  BY <1>2, <1>13 DEF RulesInv, RulesTypes
        <3>3. CASE c = q.call
            <4>1. q.reason  BY <1>1, <1>2, <1>13 DEF ScanIsSound, Defines
            <4> QED  BY <1>3, <1>13, <1>14, <3>3, <4>1
        <3>4. CASE found[q.feed, c] # "none"  BY <1>3, <1>13, <1>16, <3>2, <3>4 DEF NotesLast, Entry
        <3> QED  BY <3>1, <3>3, <3>4
    <2>5. r.pc = "claimed" => /\ r.call \in Occasion \ before[r.who] /\ found'[r.feed, r.call] \in Taken
                              /\ r.count < MaxPerScan /\ ~Defines(r)
        <3>1. Defines(r) => q.reason  BY <1>1, <1>2, <1>13 DEF ScanIsSound, Defines
        <3> QED  BY <1>3, <1>12, <1>13, <1>14, <2>3, <3>1
    <2>6. r.feed \in Own(r.who)  BY <1>13, <2>3
    <2>7. Defines(r)' = Defines(r)  BY DEF Defines
    <2> QED  BY <1>13, <2>1, <2>2, <2>4, <2>5, <2>6, <2>7 DEF ScanIsSound, Enrolling
<1> QED
    BY <1>1, <1>6, <1>13, <1>15, <1>16, <1>17, <1>18, ScanMoves DEF RulesInv, RulesTypes

\* From the claim to the schedule: the call is nobody else's and new
LEMMA ScanEnrolsKeeps == ASSUME RulesInv, NEW s \in Scanner, ScanMakes(s) \/ ScanSchedules(s) \/ ScanNotes(s) PROVE RulesInv'
<1>1. scans[s].pc \in Enrolling /\ UNCHANGED <<UnmovedByScans, lease, turns>>
    BY DEF ScanMakes, ScanSchedules, ScanNotes, Enrolling
<1>2. PICK q \in Scan : /\ q = scans[s] /\ ScanIsSound(q) /\ ScanIsOfRule(q) /\ q.who \in Owner
                        /\ q.rule \in RuleRow /\ q.todo \subseteq Feed
    BY <1>1, ScanIsThere DEF Enrolling
<1>3. PICK e \in Entry : /\ e = <<q.feed, q.call>> /\ e[1] = q.feed /\ e[2] = q.call /\ q.feed \in Feed
                         /\ q.call \in Occasion /\ FeedOwner[e[1]] = q.who
    BY <1>1, <1>2, EntryOfScan
<1>4. q.call \notin before[q.who] /\ found[e] \in Taken /\ q.count < MaxPerScan /\ q.feed \in Own(q.who) /\ ~Defines(q)
    BY <1>1, <1>2, <1>3 DEF ScanIsSound, Enrolling
<1>5. found \in [Entry -> Occurrence] /\ meets \in [Entry -> Meet]  BY DEF RulesInv, RulesTypes
<1>6. rules' = rules /\ before' = before  BY <1>1 DEF UnmovedByScans
<1>7. /\ found' = found \/ found' = [found EXCEPT ![e] = "failed"] \/ found' = [found EXCEPT ![e] = "scheduled"]
      /\ meets' = meets \/ meets' = [meets EXCEPT ![e] = "made"] \/ meets' = [meets EXCEPT ![e] = "pending"]
    BY <1>2, <1>3 DEF ScanMakes, ScanSchedules, ScanNotes
<1>8. found' \in [Entry -> Occurrence] /\ meets' \in [Entry -> Meet]  BY <1>5, <1>7 DEF Occurrence, Meet
<1>9. \A d \in Entry : found'[d] \in Taken <=> found[d] \in Taken  BY <1>4, <1>5, <1>7 DEF Taken
<1>10. NotesLast  BY <1>4, <1>5, <1>7 DEF NotesLast, Taken
<1>11. ClaimedOnce'  BY <1>9 DEF RulesInv, ClaimedOnce, Entry
<1>12. \A d \in Entry : meets'[d] # "none" => \/ meets[d] # "none"
                                              \/ found'[d] \in Taken /\ d[2] \notin before[FeedOwner[d[1]]]
    BY <1>3, <1>4, <1>5, <1>7, <1>9
<1>13. \A d \in Entry : meets[d] # "none" => meets'[d] # "none"  BY <1>5, <1>7
<1>14. PICK pc2 \in {"looks", "made", "scheduled"}, call2 \in {0, q.call}, n \in {q.count, q.count + 1} :
           /\ scans' = [scans EXCEPT ![s] = [q EXCEPT !.pc = pc2, !.call = call2, !.count = n]]
           /\ pc2 # "looks" => call2 = q.call /\ n = q.count
    <2>1. q = [q EXCEPT !.call = q.call, !.count = q.count]  BY <1>2 DEF Scan
    <2>2. \A w : [q EXCEPT !.pc = w] = [q EXCEPT !.pc = w, !.call = q.call, !.count = q.count]  BY <1>2 DEF Scan
    <2>3. CASE ScanMakes(s)
        <3>1. PICK w \in {"looks", "made"} : scans' = [scans EXCEPT ![s] = [q EXCEPT !.pc = w]]
            BY <1>2, <2>3 DEF ScanMakes
        <3> QED  BY <2>2, <3>1
    <2>4. CASE ScanSchedules(s)
        <3>1. scans' = [scans EXCEPT ![s] = [q EXCEPT !.pc = "scheduled"]]  BY <1>2, <2>4 DEF ScanSchedules
        <3> QED  BY <2>2, <3>1
    <2>5. CASE ScanNotes(s)
        <3>1. scans' = [scans EXCEPT ![s] = [q EXCEPT !.pc = "looks", !.call = 0, !.count = q.count + 1]]
            BY <1>2, <2>5 DEF ScanNotes
        <3> QED  BY <3>1
    <2> QED  BY <2>3, <2>4, <2>5
<1>15. q.count + 1 \in 0 .. MaxPerScan /\ q.count \in 0 .. MaxPerScan  BY <1>2, <1>4 DEF Scan
<1>16. PICK r : r = [q EXCEPT !.pc = pc2, !.call = call2, !.count = n]  OBVIOUS
<1>17. /\ r \in Scan /\ r.who = q.who /\ r.rule = q.rule /\ r.todo = q.todo /\ r.cut = q.cut /\ r.answer = q.answer
       /\ r.feed = q.feed /\ r.pc = pc2 /\ r.call = call2 /\ r.count = n
    BY <1>2, <1>3, <1>14, <1>15, <1>16 DEF Scan
<1>18. ScanIsSound(r)'
    <2>1. ScanIsOfRule(r)'  BY <1>2, <1>6, <1>17 DEF ScanIsOfRule
    <2>2. ~Defines(r)'  BY <1>4, <1>17 DEF Defines
    <2>3. r.feed \in Own(r.who)  BY <1>4, <1>17
    <2>4. r.pc \in Enrolling => /\ r.call \in Occasion \ before'[r.who] /\ found'[r.feed, r.call] \in Taken
                                /\ r.count < MaxPerScan
        BY <1>3, <1>4, <1>6, <1>9, <1>14, <1>17 DEF Enrolling
    <2> QED  BY <1>14, <1>17, <2>1, <2>2, <2>3, <2>4 DEF ScanIsSound, Enrolling
<1>19. scans' = [scans EXCEPT ![s] = r]  BY <1>14, <1>16
<1> QED
    BY <1>1, <1>8, <1>10, <1>11, <1>12, <1>13, <1>17, <1>18, <1>19, ScanMoves DEF RulesInv, RulesTypes

-----------------------------------------------------------------------------
(***************************************************************************)
(* People, calendars and the scheduler                                     *)
(***************************************************************************)
LEMMA UnseenStays ==
    ASSUME RulesInv, NEW e \in Entry \cup {Nobody}, joiner' = Unseen(e)
    PROVE  /\ joiner' \in Join /\ joiner'.pc = joiner.pc /\ joiner'.of = joiner.of
           /\ joiner'.late = (joiner.late \/ (joiner.pc = "joins" /\ (joiner.of = e \/ e = Nobody)))
<1>1. PICK b \in BOOLEAN : b = (joiner.late \/ (joiner.pc = "joins" /\ (joiner.of = e \/ e = Nobody)))  OBVIOUS
<1>2. PICK j : j = [joiner EXCEPT !.late = b]  OBVIOUS
<1>3. joiner' = j  BY <1>1, <1>2 DEF Unseen
<1>4. joiner \in Join  BY DEF RulesInv, RulesTypes
<1>5. j \in Join /\ j.pc = joiner.pc /\ j.of = joiner.of /\ j.late = b  BY <1>2, <1>4 DEF Join
<1> QED  BY <1>1, <1>3, <1>5

LEMMA SaveRuleKeeps ==
    ASSUME RulesInv, NEW p \in Owner, NEW on \in BOOLEAN, NEW newOnly \in BOOLEAN, NEW feeds \in SUBSET Feed,
           SaveRule(p, on, newOnly, feeds)
    PROVE  RulesInv'
<1> DEFINE old == rules[p]
           reset == ~old.on \/ old.newOnly # newOnly
           base2 == IF reset THEN {} ELSE old.base \cap feeds
           fresh == {c \in Occasion : \A f \in Feed : meets[f, c] = "none" /\ (FeedOwner[f] = p => c \in listed[f])}
           scanned == \E s \in Scanner : scans[s].who = p
           before2 == IF ~on \/ ~newOnly \/ scanned THEN {} ELSE IF reset THEN fresh ELSE before[p]
<1>1. /\ Turn /\ feeds \subseteq Own(p) /\ joiner' = Unseen(Nobody)
      /\ pausing' = [pausing EXCEPT ![p] = [due |-> TRUE, feeds |-> IF on THEN feeds ELSE {}]]
      /\ UNCHANGED <<listed, begun, lease, scans, found, meets, skipped, byHand>>
    BY DEF SaveRule, Own
<1>2. PICK saved : saved = [on |-> on, newOnly |-> newOnly, feeds |-> feeds, base |-> base2]  OBVIOUS
<1>3. rules' = [rules EXCEPT ![p] = saved] /\ before' = [before EXCEPT ![p] = before2]  BY <1>2 DEF SaveRule
<1>4. old \in RuleRow /\ old.feeds \cup old.base \subseteq Own(p) /\ before[p] \subseteq Occasion
      /\ \A f \in Own(p) : before[p] \subseteq listed[f]
    BY DEF RulesInv, RulesTypes, OldIsListed
<1>5. base2 \subseteq Own(p) /\ base2 \subseteq Feed /\ (reset => base2 = {}) /\ base2 \subseteq old.base
    BY <1>4 DEF Own
<1>6. before2 \subseteq Occasion /\ (before2 # {} => newOnly /\ ~scanned) /\ (before2 = {} \/ reset \/ before2 = before[p])
      /\ (before2 = {} \/ before2 = fresh \/ before2 = before[p])
    BY <1>4
<1>7. fresh \subseteq Occasion /\ (\A f \in Own(p) : fresh \subseteq listed[f]) /\ \A f \in Feed, c \in fresh : meets[f, c] = "none"
    BY DEF Own
<1> HIDE DEF reset, base2, fresh, before2, old
<1>8. saved \in RuleRow /\ saved.newOnly = newOnly /\ saved.feeds = feeds /\ saved.base = base2
    BY <1>2, <1>5 DEF RuleRow
<1>9. rules' \in [Owner -> RuleRow] /\ before' \in [Owner -> SUBSET Occasion]
    BY <1>3, <1>6, <1>8 DEF RulesInv, RulesTypes
<1>10. /\ rules'[p] = saved /\ before'[p] = before2
       /\ \A q \in Owner \ {p} : rules'[q] = rules[q] /\ before'[q] = before[q]
    BY <1>3 DEF RulesInv, RulesTypes
<1>11. /\ joiner' \in Join /\ joiner'.pc = joiner.pc /\ joiner'.of = joiner.of
       /\ (joiner'.pc = "joins" => joiner'.late)
    BY <1>1, UnseenStays
<1>12. RulesTypes'
    <2>1. pausing' \in [Owner -> [due : BOOLEAN, feeds : SUBSET Feed]]  BY <1>1 DEF RulesInv, RulesTypes
    <2>2. turns' \in 0 .. MaxTurns  BY <1>1, TurnsStay
    <2> QED  BY <1>1, <1>9, <1>11, <2>1, <2>2 DEF RulesInv, RulesTypes
<1>13. ClaimedFirst' /\ ClaimedOnce'  BY <1>1 DEF RulesInv, ClaimedFirst, ClaimedOnce
<1>14. OldIsListed'
    <2> SUFFICES ASSUME NEW q \in Owner
                 PROVE  /\ rules'[q].feeds \cup rules'[q].base \subseteq Own(q)
                        /\ before'[q] # {} => rules'[q].newOnly
                        /\ \A f \in Own(q) : before'[q] \subseteq listed[f]
        BY <1>1 DEF OldIsListed, Own
    <2>1. CASE q = p  BY <1>1, <1>4, <1>5, <1>6, <1>7, <1>8, <1>10, <2>1
    <2>2. CASE q # p  BY <1>10, <2>2 DEF RulesInv, OldIsListed
    <2> QED  BY <2>1, <2>2
<1>15. OldIsNoted'
    <2> SUFFICES ASSUME NEW q \in Owner, NEW f \in rules'[q].base, NEW c \in before'[q] PROVE found[f, c] # "none"
        BY <1>1 DEF OldIsNoted
    <2>1. CASE q = p
        <3>1. f \in base2 /\ c \in before2  BY <1>8, <1>10, <2>1
        <3>2. c \in before[p] /\ f \in old.base  BY <1>5, <1>6, <3>1
        <3> QED  BY <3>2 DEF RulesInv, OldIsNoted, old
    <2>2. CASE q # p  BY <1>10, <2>2 DEF RulesInv, OldIsNoted
    <2> QED  BY <2>1, <2>2
<1>16. OnlyWhatIsNew'
    <2> SUFFICES ASSUME NEW f \in Feed, NEW c \in Occasion, c \in before'[FeedOwner[f]] PROVE meets[f, c] = "none"
        BY <1>1 DEF OnlyWhatIsNew
    <2>1. c \in before[FeedOwner[f]] \/ c \in fresh  BY <1>6, <1>10
    <2> QED  BY <1>7, <2>1 DEF RulesInv, OnlyWhatIsNew
<1>17. ScansAreSound'
    <2> SUFFICES ASSUME NEW u \in Scanner PROVE ScanIsSound(scans[u])'  BY DEF ScansAreSound
    <2>1. PICK r : r = scans[u]  OBVIOUS
    <2>2. r \in Scan /\ ScanIsSound(r)  BY <2>1 DEF RulesInv, RulesTypes, ScansAreSound
    <2>3. r.pc # "idle" => RuleLasts(r.who)
        <3> SUFFICES ASSUME r.pc # "idle" PROVE RuleLasts(r.who)  OBVIOUS
        <3>1. r.who \in Owner  BY <2>2 DEF ScanIsSound, ScanIsOfRule
        <3>2. r.who = p => before'[p] = {}  BY <1>6, <1>10, <2>1
        <3> QED  BY <1>10, <3>1, <3>2 DEF RuleLasts
    <2>4. NotesLast  BY <1>1 DEF NotesLast
    <2>5. ScanIsSound(r)'  BY <2>2, <2>3, <2>4, ScanLasts DEF RulesInv, RulesTypes
    <2>6. scans'[u] = r  BY <1>1, <2>1
    <2> QED  BY <2>5, <2>6 DEF ScanIsSound, ScanIsOfRule, Defines
<1>18. JoinIsSound'  BY <1>1, <1>11 DEF RulesInv, JoinIsSound
<1> QED  BY <1>12, <1>13, <1>14, <1>15, <1>16, <1>17, <1>18 DEF RulesInv

\* What is asked of a rule stays so where rules and skips do
LEMMA JoinStaysSound ==
    ASSUME RulesInv, UNCHANGED <<rules, joiner>>, skipped' \subseteq skipped,
           \A e \in Entry : meets'[e] = "none" <=> meets[e] = "none"
    PROVE  JoinIsSound'
BY DEF RulesInv, JoinIsSound, Allowed

LEMMA PeopleKeep ==
    ASSUME RulesInv,
           \/ \E p \in Owner : CancelPending(p) \/ LeaseEnds(p)
           \/ \E e \in Entry : Unskip(e)
           \/ \E c \in Occasion : ScheduleByHand(c) \/ CallBegins(c) \/ \E f \in Feed : EventAppears(f, c)
    PROVE  RulesInv'
<1>1. CASE \E p \in Owner : CancelPending(p)
    <2>1. PICK p \in Owner : CancelPending(p)  BY <1>1
    <2>2. meets' \in [Entry -> Meet] /\ \A e \in Entry : meets'[e] = "none" <=> meets[e] = "none"
        BY <2>1 DEF CancelPending, RulesInv, RulesTypes, Meet
    <2>3. pausing' \in [Owner -> [due : BOOLEAN, feeds : SUBSET Feed]]
        BY <2>1 DEF CancelPending, Settled, RulesInv, RulesTypes
    <2>4. JoinIsSound'  BY <2>1, <2>2, JoinStaysSound DEF CancelPending
    <2> QED  BY <2>1, <2>2, <2>3, <2>4, OthersMove DEF CancelPending, RulesInv, RulesTypes
<1>2. CASE \E p \in Owner : LeaseEnds(p)
    <2>1. PICK p \in Owner : LeaseEnds(p)  BY <1>2
    <2>2. lease' \in [Owner -> Scanner \cup {Nobody}]  BY <2>1 DEF LeaseEnds, RulesInv, RulesTypes
    <2>3. turns' \in 0 .. MaxTurns  BY <2>1, TurnsStay DEF LeaseEnds
    <2>4. UNCHANGED <<listed, begun, rules, pausing, skipped, byHand, joiner, before, scans, found, meets>>
        BY <2>1 DEF LeaseEnds, UnmovedByScans
    <2>5. JoinIsSound'  BY <2>4, JoinStaysSound
    <2> QED  BY <2>2, <2>3, <2>4, <2>5, OthersMove DEF RulesInv, RulesTypes
<1>3. CASE \E e \in Entry : Unskip(e)
    <2>1. PICK e \in Entry : Unskip(e)  BY <1>3
    <2>2. JoinIsSound'  BY <2>1, JoinStaysSound DEF Unskip
    <2> QED  BY <2>1, <2>2, OthersMove DEF Unskip, RulesInv, RulesTypes
<1>4. CASE \E c \in Occasion : ScheduleByHand(c) \/ CallBegins(c) \/ \E f \in Feed : EventAppears(f, c)
    <2>1. PICK c \in Occasion : ScheduleByHand(c) \/ CallBegins(c) \/ \E f \in Feed : EventAppears(f, c)  BY <1>4
    <2>2. UNCHANGED <<rules, pausing, lease, scans, found, meets, skipped, joiner, before>>
        BY <2>1 DEF ScheduleByHand, CallBegins, EventAppears
    <2>3. turns' \in 0 .. MaxTurns  BY <2>1, TurnsStay DEF ScheduleByHand, CallBegins, EventAppears
    <2>4. begun' \subseteq Occasion /\ byHand' \subseteq Occasion
        BY <2>1 DEF ScheduleByHand, CallBegins, EventAppears, RulesInv, RulesTypes
    <2>5. listed' \in [Feed -> SUBSET Occasion] /\ \A f \in Feed : listed[f] \subseteq listed'[f]
        <3>1. listed \in [Feed -> SUBSET Occasion]  BY DEF RulesInv, RulesTypes
        <3>2. CASE listed' = listed  BY <3>1, <3>2
        <3>3. CASE \E f \in Feed : EventAppears(f, c)
            <4>1. PICK f \in Feed : listed' = [listed EXCEPT ![f] = listed[f] \cup {c}]  BY <3>3 DEF EventAppears
            <4> QED  BY <3>1, <4>1
        <3> QED  BY <2>1, <3>2, <3>3 DEF ScheduleByHand, CallBegins
    <2>6. JoinIsSound'  BY <2>2, JoinStaysSound
    <2> QED  BY <2>2, <2>3, <2>4, <2>5, <2>6, OthersMove DEF RulesInv, RulesTypes
<1> QED  BY <1>1, <1>2, <1>3, <1>4

LEMMA SkipKeeps == ASSUME RulesInv, NEW e \in Entry, Skip(e) PROVE RulesInv'
<1>1. /\ Turn /\ skipped' = skipped \cup {e} /\ joiner' = Unseen(e)
      /\ meets' = IF meets[e] = "pending" THEN [meets EXCEPT ![e] = "cancelled"] ELSE meets
      /\ UNCHANGED <<listed, begun, rules, pausing, lease, scans, found, byHand, before>>
    BY DEF Skip
<1>2. meets' \in [Entry -> Meet] /\ \A d \in Entry : meets'[d] = "none" <=> meets[d] = "none"
    BY <1>1 DEF RulesInv, RulesTypes, Meet
<1>3. /\ joiner' \in Join /\ joiner'.pc = joiner.pc /\ joiner'.of = joiner.of
      /\ (joiner.late => joiner'.late) /\ (joiner.pc = "joins" /\ joiner.of = e => joiner'.late)
    BY <1>1, UnseenStays
<1>4. JoinIsSound'  BY <1>1, <1>2, <1>3 DEF RulesInv, JoinIsSound, Allowed
<1> QED  BY <1>1, <1>2, <1>3, <1>4, TurnsStay, OthersMove DEF RulesInv, RulesTypes

\* A step of the scheduler
LEMMA JoinMoves ==
    ASSUME RulesInv, UNCHANGED UnmovedByJoins, Turn \/ turns' = turns, NEW j \in Join, joiner' = j,
           j.pc # "idle" => j.of \in Entry /\ meets[j.of] # "none", j.pc = "joins" => j.late \/ Allowed(j.of),
           \/ meets' = meets
           \/ \E e \in Entry, m \in Meet : meets[e] # "none" /\ m # "none" /\ meets' = [meets EXCEPT ![e] = m]
    PROVE  RulesInv'
<1>1. UNCHANGED <<listed, begun, rules, pausing, lease, scans, found, skipped, byHand, before>>  BY DEF UnmovedByJoins
<1>2. meets' \in [Entry -> Meet] /\ \A d \in Entry : meets'[d] = "none" <=> meets[d] = "none"
    BY DEF RulesInv, RulesTypes
<1>3. JoinIsSound'  BY <1>1, <1>2 DEF JoinIsSound, Allowed
<1> QED  BY <1>1, <1>2, <1>3, TurnsStay, OthersMove DEF RulesInv, RulesTypes

LEMMA JoinStepsKeep ==
    ASSUME RulesInv, JoinGoesOn \/ \E e \in Entry : DueJoin(e)
    PROVE  RulesInv'
<1>1. joiner \in Join /\ NoJoiner \in Join /\ NoJoiner.pc = "idle"  BY DEF RulesInv, RulesTypes, NoJoiner, Join
<1>2. joiner.pc # "idle" => joiner.of \in Entry /\ meets[joiner.of] # "none"  BY DEF RulesInv, JoinIsSound
<1>3. CASE \E e \in Entry : DueJoin(e)
    <2>1. PICK e \in Entry : DueJoin(e)  BY <1>3
    <2>2. PICK b \in BOOLEAN : b = Allowed(e)
        <3>1. rules[FeedOwner[e[1]]].on \in BOOLEAN  BY DEF RulesInv, RulesTypes, RuleRow, Entry
        <3> QED  BY <3>1 DEF Allowed
    <2>3. PICK j : j = [pc |-> "first", of |-> e, ok |-> b, late |-> FALSE]  OBVIOUS
    <2>4. j \in Join /\ j.pc = "first" /\ j.of = e  BY <2>3 DEF Join
    <2>5. joiner' = j /\ meets[e] # "none" /\ meets' = meets /\ turns' = turns /\ UNCHANGED UnmovedByJoins
        BY <2>1, <2>2, <2>3 DEF DueJoin
    <2> QED  BY <2>4, <2>5, JoinMoves
<1>4. CASE JoinAnswered
    <2>1. PICK heard \in BOOLEAN :
              /\ IF joiner.ok /\ ~heard THEN Turn ELSE UNCHANGED turns
              /\ LET e == joiner.of
                     ok == joiner.ok /\ heard /\ StillStands(e)
                 IN  /\ meets' = IF ~ok /\ meets[e] \in {"pending", "joining"}
                                 THEN [meets EXCEPT ![e] = "cancelled"] ELSE meets
                     /\ joiner' = IF ~ok THEN NoJoiner
                                  ELSE [joiner EXCEPT !.pc = IF joiner.pc = "first" THEN "claims" ELSE "joins"]
        BY <1>4 DEF JoinAnswered
    <2>2. joiner.pc # "idle" /\ UNCHANGED UnmovedByJoins  BY <1>4 DEF JoinAnswered
    <2>3. PICK j : j = joiner'  OBVIOUS
    <2>4. j \in Join /\ (j.pc # "idle" => j.of = joiner.of) /\ (j.pc = "joins" => Allowed(joiner.of))
        BY <1>1, <2>1, <2>3 DEF Join, StillStands
    <2>5. j.pc = "joins" => Allowed(j.of)  BY <2>4
    <2>6. meets' = meets \/ meets' = [meets EXCEPT ![joiner.of] = "cancelled"]  BY <2>1
    <2> QED  BY <1>2, <2>1, <2>2, <2>3, <2>4, <2>5, <2>6, JoinMoves DEF Meet
<1>5. CASE ClaimsJoin
    <2>1. joiner.pc # "idle" /\ UNCHANGED <<UnmovedByJoins, turns>>  BY <1>5 DEF ClaimsJoin
    <2>2. CASE joiner' = NoJoiner /\ meets' = meets  BY <1>1, <2>1, <2>2, JoinMoves
    <2>3. CASE ~(joiner' = NoJoiner /\ meets' = meets)
        <3>1. PICK b \in BOOLEAN : b = Allowed(joiner.of)
            <4>1. rules[FeedOwner[joiner.of[1]]].on \in BOOLEAN  BY <1>2, <2>1 DEF RulesInv, RulesTypes, RuleRow, Entry
            <4> QED  BY <4>1 DEF Allowed
        <3>2. PICK j : j = [joiner EXCEPT !.pc = "second", !.ok = b]  OBVIOUS
        <3>3. joiner' = j /\ meets' = [meets EXCEPT ![joiner.of] = "joining"]
            BY <1>5, <2>3, <3>1, <3>2 DEF ClaimsJoin
        <3>4. j \in Join /\ j.pc = "second" /\ j.of = joiner.of  BY <1>1, <3>2 DEF Join
        <3> QED  BY <1>2, <2>1, <3>3, <3>4, JoinMoves DEF Meet
    <2> QED  BY <2>2, <2>3
<1>6. CASE JoinMissed \/ JoinEnds
    <2>1. joiner.pc # "idle" /\ UNCHANGED UnmovedByJoins /\ (Turn \/ turns' = turns) /\ joiner' = NoJoiner
        BY <1>6 DEF JoinMissed, JoinEnds
    <2>2. meets' = meets \/ \E m \in {"missed", "joined", "pending", "failed"} : meets' = [meets EXCEPT ![joiner.of] = m]
        BY <1>6 DEF JoinMissed, JoinEnds
    <2> QED  BY <1>1, <1>2, <2>1, <2>2, JoinMoves DEF Meet
<1> QED  BY <1>3, <1>4, <1>5, <1>6 DEF JoinGoesOn

-----------------------------------------------------------------------------
LEMMA RulesInductive == RulesInv /\ [RulesNext]_rulesVars => RulesInv'
<1> SUFFICES ASSUME RulesInv, [RulesNext]_rulesVars PROVE RulesInv'  OBVIOUS
<1>1. CASE \E p \in Owner : \E on \in BOOLEAN, newOnly \in BOOLEAN, feeds \in SUBSET Feed : SaveRule(p, on, newOnly, feeds)
    BY <1>1, SaveRuleKeeps
<1>2. CASE \E p \in Owner, s \in Scanner : ScanBegins(s, p)  BY <1>2, ScanBeginsKeeps
<1>3. CASE \E e \in Entry : Skip(e)  BY <1>3, SkipKeeps
<1>4. CASE \E s \in Scanner : ScanGoesOn(s) \/ ScannerEnds(s)
    <2>1. PICK s \in Scanner : ScanGoesOn(s) \/ ScannerEnds(s)  BY <1>4
    <2>2. CASE ScannerEnds(s)
        <3>1. scans' = [scans EXCEPT ![s] = NoScan] /\ UNCHANGED <<UnmovedByScans, lease, found, meets>> /\ Turn
            BY <2>2 DEF ScannerEnds
        <3> QED  BY <3>1, NoScanIsSound, ScanOnlyMoves DEF RulesInv, RulesTypes
    <2>3. CASE ScanFails(s)  BY <2>3, EndsKeeps DEF ScanFails
    <2> QED
        BY <2>1, <2>2, <2>3, ScanHearsKeeps, ScanTurnsKeeps, ScanLeavesFeedKeeps, ScanLooksKeeps, ScanClaimsKeeps,
           ScanEnrolsKeeps DEF ScanGoesOn
<1>5. CASE UNCHANGED rulesVars
    <2>1. /\ UNCHANGED <<rules, scans, found, before, lease, pausing, turns, listed, begun, byHand, skipped, meets, joiner>>
        BY <1>5 DEF rulesVars
    <2>2. JoinIsSound'  BY <2>1, JoinStaysSound
    <2> QED  BY <2>1, <2>2, OthersMove DEF RulesInv, RulesTypes
<1> QED  BY <1>1, <1>2, <1>3, <1>4, <1>5, PeopleKeep, JoinStepsKeep DEF RulesNext

LEMMA RulesInvSuffices == RulesInv => RulesTypeOK /\ OncePerCall /\ OnlyWhatIsNew
<1> SUFFICES ASSUME RulesInv PROVE RulesTypeOK /\ OncePerCall /\ OnlyWhatIsNew  OBVIOUS
<1>1. OncePerCall
    <2> SUFFICES ASSUME NEW f \in Feed, NEW g \in Feed, NEW c \in Occasion, meets[f, c] # "none", meets[g, c] # "none"
                 PROVE  f = g
        BY DEF OncePerCall
    <2>1. <<f, c>> \in Entry /\ <<g, c>> \in Entry  BY DEF Entry
    <2> QED  BY <2>1 DEF RulesInv, ClaimedFirst, ClaimedOnce
<1>2. RulesTypeOK
    <2>1. \A p \in Owner : /\ rules[p] \in RuleRow /\ rules[p].feeds \cup rules[p].base \subseteq {f \in Feed : FeedOwner[f] = p}
                           /\ lease[p] \in Scanner \cup {Nobody} /\ before[p] \subseteq Occasion
        BY DEF RulesInv, RulesTypes, OldIsListed, Own
    <2>2. \A s \in Scanner : /\ scans[s].pc \in {"idle", "asked", "turns", "looks", "judged", "claimed", "made", "scheduled"}
                             /\ scans[s].left \subseteq Occasion /\ scans[s].count \in 0 .. MaxPerScan
        BY DEF RulesInv, RulesTypes, Scan
    <2>3. joiner.pc \in {"idle", "first", "claims", "second", "joins"}  BY DEF RulesInv, RulesTypes, Join
    <2>4. /\ listed \in [Feed -> SUBSET Occasion] /\ begun \subseteq Occasion /\ byHand \subseteq Occasion
          /\ found \in [Entry -> Occurrence] /\ meets \in [Entry -> Meet] /\ skipped \subseteq Entry /\ turns \in 0 .. MaxTurns
        BY DEF RulesInv, RulesTypes
    <2> QED  BY <2>1, <2>2, <2>3, <2>4 DEF RulesTypeOK, Meet
<1> QED  BY <1>1, <1>2 DEF RulesInv

\* An assistant enters where the last answer found that the rule asks for it
LEMMA JoinsAreAllowed == RulesInv /\ [RulesNext]_rulesVars => [SentAsTheRulesSay]_rulesVars
<1> SUFFICES ASSUME RulesInv, RulesNext, NEW e \in Entry, meets[e] # "joined", meets'[e] = "joined"
             PROVE  Allowed(e) \/ joiner.late
    BY DEF SentAsTheRulesSay
<1>1. meets \in [Entry -> Meet]  BY DEF RulesInv, RulesTypes
<1>2. JoinEnds => joiner.pc = "joins" /\ e = joiner.of
    BY <1>1 DEF JoinEnds, RulesInv, JoinIsSound
<1>3. CASE JoinEnds  BY <1>2, <1>3 DEF RulesInv, JoinIsSound
<1>4. CASE ~JoinEnds
    <2>1. ASSUME NEW p \in Owner, CancelPending(p) PROVE FALSE  BY <1>1, <2>1 DEF CancelPending
    <2>2. ASSUME NEW s \in Scanner, ScanGoesOn(s) \/ ScannerEnds(s) PROVE FALSE
        <3>1. meets' = meets \/ ScanMakes(s) \/ ScanSchedules(s)
            BY <2>2 DEF ScanGoesOn, ScannerEnds, ScanHears, ScanFails, ScanTurns, ScanLeavesFeed, ScanLooks, ScanClaims,
                        ScanNotes
        <3>2. CASE ScanMakes(s)  BY <1>1, <3>2 DEF ScanMakes
        <3>3. CASE ScanSchedules(s)  BY <1>1, <3>3 DEF ScanSchedules
        <3> QED  BY <3>1, <3>2, <3>3
    <2>3. ASSUME NEW d \in Entry, Skip(d) PROVE FALSE  BY <1>1, <2>3 DEF Skip
    <2>4. ASSUME JoinAnswered \/ ClaimsJoin \/ JoinMissed PROVE FALSE
        BY <1>1, <2>4 DEF JoinAnswered, ClaimsJoin, JoinMissed
    <2>5. meets' # meets  OBVIOUS
    <2>6. ~\E p \in Owner : \/ \E on, newOnly \in BOOLEAN, feeds \in SUBSET Feed : SaveRule(p, on, newOnly, feeds)
                            \/ LeaseEnds(p) \/ \E s \in Scanner : ScanBegins(s, p)
        <3>1. ASSUME NEW p \in Owner, NEW on \in BOOLEAN, NEW newOnly \in BOOLEAN, NEW feeds \in SUBSET Feed,
                     SaveRule(p, on, newOnly, feeds)
              PROVE  FALSE
            BY <2>5, <3>1 DEF SaveRule
        <3>2. ASSUME NEW p \in Owner, LeaseEnds(p) PROVE FALSE  BY <2>5, <3>2 DEF LeaseEnds
        <3>3. ASSUME NEW p \in Owner, NEW s \in Scanner, ScanBegins(s, p) PROVE FALSE  BY <2>5, <3>3 DEF ScanBegins
        <3> QED  BY <3>1, <3>2, <3>3
    <2>7. ~\E d \in Entry : Unskip(d) \/ DueJoin(d)  BY <2>5 DEF Unskip, DueJoin
    <2>8. ~\E c \in Occasion : ScheduleByHand(c) \/ CallBegins(c) \/ \E f \in Feed : EventAppears(f, c)
        BY <2>5 DEF ScheduleByHand, CallBegins, EventAppears
    <2> QED  BY <1>4, <2>1, <2>2, <2>3, <2>4, <2>6, <2>7, <2>8 DEF RulesNext, JoinGoesOn
<1> QED  BY <1>3, <1>4

\* For any people, calendars, calls and processes that scan: an assistant is sent to a call once,
\* only to a new one where the rule is for new ones, and only while the rule still asks for it
\* (calendar_automation.py).
THEOREM AssistantsGoWhereRulesSay == RulesSpec => RulesAreFollowed
<1>1. RulesInit => RulesInv  BY RulesBegun
<1>2. RulesInv /\ [RulesNext]_rulesVars => RulesInv'  BY RulesInductive
<1>3. RulesInv => RulesTypeOK /\ OncePerCall /\ OnlyWhatIsNew  BY RulesInvSuffices
<1>4. RulesInv /\ [RulesNext]_rulesVars => [SentAsTheRulesSay]_rulesVars  BY JoinsAreAllowed
<1> QED  BY <1>1, <1>2, <1>3, <1>4, PTL DEF RulesSpec, RulesAreFollowed

=============================================================================
