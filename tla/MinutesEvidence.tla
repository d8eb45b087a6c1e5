-------------------------- MODULE MinutesEvidence --------------------------
(***************************************************************************)
(* What the minutes of a meeting may say: the checks between the answer of  *)
(* a language model and the stored draft (minutes_service.py).              *)
(*                                                                         *)
(* The model cites segments by short numbers or by their ids, and invents   *)
(* both.  Citations are brought back to ids, a draft that leaves a speaker  *)
(* out is refused, what the transcript does not support is left out and the *)
(* rest is checked again; a draft whose transcript changed meanwhile is     *)
(* refused.  People correct who spoke, a later reading replaces the         *)
(* transcript, and people edit the draft, at any moment of the generation.  *)
(*                                                                         *)
(* A segment keeps who spoke, whether it is finalized, whether it is long   *)
(* enough to count, and whom its text names; wording is left out.           *)
(***************************************************************************)
EXTENDS Integers, Sequences, FiniteSets

CONSTANTS Seg,        \* segment ids
          Voice,      \* names
          NoVoice,     \* no name
          Unknown,    \* what is cited and does not exist
          Order,      \* the segments in the order they were spoken
          Transcript, \* transcripts the capture can deliver
          ModelDraft,    \* drafts a model can answer: sets of claims
          Rewritten,  \* drafts a person can save
          MaxChanged  \* bound: corrections and later readings

VARIABLES segs,      \* TranscriptSegmentRow by segment id
          fixes,     \* TranscriptSpeakerCorrectionRow
          transcriptRev,  \* TranscriptReviewStateRow.revision
          composing, \* generate_draft under way, between its reads and its await
          mom,       \* the draft: claims and transcript_revision; of and skewed are history
          sunk       \* history: a draft was refused for a claim after they were sorted out

evidenceVars == <<segs, fixes, transcriptRev, composing, mom, sunk>>

\* A task, what somebody said, or what somebody asked, and the segments cited for it
Claim    == [kind : {"action", "said", "asked"}, who : Voice \cup {NoVoice}, cites : SUBSET Seg]
Segments == [raw : Voice \cup {NoVoice}, done : BOOLEAN, long : BOOLEAN, names : SUBSET Voice]
Corrections == [Seg -> Voice \cup {NoVoice}]
Answer   == [kind : {"action", "said", "asked"}, who : Voice \cup {NoVoice}, cites : SUBSET (Seg \cup Nat \cup {Unknown})]
NoMom    == [claims |-> {}, of |-> {}, rev |-> 0, skewed |-> FALSE, st |-> "none"]
AtDesk   == [pc |-> "rest", snap |-> <<>>, rev |-> 0, at |-> 0]

\* What the schema of a draft lets through (SpeakerContribution: somebody said it)
ASSUME EvidenceAssumption ==
    /\ NoVoice \notin Voice /\ Unknown \notin Seg
    /\ Transcript \subseteq [Seg -> Segments]
    /\ \A d \in ModelDraft \cup Rewritten : \A c \in d : c \in Answer /\ (c.kind = "said" => c.who \in Voice)

\* A correction by a person stands before what the capture heard (get_transcript)
Speaker(s) == IF fixes[s] # NoVoice THEN fixes[s] ELSE segs[s].raw
Snapshot   == [s \in Seg |-> [speaker |-> Speaker(s), done |-> segs[s].done, long |-> segs[s].long, names |-> segs[s].names]]

EvidenceTypeOK ==
    /\ segs \in [Seg -> Segments] /\ fixes \in Corrections
    /\ transcriptRev \in 1..(MaxChanged + 1) /\ composing.pc \in {"rest", "read", "model"}
    /\ mom.st \in {"none", "generated", "edited"} /\ mom.claims \subseteq Claim /\ sunk \in BOOLEAN

-----------------------------------------------------------------------------
(***************************************************************************)
(* The checks of a draft                                                   *)
(***************************************************************************)

Finalized(snap) == {s \in Seg : snap[s].done}

\* S1, S2, ...: the finalized segments in the order they were spoken
ShortIds(snap) == SelectSeq(Order, LAMBDA s : snap[s].done)

Resolved(c, snap) ==
    CASE c \in Seg -> c
      [] c \notin Seg /\ c \in DOMAIN ShortIds(snap) -> ShortIds(snap)[c]
      [] OTHER -> Unknown

Normalized(claims, snap) == {[c EXCEPT !.cites = {Resolved(x, snap) : x \in @}] : c \in claims}

Substantive(snap) == {snap[s].speaker : s \in {x \in Finalized(snap) : snap[x].long}} \ {NoVoice}

AnybodyHeard(claims, snap) == \E c \in claims : c.kind = "said"

EveryoneHeard(claims, snap) == Substantive(snap) \subseteq {c.who : c \in {x \in claims : x.kind = "said"}}

\* Who said it, or, for a task, whom the words name
Backs(s, c, snap) == snap[s].speaker = c.who \/ (c.kind = "action" /\ c.who \in snap[s].names)

CitesUnfinished(c, snap) == [c EXCEPT !.cites = @ \cap Seg]

OnlyFinalized(c, snap) == [c EXCEPT !.cites = @ \cap Finalized(snap)]

\* Without evidence a claim goes; a task or a question whose person the evidence does not
\* support goes on without one, what somebody else said does not
Supported(claims, snap) ==
    LET cited == {OnlyFinalized(c, snap) : c \in claims}
        backed(c) == \E s \in c.cites : Backs(s, c, snap)
        stays == {c \in cited : c.cites # {} /\ (c.kind = "said" => backed(c))}
    IN {IF c.who = NoVoice \/ backed(c) THEN c ELSE [c EXCEPT !.who = NoVoice] : c \in stays}

Valid(claims, snap) ==
    \A c \in claims :
      /\ c.cites # {} /\ c.cites \subseteq Finalized(snap)
      /\ c.who # NoVoice => \E s \in c.cites : Backs(s, c, snap)

-----------------------------------------------------------------------------
(***************************************************************************)
(* Generating and editing (generate_draft, update)                         *)
(***************************************************************************)

\* The transcript and its revision are read one after the other
ReadTranscript ==
    /\ composing.pc = "rest" /\ \E s \in Seg : segs[s].done
    /\ composing' = [pc |-> "read", snap |-> Snapshot, rev |-> 0, at |-> transcriptRev]
    /\ UNCHANGED <<segs, fixes, transcriptRev, mom, sunk>>

AskModel ==
    /\ composing.pc = "read"
    /\ composing' = [composing EXCEPT !.pc = "model", !.rev = transcriptRev]
    /\ UNCHANGED <<segs, fixes, transcriptRev, mom, sunk>>

StillCurrent == transcriptRev = composing.rev

SettleDraft(claims) ==
    LET cited == Normalized(claims, composing.snap)
        kept == Supported(cited, composing.snap)
    IN /\ composing.pc = "model"
       /\ composing' = AtDesk
       /\ \/ /\ ~EveryoneHeard(cited, composing.snap)
             /\ UNCHANGED <<mom, sunk>>
          \/ /\ EveryoneHeard(cited, composing.snap) /\ ~Valid(kept, composing.snap)
             /\ sunk' = TRUE /\ UNCHANGED mom
          \/ /\ EveryoneHeard(cited, composing.snap) /\ Valid(kept, composing.snap) /\ StillCurrent
             /\ mom' = [claims |-> kept, of |-> cited, rev |-> composing.rev, skewed |-> composing.at # composing.rev,
                        st |-> "generated"]
             /\ UNCHANGED sunk
          \/ /\ EveryoneHeard(cited, composing.snap) /\ Valid(kept, composing.snap) /\ ~StillCurrent
             /\ UNCHANGED <<mom, sunk>>
       /\ UNCHANGED <<segs, fixes, transcriptRev>>

\* The provider fails, or answers no whole object (_parse_json)
ModelFails ==
    /\ composing.pc = "model" /\ composing' = AtDesk
    /\ UNCHANGED <<segs, fixes, transcriptRev, mom, sunk>>

AnyText(claims) == mom.st # "none"

\* The person's text is checked against the transcript as it is; the revision of the draft stays
MayEdit(claims) == mom.st # "none" /\ Valid(claims, Snapshot)

UpdateMom(claims) ==
    /\ MayEdit(claims)
    /\ mom' = [mom EXCEPT !.claims = claims, !.of = claims, !.st = "edited"]
    /\ UNCHANGED <<segs, fixes, transcriptRev, composing, sunk>>

-----------------------------------------------------------------------------
(***************************************************************************)
(* The transcript (correct_speaker, replace_transcript)                    *)
(***************************************************************************)

CorrectSpeaker(s, name) ==
    /\ fixes[s] # name /\ transcriptRev <= MaxChanged
    /\ fixes' = [fixes EXCEPT ![s] = name]
    /\ transcriptRev' = transcriptRev + 1
    /\ UNCHANGED <<segs, composing, mom, sunk>>

ReplaceTranscript(t) ==
    /\ segs # t /\ transcriptRev <= MaxChanged
    /\ segs' = t /\ transcriptRev' = transcriptRev + 1
    /\ UNCHANGED <<fixes, composing, mom, sunk>>

EvidenceInit ==
    /\ segs \in Transcript /\ fixes = [s \in Seg |-> NoVoice] /\ transcriptRev = 1
    /\ composing = AtDesk /\ mom = NoMom /\ sunk = FALSE

EvidenceNext ==
    \/ ReadTranscript \/ AskModel \/ ModelFails
    \/ \E a \in ModelDraft : SettleDraft(a)
    \/ \E e \in Rewritten : UpdateMom(e)
    \/ \E s \in Seg, n \in Voice \cup {NoVoice} : CorrectSpeaker(s, n)
    \/ \E t \in Transcript : ReplaceTranscript(t)

EvidenceSpec == EvidenceInit /\ [][EvidenceNext]_evidenceVars

-----------------------------------------------------------------------------
(***************************************************************************)
(* Properties                                                              *)
(***************************************************************************)

\* Minutes that may be approved say only what the transcript says as it is now:
\* while the revision they were made from is the current one, every claim rests
\* on finalized words and every name on who spoke them, whatever the model
\* invented, a correction changed meanwhile and a person wrote in.  The
\* exception: a change between the two reads of a generation (skewed).  One bad
\* citation never costs the draft, nothing that was supported is left out, and
\* no substantive speaker is, unless the model credits another's words to them.
MinutesAreGrounded ==
    /\ ~sunk
    /\ mom.st # "none" /\ mom.rev = transcriptRev /\ ~mom.skewed => Valid(mom.claims, Snapshot)
    /\ mom.st = "generated" /\ mom.rev = transcriptRev /\ ~mom.skewed =>
         /\ \A c \in mom.of : Valid({c}, Snapshot) => c \in mom.claims
         /\ \A s \in Seg : segs[s].done /\ segs[s].long /\ Speaker(s) # NoVoice =>
              \E c \in mom.of : c.kind = "said" /\ c.who = Speaker(s)
                                 /\ (c \in mom.claims \/ ~Valid({c}, Snapshot))
=============================================================================
