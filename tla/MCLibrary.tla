----------------------------- MODULE MCLibrary -----------------------------
(***************************************************************************)
(* Recordings, speaker labels, documents, the passages they become and      *)
(* knowledge bases keep rows of their own and never act on one another's:   *)
(* one run checks each of them alone, chosen by the initial state.          *)
(***************************************************************************)
EXTENDS Recordings, SpeakerLabels, DocumentIndexing, KnowledgeIndex, Passages, TLC

CONSTANTS k1, k2, n1, n2, d1, t1

VARIABLE part

libraryVars == <<part, recVars, speakerVars, docVars, indexVars, textVars>>

MCPersonOf == k1 :> n1 @@ k2 :> n2

\* Short and long words, a word of a sentence, blank lines, two levels of headings and the end of a page
WordLine(len, stop) == [kind |-> "words", words |-> <<[len |-> len, stop |-> stop]>>]
Rares    == {WordLine(20, FALSE), [kind |-> "heading", level |-> 2], [kind |-> "page"]}
Lines    == {WordLine(1, TRUE), WordLine(3, FALSE), [kind |-> "words", words |-> <<>>], [kind |-> "heading", level |-> 1]} \cup Rares
Speeches == [speaker : {n1, n2}, words : {<<[len |-> 2, stop |-> FALSE]>>, <<[len |-> 9, stop |-> TRUE]>>}]

LibraryInit ==
    /\ part \in {"recordings", "speakers", "documents", "knowledge", "passages"}
    /\ RecInit /\ SpeakerInit /\ IndexInit /\ PassageInit
    /\ DocInit /\ (part # "documents" => model = NoModel)

RecordingsAlone == part = "recordings" /\ RecNext /\ UNCHANGED <<speakerVars, docVars, indexVars, textVars>>
SpeakersAlone   == part = "speakers" /\ SpeakerNext /\ UNCHANGED <<recVars, docVars, indexVars, textVars>>
DocumentsAlone  == part = "documents" /\ DocNext /\ UNCHANGED <<recVars, speakerVars, indexVars, textVars>>
KnowledgeAlone  == part = "knowledge" /\ IndexNext /\ UNCHANGED <<recVars, speakerVars, docVars, textVars>>
PassagesAlone   == part = "passages" /\ PassageNext /\ UNCHANGED <<recVars, speakerVars, docVars, indexVars>>

LibraryNext ==
    /\ UNCHANGED part
    /\ RecordingsAlone \/ SpeakersAlone \/ DocumentsAlone \/ KnowledgeAlone \/ PassagesAlone

LibrarySpec == LibraryInit /\ [][LibraryNext]_libraryVars /\ RecFairness /\ DocFairness

\* Every row, every step under way and every bound keeps its type
LibraryTypeOK == RecTypeOK /\ SpeakerTypeOK /\ DocTypeOK /\ IndexTypeOK

\* What people bring in stays whole: every piece of audio that was taken is
\* heard once, and the passages of a document hold its words once and in order
NothingIsLost == NothingLost /\ PassagesKeepTheText

\* Nobody is answered from what is no longer there: chunks follow their
\* documents, vectors and saved answers the meetings as they now are
FoundIsCurrent == IndexFollowsDocuments /\ KnowledgeIsCurrent

\* What the background loops took up comes to an end: every recording is told
\* what became of it, every document is indexed or failed, through the ends of
\* the process, the retries and the changes of people meanwhile
LibrarySettles == RecordingSettles /\ DocumentsSettle
=============================================================================
