------------------------------ MODULE Passages ------------------------------
(***************************************************************************)
(* How a text becomes the passages that are searched: chunking.py, used by  *)
(* the indexing worker for documents and the organization brief, and by     *)
(* meeting_chunks.py for the transcript of a meeting.                       *)
(*                                                                         *)
(* A word is its length and whether a sentence ends with it; a line of a    *)
(* document is a heading, the end of a page or words (none: a blank line).  *)
(* What joins two words counts one character.  The text is written line by  *)
(* line, and a talk segment by segment: every prefix is a text of its own.  *)
(***************************************************************************)
EXTENDS Integers, SequencesExt

CONSTANTS Line,         \* the lines a document is made of
          RareLine,     \* those of them a text has at most MaxRare of
          Segment,      \* transcript segments: [speaker, words]
          TokenChars,   \* characters a token stands for
          MinTokens, MaxTokens, TurnMaxTokens,
          MaxLines, MaxRare, MaxSegments  \* bounds: the size of a text and of a talk

Word == [len : Nat, stop : BOOLEAN]

ASSUME TextAssumption ==
    /\ TokenChars \in Nat \ {0} /\ {MinTokens, MaxTokens, TurnMaxTokens} \subseteq Nat
    /\ \A l \in Line : l.kind \in {"words", "heading", "page"} /\ (l.kind = "words" => l.words \in Seq(Word))
    /\ \A s \in Segment : s.words \in Seq(Word)

VARIABLES extracted,  \* extracted_text of the document
          talk        \* the canonical segments of a meeting's transcript

textVars == <<extracted, talk>>

Up(n, d) == (n + d - 1) \div d
LenSum(ws) == FoldLeft(LAMBDA n, w : n + w.len, 0, ws)

\* estimate_tokens of words joined by one character each
Tokens(ws) == IF ws = <<>> THEN 0 ELSE Up(LenSum(ws) + Len(ws) - 1, TokenChars)

Sum(sizes) == FoldLeft(LAMBDA n, s : n + s, 0, sizes)
Joined(seqs) == FoldLeft(LAMBDA ws, s : ws \o s, <<>>, seqs)

\* The sentences of a text: each ends with a word that stops, the last one with the text
AddToSentences(ss, w) ==
    IF ss = <<>> \/ Last(Last(ss)).stop THEN Append(ss, <<w>>) ELSE [ss EXCEPT ![Len(ss)] = Append(@, w)]

Sentences(ws) == FoldLeft(AddToSentences, <<>>, ws)

-----------------------------------------------------------------------------
(***************************************************************************)
(* The blocks of a document (split_pages, _blocks)                         *)
(***************************************************************************)

NothingRead == [blocks |-> <<>>, para |-> <<>>, path |-> <<>>, page |-> 1, starts |-> FALSE]

\* The paragraph read so far becomes a block of the section it stands in
Flushed(r) ==
    IF r.para = <<>> THEN r
    ELSE [r EXCEPT !.blocks = Append(@, [words |-> r.para, path |-> r.path, page |-> r.page, starts |-> r.starts]),
                   !.para = <<>>, !.starts = FALSE]

\* A heading closes those of its own level and below
UnderHeading(path, level) == Append(SelectSeq(path, LAMBDA h : h < level), level)

ReadLine(r, line) ==
    CASE line.kind = "words" /\ line.words # <<>> -> [r EXCEPT !.para = @ \o line.words]
      [] line.kind = "words" /\ line.words = <<>> -> Flushed(r)
      [] line.kind = "page" -> [Flushed(r) EXCEPT !.page = @ + 1]
      [] line.kind = "heading" -> [Flushed(r) EXCEPT !.path = UnderHeading(@, line.level), !.starts = TRUE]

Blocks(lines) == Flushed(FoldLeft(ReadLine, NothingRead, lines)).blocks

-----------------------------------------------------------------------------
(***************************************************************************)
(* A paragraph that is too long (_split_long)                              *)
(***************************************************************************)

PutAway(p) == IF p.current = <<>> THEN p.pieces ELSE Append(p.pieces, p.current)

AddWord(limit, p, w) ==
    IF Tokens(Append(p.current, w)) > limit THEN [pieces |-> PutAway(p), current |-> <<w>>]
    ELSE [p EXCEPT !.current = Append(@, w)]

\* Sentence by sentence, and word by word within a sentence that does not fit alone
AddSentence(limit, p, s) ==
    CASE Tokens(p.current \o s) <= limit -> [p EXCEPT !.current = @ \o s]
      [] Tokens(p.current \o s) > limit /\ Tokens(s) <= limit -> [pieces |-> PutAway(p), current |-> s]
      [] OTHER -> FoldLeft(LAMBDA q, w : AddWord(limit, q, w), [pieces |-> PutAway(p), current |-> <<>>], s)

DropsTheRest(limit, ws) ==
    FoldLeft(LAMBDA p, s : AddSentence(limit, p, s), [pieces |-> <<>>, current |-> <<>>], Sentences(ws)).pieces

SplitLong(limit, ws) ==
    PutAway(FoldLeft(LAMBDA p, s : AddSentence(limit, p, s), [pieces |-> <<>>, current |-> <<>>], Sentences(ws)))

\* int(max_tokens * 0.8), int(max_tokens * OVERLAP_RATIO)
PieceTokens   == (MaxTokens * 8) \div 10
OverlapTokens == (MaxTokens * 15) \div 100

\* Every block of at most max_tokens as it is, a longer one in pieces; the first opens the section
Pieces(b) ==
    IF Tokens(b.words) <= MaxTokens THEN <<b>>
    ELSE LET ps == SplitLong(PieceTokens, b.words)
         IN [i \in 1..Len(ps) |-> [b EXCEPT !.words = ps[i], !.starts = @ /\ i = 1]]

-----------------------------------------------------------------------------
(***************************************************************************)
(* Packing the blocks into passages (_tail, chunk_document)                *)
(***************************************************************************)

\* The last sentences that fit, or else the last words
RepeatedEnd(ws) ==
    LET ss == Sentences(ws)
        fits == {n \in 0..Len(ss) : Tokens(Joined(SubSeq(ss, n + 1, Len(ss)))) <= OverlapTokens}
        first == CHOOSE n \in fits : \A k \in fits : n <= k
        count == IF (OverlapTokens * 3) \div 4 > 1 THEN (OverlapTokens * 3) \div 4 ELSE 1
    IN CASE OverlapTokens <= 0 -> <<>>
         [] OverlapTokens > 0 /\ first < Len(ss) -> Joined(SubSeq(ss, first + 1, Len(ss)))
         [] OTHER -> SubSeq(ws, IF Len(ws) > count THEN Len(ws) - count + 1 ELSE 1, Len(ws))

Empty == [chunks |-> <<>>, current |-> <<>>, overlap |-> <<>>]

WordsOf(blocks) == Joined([i \in DOMAIN blocks |-> blocks[i].words])
SizeOf(blocks)  == Sum([i \in DOMAIN blocks |-> Tokens(blocks[i].words)])

Emit(s) ==
    IF s.current = <<>> THEN s
    ELSE [chunks |-> Append(s.chunks, [blocks |-> s.current, overlap |-> s.overlap]), current |-> <<>>, overlap |-> <<>>]

\* A large enough passage ends where a section does; a full one anywhere, its end repeated in the next
SectionEnds(s, b) ==
    s.current # <<>> /\ b.starts /\ SizeOf(s.current) + Tokens(s.overlap) >= MinTokens

CountsNoOverlap(s, b) == s.current # <<>> /\ SizeOf(s.current) + Tokens(b.words) > MaxTokens

IsFull(s, b) ==
    s.current # <<>> /\ SizeOf(s.current) + Tokens(s.overlap) + Tokens(b.words) > MaxTokens

AddBlock(s, b) ==
    LET packed == CASE SectionEnds(s, b) -> Emit(s)
                    [] ~SectionEnds(s, b) /\ IsFull(s, b) -> [Emit(s) EXCEPT !.overlap = RepeatedEnd(WordsOf(s.current))]
                    [] OTHER -> s
    IN [packed EXCEPT !.current = Append(@, b)]

ChunkDocument(lines) ==
    LET bs == Blocks(lines)
        pieces == Joined([i \in DOMAIN bs |-> Pieces(bs[i])])
    IN Emit(FoldLeft(AddBlock, Empty, pieces)).chunks

-----------------------------------------------------------------------------
(***************************************************************************)
(* The turns of a talk (group_turns, turn_source_id)                       *)
(***************************************************************************)

SpeechOf(turn) == Joined([i \in DOMAIN turn |-> turn[i].words])

AnySpeaker(turns, seg) == turns # <<>> /\ Tokens(SpeechOf(Append(Last(turns), seg))) <= TurnMaxTokens

SameTurn(turns, seg) ==
    /\ turns # <<>>
    /\ Last(Last(turns)).speaker = seg.speaker
    /\ Tokens(SpeechOf(Append(Last(turns), seg))) <= TurnMaxTokens

AddSegment(turns, seg) ==
    IF SameTurn(turns, seg) THEN [turns EXCEPT ![Len(turns)] = Append(@, seg)] ELSE Append(turns, <<seg>>)

GroupTurns(segs) == FoldLeft(AddSegment, <<>>, segs)

-----------------------------------------------------------------------------
PassageInit == extracted = <<>> /\ talk = <<>>

NextLine ==
    /\ Len(extracted) < MaxLines /\ talk = <<>>
    /\ \E l \in Line :
         /\ l \in RareLine => Len(SelectSeq(extracted, LAMBDA k : k \in RareLine)) < MaxRare
         /\ extracted' = Append(extracted, l)
    /\ UNCHANGED talk

NextSegment ==
    /\ Len(talk) < MaxSegments /\ extracted = <<>>
    /\ \E s \in Segment : talk' = Append(talk, s)
    /\ UNCHANGED extracted

PassageNext == NextLine \/ NextSegment

-----------------------------------------------------------------------------
(***************************************************************************)
(* Properties                                                              *)
(***************************************************************************)

\* The words of a text, headings apart
AllWords(lines) ==
    Joined([i \in DOMAIN lines |-> IF lines[i].kind = "words" THEN lines[i].words ELSE <<>>])

\* Cutting a document into passages loses, repeats and reorders nothing: beside
\* what a passage repeats of the end of the one before it, the passages hold
\* every word once and in order, however a page, a heading or a sentence too long
\* for a passage falls.  No passage is fuller than max_tokens unless it is one
\* block after a repeated end or one word that cannot be cut, what a block
\* continues is repeated, and a passage is cut short only where a section starts
\* or the next block does not fit (chunk_document).
DocumentIsKept ==
    LET cs == ChunkDocument(extracted) IN
    /\ Joined([i \in DOMAIN cs |-> WordsOf(cs[i].blocks)]) = AllWords(extracted)
    /\ \A i \in DOMAIN cs :
         LET c == cs[i] IN
         /\ \/ SizeOf(c.blocks) + Tokens(c.overlap) <= MaxTokens
            \/ Len(c.blocks) = 1 /\ (Tokens(WordsOf(c.blocks)) <= MaxTokens \/ Len(WordsOf(c.blocks)) = 1)
         /\ i = 1 => c.overlap = <<>>
         /\ i > 1 => LET before == cs[i - 1] IN
              /\ IsSuffix(c.overlap, WordsOf(before.blocks))
              /\ \/ c.blocks[1].starts /\ SizeOf(before.blocks) + Tokens(before.overlap) >= MinTokens
                 \/ SizeOf(before.blocks) + Tokens(before.overlap) + Tokens(c.blocks[1].words) > MaxTokens
              /\ ~c.blocks[1].starts /\ OverlapTokens > 0 => c.overlap # <<>>

\* A passage of a meeting is the speech of one person: the turns hold every
\* segment once and in order, none is longer than TURN_MAX_TOKENS unless it is a
\* single segment, and two turns of one person follow each other only where they
\* are too long for one (group_turns).
TalkIsKept ==
    LET ts == GroupTurns(talk) IN
    /\ Joined(ts) = talk
    /\ \A i \in DOMAIN ts :
         /\ \A k \in DOMAIN ts[i] : ts[i][k].speaker = ts[i][1].speaker
         /\ Len(ts[i]) = 1 \/ Tokens(SpeechOf(ts[i])) <= TurnMaxTokens
         /\ i > 1 /\ ts[i - 1][1].speaker = ts[i][1].speaker
               => Tokens(SpeechOf(Append(ts[i - 1], ts[i][1]))) > TurnMaxTokens

PassagesKeepTheText == DocumentIsKept /\ TalkIsKept
=============================================================================
