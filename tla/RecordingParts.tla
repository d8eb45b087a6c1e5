--------------------------- MODULE RecordingParts ---------------------------
(***************************************************************************)
(* How the audio of a recording is cut for the transcription provider       *)
(* (in_person_audio.py): the pieces of a recording in order, grouped into   *)
(* the streams of the recorder, each cut into the fewest parts a request    *)
(* may carry; neighbouring parts share a piece.  A piece is its duration:   *)
(* bytes and milliseconds are limited the same way.                         *)
(***************************************************************************)
EXTENDS Integers, Sequences, FiniteSets

CONSTANT MaxPart    \* max_ms / max_bytes of a request, in the unit of a piece

ASSUME PartAssumption == MaxPart \in Nat \ {0}

\* A piece: [len |-> duration, starts |-> stream_start]; meta is the sequence of
\* pieces, so that piece seq is meta[seq + 1]
Length(meta, a, b) == LET sum[i \in (a-1)..b] == IF i < a THEN 0 ELSE sum[i-1] + meta[i].len
                      IN  sum[b]

-----------------------------------------------------------------------------
(***************************************************************************)
(* Plausible bug, see PROJECT.json                                         *)
(***************************************************************************)
SkipsWhatDidNotFit(start, end) == end + 1

\* streams(): the first piece of the stream a piece belongs to
StreamOf(meta, i) == CHOOSE f \in 1..i :
    /\ meta[f].starts \/ f = 1
    /\ \A j \in (f+1)..i : ~meta[j].starts

StreamEnd(meta, i) == CHOOSE e \in i..Len(meta) :
    /\ e = Len(meta) \/ meta[e+1].starts
    /\ \A j \in (i+1)..e : ~meta[j].starts

\* The longest run from start that fits; one piece always does
PartEnd(meta, start) == CHOOSE e \in start..StreamEnd(meta, start) :
    /\ \A j \in (start+1)..e : Length(meta, start, j) <= MaxPart
    /\ e = StreamEnd(meta, start) \/ Length(meta, start, e + 1) > MaxPart

\* Where the next part of the stream begins: one piece back, but ahead of this start
NextStart(start, end) == IF end > start THEN end ELSE start + 1

\* plan_parts(): [first, last] of every part, in order
PlanParts(meta) ==
    LET from[i \in 1..(Len(meta) + 1)] ==
            IF i > Len(meta) THEN << >>
            ELSE LET e == PartEnd(meta, i)
                     next == IF e = StreamEnd(meta, i) THEN e + 1 ELSE NextStart(i, e)
                 IN  <<[first |-> i, last |-> e]>> \o from[next]
    IN  from[1]
=============================================================================
