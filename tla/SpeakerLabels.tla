---------------------------- MODULE SpeakerLabels ----------------------------
(***************************************************************************)
(* Who spoke in an in-person recording: the labels of each part made one    *)
(* set of letters (in_person_reconcile.py), the names proposed for them     *)
(* from what was said and from saved voice samples (in_person_naming.py,    *)
(* in_person_voice.py), and their review (in_person_names.py).              *)
(*                                                                         *)
(* What the provider and the text model answer is any value of its shape.   *)
(* A list that the code walks in order is a sequence of pairs; each of the  *)
(* three matchings takes a pair unless one of its sides is taken.           *)
(***************************************************************************)
EXTENDS Integers, Sequences, FiniteSets, Functions

CONSTANTS Local,      \* labels of one part, as numbers in sorted order
          VoiceKey,   \* known-speaker keys sent with a request
          Name,       \* names that can be proposed
          PersonOf,   \* [VoiceKey -> Name]: display names of the samples
          MaxParts,   \* bound
          MaxNamed,   \* bound: letters that names are proposed for
          MaxReviews  \* bound: approvals and refreshes

ASSUME SpeakerAssumption ==
    /\ Local \subseteq Int /\ IsFiniteSet(Local)
    /\ PersonOf \in [VoiceKey -> Name] /\ {MaxParts, MaxNamed, MaxReviews} \subseteq Nat

VARIABLES labels,     \* label of every local label of the current part
          count,      \* _Labels.count
          placed,     \* known_letters: key -> letter
          parts,      \* parts reconciled
          suggested,  \* name_suggestions: letter -> [name, conf, state, voice]
          reviewed,   \* letters whose lines were renamed by a person
          refreshing, \* the snapshot of a refresh under way
          reviews

speakerVars == <<labels, count, placed, parts, suggested, reviewed, refreshing, reviews>>

NotRefreshing == [on |-> FALSE, suggested |-> << >>, reviewed |-> {}]
Partial(A, B) == UNION {[S -> B] : S \in SUBSET A}
Lettered == {s \in 1..count : s <= MaxNamed}

-----------------------------------------------------------------------------
(***************************************************************************)
(* Plausible bug, see PROJECT.json                                         *)
(***************************************************************************)
ForgetsTheTaken(mapping, pair) == pair[1] \notin DOMAIN mapping

\* One pair of a matching: neither side may be taken
MayPair(mapping, pair) == pair[1] \notin DOMAIN mapping /\ pair[2] \notin Range(mapping)

Pair(mapping, pair) == [x \in DOMAIN mapping \cup {pair[1]} |->
                            IF x = pair[1] THEN pair[2] ELSE mapping[x]]

Match(mapping, pairs) ==
    LET upTo[i \in 0..Len(pairs)] ==
            IF i = 0 THEN mapping
            ELSE IF MayPair(upTo[i-1], pairs[i]) THEN Pair(upTo[i-1], pairs[i]) ELSE upTo[i-1]
    IN  upTo[Len(pairs)]

\* Pairs of a partial function in the order of its domain
InOrder(f) == LET D == DOMAIN f
                  nth == [i \in 1..Cardinality(D) |->
                            CHOOSE x \in D : Cardinality({y \in D : y < x}) = i - 1]
              IN  [i \in 1..Cardinality(D) |-> <<nth[i], f[nth[i]]>>]

\* _known_mapping(): keys an earlier part placed
KnownMapping(known) ==
    LET there == {l \in DOMAIN known : known[l] \in DOMAIN placed}
    IN  Match(<< >>, InOrder([l \in there |-> placed[known[l]]]))

\* _overlap_mapping(): local labels to running ones, the longest common speech first
OverlapMapping(overlap) == IF parts = 0 THEN << >> ELSE Match(<< >>, overlap)

\* _validated_continuity(): what the text model may settle
Continued(mapping, answer) == IF count = 0 THEN mapping ELSE Match(mapping, answer)

\* labels.new() for what stays unmapped, in sorted order
WithNew(mapping, locals, n) ==
    LET new == {l \in locals : l \notin DOMAIN mapping}
    IN  [l \in locals |-> IF l \in new THEN n + Cardinality({k \in new : k <= l}) ELSE mapping[l]]

\* known_letters.setdefault()
Placed(known, mapping) ==
    [k \in DOMAIN placed \cup Range(known) |->
        IF k \in DOMAIN placed THEN placed[k]
        ELSE mapping[CHOOSE l \in DOMAIN known : known[l] = k]]

\* reconcile(): keys first, then the overlap (pairs by seconds of common speech) when
\* the part follows in the same stream, then the text model, then new letters
ReconcilePart(locals, known, overlap, continuity) ==
    /\ parts < MaxParts /\ reviews = 0
    /\ LET byKey == KnownMapping(known)
           byOverlap == Match(byKey, InOrder(OverlapMapping(overlap)))
           byText == Continued(byOverlap, continuity)
           all == WithNew(byText, locals, count)
       IN  /\ labels' = all
           /\ count' = IF all = << >> THEN count
                       ELSE count + Cardinality({l \in locals : l \notin DOMAIN byText})
           /\ placed' = Placed(known, all)
    /\ parts' = parts + 1
    /\ UNCHANGED <<suggested, reviewed, refreshing, reviews>>

-----------------------------------------------------------------------------
\* validate_suggestions() keeps one claim of a speaker; _unique_names(): the
\* strongest claim keeps a name, a tie keeps neither (1 is high, 3 low)
UniqueNames(found) ==
    LET wins(s) == \A t \in DOMAIN found \ {s} :
                        found[t].name = found[s].name => found[s].conf < found[t].conf
    IN  [s \in {t \in DOMAIN found : wins(t)} |-> found[s]]

\* voice_matches(), voice_suggestions(): the letters the matched keys ended up under
VoiceSuggestions(matches) ==
    [s \in DOMAIN matches |-> [name |-> PersonOf[matches[s]], conf |-> 2, state |-> "suggested", voice |-> TRUE]]

\* merge(): a voice match wins its speaker, and its name from the others
Merge(spoken, voice) ==
    LET names == {voice[s].name : s \in DOMAIN voice}
        kept == {s \in DOMAIN spoken \ DOMAIN voice : spoken[s].name \notin names}
    IN  [s \in kept \cup DOMAIN voice |->
            IF s \in DOMAIN voice
            THEN IF s \in DOMAIN spoken /\ spoken[s].name = voice[s].name
                 THEN [voice[s] EXCEPT !.conf = 1] ELSE voice[s]
            ELSE spoken[s]]

Claims == [name : Name, conf : 1..2, state : {"suggested"}, voice : {FALSE}]

\* InPersonFinalizer._names(): a key is matched to one letter (voice_matches)
SuggestNames(found, matches) ==
    /\ parts > 0 /\ reviews = 0
    /\ \A s, t \in DOMAIN matches : matches[s] = matches[t] => s = t
    /\ suggested' = Merge(UniqueNames(found), VoiceSuggestions(matches))
    /\ reviews' = 1
    /\ labels' = << >> /\ placed' = << >> /\ parts' = 0     \* locals of reconcile()
    /\ UNCHANGED <<count, reviewed, refreshing>>

-----------------------------------------------------------------------------
Named == reviews > 0

\* approve(): the lines are renamed, then the suggestion marked
Approve(s) ==
    /\ Named /\ reviews < MaxReviews /\ reviews' = reviews + 1
    /\ reviewed' = reviewed \cup {s}
    /\ suggested' = [t \in DOMAIN suggested |->
                        IF t = s THEN [suggested[t] EXCEPT !.state = "approved"] ELSE suggested[t]]
    /\ UNCHANGED <<labels, count, placed, parts, refreshing>>

Dismiss(s) ==
    /\ Named /\ reviews < MaxReviews /\ reviews' = reviews + 1
    /\ s \in DOMAIN suggested
    /\ suggested' = [suggested EXCEPT ![s].state = "dismissed"]
    /\ UNCHANGED <<labels, count, placed, parts, reviewed, refreshing>>

\* refresh(): the snapshot and the open lines are read before the await
RefreshNames ==
    /\ Named /\ reviews < MaxReviews /\ reviews' = reviews + 1 /\ ~refreshing.on
    /\ refreshing' = [on |-> TRUE, suggested |-> suggested, reviewed |-> reviewed]
    /\ UNCHANGED <<labels, count, placed, parts, suggested, reviewed>>

RefreshEnds(found) ==
    /\ refreshing.on
    /\ LET old == refreshing.suggested
           kept == {s \in DOMAIN old : old[s].state = "approved"}
           voice == [s \in {t \in DOMAIN old : old[t].state = "suggested" /\ old[t].voice} |-> old[s]]
           fresh == Merge(UniqueNames(found), voice)
           open == {s \in DOMAIN fresh : s \notin kept /\ s \notin refreshing.reviewed}
       IN  suggested' = [s \in kept \cup open |-> IF s \in kept THEN old[s] ELSE fresh[s]]
    /\ refreshing' = NotRefreshing
    /\ UNCHANGED <<labels, count, placed, parts, reviewed, reviews>>

\* SpeakerNamingService._rows(): lines a person renamed count as approved
ShownState(s) == IF s \in reviewed THEN "approved"
                 ELSE IF s \in DOMAIN suggested THEN suggested[s].state ELSE "none"

-----------------------------------------------------------------------------
SpeakerInit ==
    /\ labels = << >> /\ count = 0 /\ placed = << >> /\ parts = 0
    /\ suggested = << >> /\ reviewed = {} /\ refreshing = NotRefreshing /\ reviews = 0

Known_ == {f \in Partial(Local, VoiceKey) : IsInjective(f)}
Pairs(most) == UNION {[1..i -> Local \X (1..count)] : i \in 0..(IF count = 0 THEN 0 ELSE most)}

SpeakerNext ==
    \/ \E known \in Known_, overlap \in Pairs(2), continuity \in Pairs(1) :
            ReconcilePart(Local, known, overlap, continuity)
    \/ \E found \in Partial(Lettered, Claims), matches \in Partial(Lettered, VoiceKey) :
            SuggestNames(found, matches)
    \/ \E s \in Lettered : Approve(s) \/ Dismiss(s)
    \/ RefreshNames \/ \E found \in Partial(Lettered, Claims) : RefreshEnds(found)

SpeakerTypeOK ==
    /\ DOMAIN labels \subseteq Local /\ Range(labels) \subseteq 1..count
    /\ DOMAIN suggested \subseteq 1..count /\ reviewed \subseteq 1..count

\* Two people whose samples carry one name
Namesakes(name) == \E j, k \in VoiceKey : j # k /\ PersonOf[j] = name /\ PersonOf[k] = name

\* No name is proposed for two speakers, unless the voices of two people of that
\* name were recognised
OneNameEach(proposed) ==
    \A s, t \in DOMAIN proposed :
        s # t /\ {proposed[s].state, proposed[t].state} = {"suggested"} =>
            \/ proposed[s].name # proposed[t].name
            \/ proposed[s].voice /\ proposed[t].voice /\ Namesakes(proposed[s].name)

\* Two voices of a part never share a letter, no name is proposed for two speakers
\* unless a person approved one of them, and a name a person gave is shown as given
\* even when a refresh asked before writes its older suggestions
\* (reconcile, merge, _unique_names, _rows).
SpeakersApart ==
    /\ IsInjective(labels) /\ OneNameEach(suggested)
    /\ \A s \in reviewed : ShownState(s) = "approved"
=============================================================================
