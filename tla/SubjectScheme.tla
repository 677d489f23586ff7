---------------------------- MODULE SubjectScheme ----------------------------
(***************************************************************************)
(* Subject schemes (subject.go): composing subjects from values, and       *)
(* taking them apart again.  A text is the sequence of what stands between *)
(* its slashes, so that a value that holds a slash has several parts; a    *)
(* part is one of a few names, is empty, or holds a character that         *)
(* EventSourcingDB does not allow.                                         *)
(***************************************************************************)
EXTENDS Naturals, Sequences, SequencesExt, Subsequences

CONSTANTS
    Names,      \* parts of allowed characters only, at least one of them
    EmptyPart,  \* an empty part
    OddPart     \* a part that holds other characters

Parts == Names \cup {EmptyPart, OddPart}

\* A segment of a pattern: a literal, a placeholder in a pair of braces, or one
\* with braces elsewhere.
Segments == [shape : {"literal", "placeholder", "malformed"}, name : Parts]

hasOnlySubjectCharacters(text) == Len(text) = 1 /\ text[1] # OddPart

PlaceholderPositions(scheme) ==
    Ascending({i \in DOMAIN scheme : scheme[i].shape = "placeholder"})

Placeholders(scheme) ==
    [k \in DOMAIN PlaceholderPositions(scheme) |-> scheme[PlaceholderPositions(scheme)[k]].name]

\* Whether NewSubjectScheme does not panic for a pattern that starts with a slash.
NewSubjectScheme(pattern) ==
    /\ \A i \in DOMAIN pattern : /\ pattern[i].shape # "malformed"
                                 /\ pattern[i].name \in Names
    /\ \A k, l \in DOMAIN Placeholders(pattern) :
          k # l => Placeholders(pattern)[k] # Placeholders(pattern)[l]

Root(scheme) ==
    LET first == IF PlaceholderPositions(scheme) = <<>> THEN Len(scheme)
                 ELSE PlaceholderPositions(scheme)[1] - 1
    IN  [i \in 1 .. first |-> scheme[i].name]

\* Mutant of check: the characters of the values go unchecked.
checkEmptyOnly(scheme, values) ==
    /\ Len(values) = Len(PlaceholderPositions(scheme))
    /\ \A k \in DOMAIN values : values[k] # <<EmptyPart>>

check(scheme, values) ==
    /\ Len(values) = Len(PlaceholderPositions(scheme))
    /\ \A k \in DOMAIN values : /\ values[k] # <<EmptyPart>>
                                /\ hasOnlySubjectCharacters(values[k])

\* The subject, if check accepts the values: Build panics otherwise.
Build(scheme, values) ==
    FlattenSeq([i \in DOMAIN scheme |->
        IF scheme[i].shape = "literal" THEN <<scheme[i].name>>
        ELSE values[CHOOSE k \in DOMAIN values : PlaceholderPositions(scheme)[k] = i]])

\* The values by placeholder, of a subject that starts with a slash.
Match(scheme, subject) ==
    IF /\ Len(subject) = Len(scheme)
       /\ \A i \in DOMAIN scheme :
             IF scheme[i].shape = "literal" THEN subject[i] = scheme[i].name
             ELSE subject[i] # EmptyPart /\ hasOnlySubjectCharacters(<<subject[i]>>)
    THEN [ok |-> TRUE,
          values |-> [p \in ToSet(Placeholders(scheme)) |->
             LET k == CHOOSE l \in DOMAIN Placeholders(scheme) : Placeholders(scheme)[l] = p
             IN  <<subject[PlaceholderPositions(scheme)[k]]>>]]
    ELSE [ok |-> FALSE, values |-> <<>>]

\* For a placeholder of the scheme: Value panics for any other.
Value(scheme, subject, placeholder) ==
    LET matched == Match(scheme, subject)
    IN  [ok |-> matched.ok,
         value |-> IF matched.ok THEN matched.values[placeholder] ELSE <<EmptyPart>>]

\* What a scheme makes of values, and of a subject.
SchemeAnswer(scheme, values, subject) ==
    LET matched == Match(scheme, subject)
        isFine == check(scheme, values)
        built == IF isFine THEN Build(scheme, values) ELSE <<>>
    IN  [isFine |-> isFine,
         built |-> built,
         back |-> [p \in ToSet(Placeholders(scheme)) |-> Value(scheme, built, p)],
         matched |-> matched.ok,
         again |-> IF matched.ok
                   THEN LET taken == [k \in DOMAIN Placeholders(scheme) |->
                                         matched.values[Placeholders(scheme)[k]]]
                        IN  IF check(scheme, taken) THEN Build(scheme, taken) ELSE <<>>
                   ELSE <<>>]

\* Build and Match are inverse to each other: values that Check lets pass come
\* back out of the subject Build makes of them, one by one, under the root that
\* a projection reads; and a subject that Match takes apart is the one Build
\* makes of its values again.
RoundTrips(scheme, values, subject, answer) ==
    /\ answer.isFine =>
          /\ \A k \in DOMAIN values :
                answer.back[Placeholders(scheme)[k]] = [ok |-> TRUE, value |-> values[k]]
          /\ IsPrefix(Root(scheme), answer.built)
    /\ answer.matched => answer.again = subject
=============================================================================
