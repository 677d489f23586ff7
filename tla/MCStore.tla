------------------------------- MODULE MCStore -------------------------------
(***************************************************************************)
(* Instances of Store for TLC.                                             *)
(***************************************************************************)
EXTENDS Store, TLC

CONSTANTS c1, c2, st1, s1, s2, d1, d2

TwoCallers == {c1, c2}
OneStore == {st1}
SameStore == [c \in Callers |-> st1]
RoomForOne == [s \in {st1} |-> 1]
RoomForTwo == [s \in {st1} |-> 2]
OneType == [d \in Defs |-> "counter"]
TypeNames == {"counter"}

OnStateReadP == [kind |-> "onStateRead"]
UnconditionallyP == [kind |-> "unconditionally"]
PristineP(s) == [kind |-> "pristine", subject |-> s, id |-> 0]

\* OnStateRead with another precondition on another subject, and nothing checked
\* at all; then OnStateRead alone as well, and declarations that are refused.
RaceDeclarations == {<<OnStateReadP, PristineP(s2)>>, <<UnconditionallyP>>}
AllDeclarations ==
    RaceDeclarations \cup {<<OnStateReadP>>, <<UnconditionallyP, OnStateReadP>>, <<>>,
                             <<[kind |-> "notARevision"]>>}

OneDecision == {<<"plain">>}
FullDecision == {<<"full", "plain">>}
OneWrite == {<<[subject |-> s1, type |-> "plain"]>>, <<>>}

\* Three events at once: two on one subject, so that a read that was requested
\* before may hand out just the first, which is one a state may start from, and
\* one on another, so that a cache with room for one subject evicts as soon as
\* both are read.
OneLongWrite ==
    {<<[subject |-> s1, type |-> "full"], [subject |-> s1, type |-> "plain"],
       [subject |-> s2, type |-> "plain"]>>}

Symmetry == Permutations({c1, c2})
=============================================================================
