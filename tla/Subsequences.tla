---------------------------- MODULE Subsequences ----------------------------
(***************************************************************************)
(* The elements of a sequence at some of its positions, in their order,    *)
(* and what a loop over a sequence makes of a value.                       *)
(***************************************************************************)
EXTENDS Naturals, Sequences, FiniteSets

\* The n-th smallest number in P.
Nth(P, n) == CHOOSE p \in P : Cardinality({q \in P : q <= p}) = n

Ascending(P) == [n \in 1 .. Cardinality(P) |-> Nth(P, n)]

Pick(seq, P) == [n \in 1 .. Cardinality(P) |-> seq[Nth(P, n)]]

\* What becomes of a value that takes in one element after the other.
Folded(takingIn(_, _), value, seq) ==
    LET after[n \in 0 .. Len(seq)] ==
            IF n = 0 THEN value ELSE takingIn(after[n - 1], seq[n])
    IN  after[Len(seq)]
=============================================================================
