------------------------------ MODULE MCViewRun ------------------------------
(***************************************************************************)
(* ViewRun for TLC.  Neither keys nor values are compared with anything    *)
(* but each other, so both may be permuted.                                *)
(***************************************************************************)
EXTENDS ViewRun, TLC

\* One call puts an item in place; three are what it takes to change it, to add
\* it again and to remove it.
OneThenThree == <<1, 3>>

Symmetry == Permutations(Keys) \cup Permutations(Values)
=============================================================================
