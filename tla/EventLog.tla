------------------------------ MODULE EventLog ------------------------------
(***************************************************************************)
(* The database the kit writes to and reads from, EventSourcingDB.  It is  *)
(* not part of the repository: this module states what the kit's code      *)
(* relies on.  The log is one sequence of events across all subjects, and  *)
(* the ID of an event is its position, so IDs ascend across all subjects.  *)
(* NoEvent is the empty ID the kit uses for "no event yet".                *)
(***************************************************************************)
EXTENDS Naturals, Sequences

NoEvent == 0

\* An event type a state may start from (State.FromLatest): it carries the
\* whole state.  Every other type is "plain": it adds to the state before it.
EventTypes == {"plain", "full"}

On(log, s, e) == e \in DOMAIN log /\ log[e].subject = s

FullOn(log, s, e) == On(log, s, e) /\ log[e].type = "full"

\* e is the latest event of subject s among the first n events of the log.
IsLatest(log, s, e, n) ==
    /\ On(log, s, e) /\ e <= n
    /\ \A f \in e+1 .. n : ~On(log, s, f)

-----------------------------------------------------------------------------
(***************************************************************************)
(* Preconditions the database checks when it handles a write.              *)
(***************************************************************************)
Holds(log, p) ==
    CASE p.kind = "pristine"  -> \A e \in DOMAIN log : ~On(log, p.subject, e)
      [] p.kind = "populated" -> \E e \in DOMAIN log : On(log, p.subject, e)
      [] p.kind = "onEventID" -> IsLatest(log, p.subject, p.id, Len(log))

\* The indexes of the preconditions that do not hold.
ViolatedOf(log, preconditions) ==
    {i \in DOMAIN preconditions : ~Holds(log, preconditions[i])}

-----------------------------------------------------------------------------
(***************************************************************************)
(* The reference for a state: the history of subject s among the first n   *)
(* events of the log.  A "full" event replaces everything before it.       *)
(***************************************************************************)
Relevant(log, s, n) ==
    {e \in 1 .. n : /\ On(log, s, e)
                    /\ \A f \in e+1 .. n : ~FullOn(log, s, f)}

\* The state st is what folding the history of s up to n must yield: every
\* relevant event once, in the order of the log, and nothing else.
IsHistory(st, log, s, n) ==
    /\ \A i \in DOMAIN st : st[i] \in Relevant(log, s, n)
    /\ \A e \in Relevant(log, s, n) : \E i \in DOMAIN st : st[i] = e
    /\ \A i, j \in DOMAIN st : i < j => st[i] < st[j]
=============================================================================
