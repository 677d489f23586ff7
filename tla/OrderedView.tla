----------------------------- MODULE OrderedView -----------------------------
(***************************************************************************)
(* What a view promises its readers, without positions, an order with gaps *)
(* or an index: a sequence of items, each key once, in the order in which  *)
(* they were added.  An item changes in its place, and only for an event   *)
(* that is newer than the one that changed it last.                        *)
(***************************************************************************)
EXTENDS Naturals, Sequences, Subsequences

CONSTANT Keys

VARIABLE items

Init == items = <<>>

IsNewer(event, item) ==
    \/ event.number > item.number
    \/ event.number = item.number /\ event.part > item.part

Has(seq, key) == \E i \in DOMAIN seq : seq[i].key = key

-----------------------------------------------------------------------------
(***************************************************************************)
(* What a call for one event means, as functions of the items.             *)
(***************************************************************************)
Added(seq, key, value, event) ==
    IF Has(seq, key) THEN seq
    ELSE Append(seq, [key |-> key, value |-> value, number |-> event.number,
                      part |-> event.part])

Changed(seq, keys, value, event) ==
    [i \in DOMAIN seq |->
        IF seq[i].key \in keys /\ IsNewer(event, seq[i])
        THEN [seq[i] EXCEPT !.value = value, !.number = event.number, !.part = event.part]
        ELSE seq[i]]

Removed(seq, keys, event) ==
    Pick(seq, {i \in DOMAIN seq : ~(seq[i].key \in keys /\ IsNewer(event, seq[i]))})

-----------------------------------------------------------------------------
(***************************************************************************)
(* What a call may do at all.                                              *)
(***************************************************************************)
Add(before, after) ==
    /\ Len(after) = Len(before) + 1
    /\ SubSeq(after, 1, Len(before)) = before
    /\ ~Has(before, after[Len(after)].key)

\* All items that change do so for one event, and to one value.
Change(before, after) ==
    LET moved == {i \in DOMAIN before : after[i] # before[i]}
    IN  /\ Len(after) = Len(before)
        /\ \A i \in moved :
              /\ after[i].key = before[i].key
              /\ IsNewer(after[i], before[i])
              /\ \A j \in moved : after[j] = [after[i] EXCEPT !.key = before[j].key]

Remove(before, after) ==
    \E keys \in SUBSET Keys :
        after = Pick(before, {i \in DOMAIN before : before[i].key \notin keys})

Step(before, after) == Add(before, after) \/ Change(before, after) \/ Remove(before, after)

Next == \E before \in {items}, after \in {items'} : Step(before, after)

Spec == Init /\ [][Next]_items
=============================================================================
