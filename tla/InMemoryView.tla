---------------------------- MODULE InMemoryView ----------------------------
(***************************************************************************)
(* A view held in memory, with one secondary index (in_memory_view.go), as *)
(* operators on its value.  Its functions hold a mutex throughout, so each *)
(* is atomic.                                                              *)
(*                                                                         *)
(*   entries   the map: key -> [value, number, part, position], value      *)
(*             being what the index takes from the item, number and part   *)
(*             the event that changed it last                              *)
(*   order     the keys as they were inserted, those deleted since         *)
(*             included                                                    *)
(*   hasIndex  whether the index has been added                            *)
(*   index     the keys of the index by value, {} for a value without any  *)
(*                                                                         *)
(* Positions count from 1.  A function that changes the view returns the   *)
(* new view and its outcome.                                               *)
(***************************************************************************)
EXTENDS Naturals, Sequences, FiniteSets, Subsequences

CONSTANTS
    Keys,
    Values,  \* what the index takes from an item
    Slack    \* how many deleted keys compact tolerates in any case, 16 in the code

ASSUME ViewAssumption == Slack \in Nat \ {0}

None == "none"

newInMemoryView ==
    [entries |-> [k \in {} |-> k], order |-> <<>>, hasIndex |-> FALSE,
     index |-> [v \in Values |-> {}]]

IsFound(view, key) == key \in DOMAIN view.entries

\* A key that was deleted and inserted again counts at its new position only.
IsCurrent(view, position) ==
    LET key == view.order[position]
    IN  IsFound(view, key) /\ view.entries[key].position = position

CurrentPositions(view) == {p \in DOMAIN view.order : IsCurrent(view, p)}

CurrentKeys(view) == Pick(view.order, CurrentPositions(view))

ItemOf(key, entry) ==
    [key |-> key, value |-> entry.value, number |-> entry.number, part |-> entry.part]

All(view) ==
    LET keys == CurrentKeys(view)
    IN  [i \in DOMAIN keys |-> ItemOf(keys[i], view.entries[keys[i]])]

keysWhere(view, value) ==
    Pick(view.order,
         {p \in CurrentPositions(view) : view.entries[view.order[p]].value = value})

-----------------------------------------------------------------------------
(***************************************************************************)
(* The index.                                                              *)
(***************************************************************************)
IndexAdd(view, key, value) ==
    IF view.hasIndex
    THEN [view EXCEPT !.index[value] = @ \cup {key}]
    ELSE view

IndexRemove(view, key, value) ==
    IF view.hasIndex
    THEN [view EXCEPT !.index[value] = @ \ {key}]
    ELSE view

Index(view) ==
    [view EXCEPT
        !.hasIndex = TRUE,
        !.index = [v \in Values |->
            {k \in DOMAIN view.entries : /\ view.entries[k].value = v
                                         /\ \E p \in DOMAIN view.order : view.order[p] = k}]]

PositionsOf(view, keys) == {view.entries[k].position : k \in keys}

KeyAt(view, keys, position) == CHOOSE k \in keys : view.entries[k].position = position

\* Mutant of keysOf: the keys are sorted the wrong way.
keysOfNewestFirst(view, value) ==
    LET keys == view.index[value]
        positions == PositionsOf(view, keys)
    IN  [n \in 1 .. Cardinality(positions) |->
            KeyAt(view, keys, Nth(positions, Cardinality(positions) + 1 - n))]

\* The keys that the index holds for a value, sorted by their positions.
keysOf(view, value) ==
    LET keys == view.index[value]
        positions == PositionsOf(view, keys)
    IN  [n \in 1 .. Cardinality(positions) |-> KeyAt(view, keys, Nth(positions, n))]

Lookup(view, value) ==
    LET keys == keysOf(view, value)
    IN  [i \in DOMAIN keys |-> ItemOf(keys[i], view.entries[keys[i]])]

-----------------------------------------------------------------------------
(***************************************************************************)
(* Changing the view.                                                      *)
(***************************************************************************)

\* Mutant of isNewerThan: the part of the event is not looked at.
isNewerByNumber(event, entry) == event.number > entry.number

isNewerThan(event, entry) ==
    \/ event.number > entry.number
    \/ event.number = entry.number /\ event.part > entry.part

Outcome(view, outcome) == [view |-> view, outcome |-> outcome]

add(view, key, value, event) ==
    LET added == [view EXCEPT
            !.entries = [k \in DOMAIN view.entries \cup {key} |->
                IF k = key
                THEN [value |-> value, number |-> event.number, part |-> event.part,
                      position |-> Len(view.order) + 1]
                ELSE view.entries[k]],
            !.order = Append(@, key)]
    IN  IndexAdd(added, key, value)

\* The change sets the value; it changes the key as well if it is broken.
change(view, key, event, value, isBroken) ==
    CASE ~IsFound(view, key) -> Outcome(view, "Missing")
      [] IsFound(view, key) /\ ~isNewerThan(event, view.entries[key]) ->
            Outcome(view, "AlreadyApplied")
      [] OTHER ->
            LET old == view.entries[key]
                reindexed == IndexAdd(IndexRemove(view, key, old.value), key, value)
            IN  IF isBroken
                THEN Outcome(view, "error")
                ELSE Outcome([reindexed EXCEPT !.entries[key] =
                                [@ EXCEPT !.value = value, !.number = event.number,
                                          !.part = event.part]],
                             "Applied")

\* Mutant of compact: the order is never cleaned up.
compactNever(view) == view

compact(view) ==
    IF Len(view.order) < 2 * Cardinality(DOMAIN view.entries) + Slack THEN view
    ELSE LET order == CurrentKeys(view)
         IN  [view EXCEPT
                !.order = order,
                !.entries = [k \in DOMAIN view.entries |->
                    [view.entries[k] EXCEPT
                        !.position = CHOOSE p \in DOMAIN order : order[p] = k]]]

delete(view, key, event) ==
    CASE ~IsFound(view, key) -> Outcome(view, "Missing")
      [] IsFound(view, key) /\ ~isNewerThan(event, view.entries[key]) ->
            Outcome(view, "AlreadyApplied")
      [] OTHER ->
            LET unindexed == IndexRemove(view, key, view.entries[key].value)
            IN  Outcome(compact([unindexed EXCEPT !.entries =
                            [k \in DOMAIN view.entries \ {key} |-> view.entries[k]]]),
                        "Applied")

\* One key after the other; the first error ends it, and what was changed by
\* then stays.
changeAll(view, keys, event, value, brokenKey) ==
    LET result[n \in 0 .. Len(keys)] ==
            IF n = 0 THEN Outcome(view, "Applied")
            ELSE LET before == result[n - 1]
                 IN  IF before.outcome = "error" THEN before
                     ELSE change(before.view, keys[n], event, value, keys[n] = brokenKey)
    IN  result[Len(keys)]

deleteAll(view, keys, event) ==
    LET result[n \in 0 .. Len(keys)] ==
            IF n = 0 THEN Outcome(view, "Applied")
            ELSE delete(result[n - 1].view, keys[n], event)
    IN  result[Len(keys)]

-----------------------------------------------------------------------------
(***************************************************************************)
(* What a handler calls.                                                   *)
(***************************************************************************)
Insert(view, event, key, value) ==
    CASE ~IsFound(view, key) -> Outcome(add(view, key, value, event), "Added")
      [] IsFound(view, key) /\ isNewerThan(event, view.entries[key]) -> Outcome(view, "error")
      [] OTHER -> Outcome(view, "AlreadyApplied")

\* Mutant of Upsert: an existing item is replaced, however new it is.
UpsertAnyway(view, key, event, value, isBroken) ==
    IF isBroken THEN Outcome(view, "error")
    ELSE Outcome(add(view, key, value, event), "Added")

Upsert(view, key, event, value, isBroken) ==
    CASE IsFound(view, key) -> change(view, key, event, value, isBroken)
      [] ~IsFound(view, key) /\ isBroken -> Outcome(view, "error")
      [] OTHER -> Outcome(add(view, key, value, event), "Added")

UpdateWhere(view, value, event, newValue, brokenKey) ==
    changeAll(view, keysWhere(view, value), event, newValue, brokenKey)

DeleteWhere(view, value, event) == deleteAll(view, keysWhere(view, value), event)

IndexUpdate(view, value, event, newValue, brokenKey) ==
    changeAll(view, keysOf(view, value), event, newValue, brokenKey)

IndexDelete(view, value, event) == deleteAll(view, keysOf(view, value), event)
=============================================================================
