-------------------------------- MODULE Query --------------------------------
(***************************************************************************)
(* The query package (query.go).  A view hands out its items one by one,   *)
(* and may fail in between, and a query reads no further than it has to:   *)
(* so a sequence is its items, each with the number of elements of the     *)
(* view that are read once it comes out, and how it ends; finding the end  *)
(* of the view counts as reading one more.  The functions of the           *)
(* application are one predicate, one conversion and one key.              *)
(***************************************************************************)
EXTENDS Naturals, Sequences, SequencesExt, FiniteSetsExt, Subsequences

CONSTANTS
    Items,        \* items of a view, numbers
    Failure,      \* the error a view hands out, as an element of its own
    EndOfView,    \* what comes after the last element
    ErrNoItems, ErrTooManyItems

ASSUME QueryAssumption ==
    /\ Items \subseteq Nat
    /\ Failure \notin Items
    /\ EndOfView \notin Items \cup {Failure}
    /\ Failure \notin {ErrNoItems, ErrTooManyItems}

\* The functions of the application.
keep(x) == x > 1
convert(x) == x + 1
key(x) == x % 2

Element(x, read) == [x |-> x, read |-> read]

Sequence(items, fails, read) == [items |-> items, fails |-> fails, read |-> read]

\* The sequence of a view: its elements, of which only the last may be a failure.
SequenceOf(elements) ==
    LET fails == elements # <<>> /\ Last(elements) = Failure
        items == IF fails THEN Front(elements) ELSE elements
    IN  Sequence([i \in DOMAIN items |-> Element(items[i], i)], fails,
                 IF fails THEN Len(elements) ELSE Len(elements) + 1)

Where(s) == Sequence(Pick(s.items, {i \in DOMAIN s.items : keep(s.items[i].x)}), s.fails, s.read)

Select(s) ==
    Sequence([i \in DOMAIN s.items |-> Element(convert(s.items[i].x), s.items[i].read)],
             s.fails, s.read)

\* What the comparisons of OrderBy and OrderByDescending say.
isGreater(order, x, y) == IF order = "ascending" THEN key(x) > key(y) ELSE key(x) < key(y)

\* Every item goes behind those before it that do not compare as greater.
Inserted(sorted, order, item) ==
    LET before == {i \in DOMAIN sorted : ~isGreater(order, sorted[i], item)}
        place == IF before = {} THEN 0 ELSE Max(before)
    IN  SubSeq(sorted, 1, place) \o <<item>> \o SubSeq(sorted, place + 1, Len(sorted))

StableSort(items, order) ==
    LET insert(sorted, item) == Inserted(sorted, order, item)
    IN  Folded(insert, <<>>, items)

Sorted(s, order) ==
    LET sorted == StableSort([i \in DOMAIN s.items |-> s.items[i].x], order)
    IN  [i \in DOMAIN sorted |-> Element(sorted[i], s.read)]

\* Mutant of OrderByFunc: what came before a failure comes out sorted.
OrderByBeforeFailure(s, order) == Sequence(Sorted(s, order), s.fails, s.read)

OrderByFunc(s, order) == Sequence(IF s.fails THEN <<>> ELSE Sorted(s, order), s.fails, s.read)

OrderBy(s) == OrderByFunc(s, "ascending")

OrderByDescending(s) == OrderByFunc(s, "descending")

Skip(s, count) == Sequence(SubSeq(s.items, count + 1, Len(s.items)), s.fails, s.read)

\* Mutant of Take: it only stops once another item comes.
TakeAndPeek(s, count) ==
    IF Len(s.items) <= count THEN s
    ELSE Sequence(SubSeq(s.items, 1, count), FALSE, s.items[count + 1].read)

Take(s, count) ==
    IF count = 0 THEN Sequence(<<>>, FALSE, 0)
    ELSE IF Len(s.items) < count THEN s
    ELSE Sequence(SubSeq(s.items, 1, count), FALSE, s.items[count].read)

-----------------------------------------------------------------------------
(***************************************************************************)
(* Results: what is returned, and how many elements of the view were read. *)
(***************************************************************************)
Result(error, items, read) == [error |-> error, items |-> items, read |-> read]

FailureOf(s) == IF s.fails THEN {Failure} ELSE {}

ValuesOf(s) == IF s.fails THEN <<>> ELSE [i \in DOMAIN s.items |-> s.items[i].x]

Collect(s) == Result(FailureOf(s), ValuesOf(s), s.read)

Count(s) == Result(FailureOf(s), <<Len(ValuesOf(s))>>, s.read)

First(s) ==
    IF s.items # <<>> THEN Result({}, <<s.items[1].x>>, s.items[1].read)
    ELSE Result(FailureOf(s), <<>>, s.read)

Single(s) ==
    IF Len(s.items) > 1 THEN Result({ErrTooManyItems}, <<>>, s.items[2].read)
    ELSE IF s.fails THEN Result({Failure}, <<>>, s.read)
    ELSE Result(IF s.items = <<>> THEN {ErrNoItems} ELSE {}, ValuesOf(s), s.read)

\* Whether a match was found is whether an item is returned.
AnyMatch(s) ==
    LET matches == {i \in DOMAIN s.items : keep(s.items[i].x)}
    IN  IF matches # {} THEN Result({}, <<1>>, s.items[Min(matches)].read)
        ELSE Result(FailureOf(s), <<>>, s.read)

Steps == {"Where", "Select", "OrderBy", "OrderByDescending", "Skip", "Take"}
Ends == {"Collect", "Count", "First", "Single", "Any"}

Stepped(s, step) ==
    CASE step.kind = "Where" -> Where(s)
      [] step.kind = "Select" -> Select(s)
      [] step.kind = "OrderBy" -> OrderBy(s)
      [] step.kind = "OrderByDescending" -> OrderByDescending(s)
      [] step.kind = "Skip" -> Skip(s, step.count)
      [] step.kind = "Take" -> Take(s, step.count)

\* A query: steps one after another, and how their result is taken.
RunQuery(elements, steps, end) ==
    LET s == Folded(Stepped, SequenceOf(elements), steps)
    IN  CASE end = "Collect" -> Collect(s)
          [] end = "Count" -> Count(s)
          [] end = "First" -> First(s)
          [] end = "Single" -> Single(s)
          [] end = "Any" -> AnyMatch(s)

-----------------------------------------------------------------------------
Told(answer) == [error |-> answer.error, items |-> answer.items]

At(elements, i) == IF i \in DOMAIN elements THEN elements[i] ELSE EndOfView

Agree(one, other, n) == \A i \in 1 .. n : At(one, i) = At(other, i)

\* The steps read lazily: none needs everything before its first item, and none
\* drops what an earlier one was asked to stop at.
IsLazy(steps) ==
    /\ \A k \in DOMAIN steps : steps[k].kind \notin {"OrderBy", "OrderByDescending"}
    /\ \A k \in DOMAIN steps : steps[k].kind = "Take" =>
          \A l \in k + 1 .. Len(steps) : steps[l].kind = "Select"

\* What a query returns depends only on what it read: a view that goes on
\* differently after that gives the same result.  It fails with the error of a
\* view exactly if it read that error, and no part of a result is returned with
\* an error (Where, Skip, Take, OrderByFunc, Collect, First, Single, Any).
TellsWhatItRead(views, elements, steps, end, answer) ==
    /\ \A other \in views :
          Agree(elements, other, answer.read) => Told(RunQuery(other, steps, end)) = Told(answer)
    /\ Failure \in answer.error <=> \E i \in 1 .. answer.read : At(elements, i) = Failure
    /\ answer.error # {} => ToSet(answer.items) \subseteq {0}

\* A query of lazy steps reads nothing that can not change its result.  Left out
\* is what has to read more: OrderBy, which reads everything, Any, whose match
\* may be one that the steps before it never hand out, and Take followed by
\* another step than Select, which may drop what was taken.
ReadsJustEnough(views, elements, steps, end, answer) ==
    IsLazy(steps) /\ end # "Any" /\ answer.read > 0 =>
        \E other \in views : /\ Failure \notin ToSet(other)
                             /\ Agree(elements, other, answer.read - 1)
                             /\ Told(RunQuery(other, steps, end)) # Told(answer)
=============================================================================
