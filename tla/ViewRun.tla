------------------------------ MODULE ViewRun ------------------------------
(***************************************************************************)
(* A typed projection that keeps a view in memory (typed_projection.go,    *)
(* revision.go, in_memory_view.go): the events arrive one after the other, *)
(* upcasters may split one into parts, and the handler of each part calls  *)
(* functions of the view.  A handler that fails for now makes the run try  *)
(* the whole event again, although some of its calls have taken effect.    *)
(*                                                                         *)
(* Handlers do the same whenever they get the same event: what they call   *)
(* for an event is chosen once, and repeated afterwards.                   *)
(***************************************************************************)
EXTENDS InMemoryView

CONSTANTS
    AddsAgain,   \* whether handlers may insert or upsert an item that they have
                 \* changed for the same part of the event
    MaxEvents,   \* bound: the number of events
    MaxCalls,    \* bound: the calls the handlers of each event make
    MaxRetries   \* bound: the number of times a handler fails for now

ASSUME RunAssumption ==
    /\ AddsAgain \in BOOLEAN /\ MaxEvents \in Nat /\ MaxRetries \in Nat
    /\ MaxCalls \in [1 .. MaxEvents -> Nat]

VARIABLES
    view,      \* the view
    revision,  \* its revision, 0 before any event
    pc,        \* "idle" between two events, "applying", "stopped" after an error
    number,    \* the event being applied, or applied last
    calls,     \* what the handlers call for it, as far as they have come
    next,      \* which of these calls is next
    retries,   \* the number of retries so far
    once       \* for the properties: the items, had every call been made just once

vars == <<view, revision, pc, number, calls, next, retries, once>>

Ordered == INSTANCE OrderedView WITH items <- All(view)

Init ==
    /\ view = newInMemoryView /\ revision = 0
    /\ pc = "idle" /\ number = 0 /\ calls = <<>> /\ next = 1 /\ retries = 0
    /\ once = <<>>

-----------------------------------------------------------------------------
(***************************************************************************)
(* The calls.  match is what UpdateWhere, DeleteWhere and the functions of *)
(* the index select by, broken the key for which the change is a mistake.  *)
(***************************************************************************)
Changes == [kind : {"Upsert", "Update"}, key : Keys, value : Values, broken : Keys \cup {None}]
GroupChanges == [kind : {"UpdateWhere", "IndexUpdate"}, match : Values, value : Values,
                 broken : Keys \cup {None}]

Calls ==
    [kind : {"Insert"}, key : Keys, value : Values]
    \cup {c \in Changes : c.broken \in {None, c.key}}
    \cup [kind : {"Delete"}, key : Keys]
    \cup GroupChanges
    \cup [kind : {"DeleteWhere", "IndexDelete"}, match : Values]

\* A change that is a mistake for an item shows it only once it gets to the item.
IsReached(call) ==
    call.kind \in {"UpdateWhere", "IndexUpdate"} /\ call.broken # None =>
        IsFound(view, call.broken) /\ view.entries[call.broken].value = call.match

NeedsIndex(call) == call.kind \in {"IndexUpdate", "IndexDelete"}

Called(call, event) ==
    CASE call.kind = "Insert" -> Insert(view, event, call.key, call.value)
      [] call.kind = "Upsert" ->
            Upsert(view, call.key, event, call.value, call.broken # None)
      [] call.kind = "Update" ->
            change(view, call.key, event, call.value, call.broken # None)
      [] call.kind = "Delete" -> delete(view, call.key, event)
      [] call.kind = "UpdateWhere" ->
            UpdateWhere(view, call.match, event, call.value, call.broken)
      [] call.kind = "DeleteWhere" -> DeleteWhere(view, call.match, event)
      [] call.kind = "IndexUpdate" ->
            IndexUpdate(view, call.match, event, call.value, call.broken)
      [] call.kind = "IndexDelete" -> IndexDelete(view, call.match, event)

\* The reference: what a call means for a plain sequence of items.
Meant(items, call, event) ==
    LET Matching == {items[i].key : i \in {j \in DOMAIN items : items[j].value = call.match}}
    IN  CASE call.kind = "Insert" -> Ordered!Added(items, call.key, call.value, event)
          [] call.kind = "Upsert" ->
                IF Ordered!Has(items, call.key)
                THEN Ordered!Changed(items, {call.key}, call.value, event)
                ELSE Ordered!Added(items, call.key, call.value, event)
          [] call.kind = "Update" -> Ordered!Changed(items, {call.key}, call.value, event)
          [] call.kind = "Delete" -> Ordered!Removed(items, {call.key}, event)
          [] call.kind \in {"UpdateWhere", "IndexUpdate"} ->
                Ordered!Changed(items, Matching, call.value, event)
          [] OTHER -> Ordered!Removed(items, Matching, event)

-----------------------------------------------------------------------------
AddIndex ==
    /\ pc = "idle" /\ ~view.hasIndex
    /\ view' = Index(view)
    /\ UNCHANGED <<revision, pc, number, calls, next, retries, once>>

BeginEvent ==
    /\ pc = "idle" /\ number < MaxEvents
    /\ pc' = "applying" /\ number' = number + 1 /\ calls' = <<>> /\ next' = 1
    /\ UNCHANGED <<view, revision, retries, once>>

\* A call takes effect; an error of it, which is permanent, ends the run.
Take(call, part) ==
    LET result == Called(call, [number |-> number, part |-> part])
    IN  /\ view' = result.view
        /\ pc' = IF result.outcome = "error" THEN "stopped" ELSE pc
        /\ next' = next + 1

\* The call inserts or upserts an item that the part has changed already.
IsRepeated(call, part) ==
    /\ call.kind \in {"Insert", "Upsert"} /\ IsFound(view, call.key)
    /\ view.entries[call.key].number = number /\ view.entries[call.key].part = part

\* The handlers get to a call for the first time: another one of the same
\* part, or one of the next part.
Call(call) ==
    /\ pc = "applying" /\ next = Len(calls) + 1 /\ next <= MaxCalls[number]
    /\ IsReached(call) /\ (NeedsIndex(call) => view.hasIndex)
    /\ \E part \in IF calls = <<>> THEN {0} ELSE {calls[Len(calls)].part,
                                                  calls[Len(calls)].part + 1} :
          /\ IsRepeated(call, part) => AddsAgain
          /\ Take(call, part)
          /\ calls' = Append(calls, [call |-> call, part |-> part])
          /\ once' = Meant(once, call, [number |-> number, part |-> part])
    /\ UNCHANGED <<revision, number, retries>>

CallAgain ==
    /\ pc = "applying" /\ next <= Len(calls)
    /\ Take(calls[next].call, calls[next].part)
    /\ UNCHANGED <<revision, number, calls, retries, once>>

\* A handler fails with ErrTransient, and the run applies the event again.
HandlerFails ==
    /\ pc = "applying" /\ retries < MaxRetries
    /\ next' = 1 /\ retries' = retries + 1
    /\ UNCHANGED <<view, revision, pc, number, calls, once>>

\* All handlers are through, and the view has seen the event.
EndEvent ==
    /\ pc = "applying" /\ next = Len(calls) + 1
    /\ pc' = "idle"
    /\ revision' = IF number > revision THEN number ELSE revision
    /\ calls' = <<>> /\ next' = 1
    /\ UNCHANGED <<view, number, retries, once>>

Next ==
    \/ AddIndex \/ BeginEvent \/ CallAgain \/ HandlerFails \/ EndEvent
    \/ \E call \in Calls : Call(call)

Spec == Init /\ [][Next]_vars

-----------------------------------------------------------------------------
(***************************************************************************)
(* Properties.                                                             *)
(***************************************************************************)
Entry == [value : Values, number : Nat, part : Nat, position : Nat]

\* Every variable has the values the code's types allow; above all, every
\* entry knows a position at which the order holds its key (add, compact).
TypeOK ==
    /\ \A k \in DOMAIN view.entries :
          /\ k \in Keys /\ view.entries[k] \in Entry
          /\ view.entries[k].position \in DOMAIN view.order
          /\ view.order[view.entries[k].position] = k
    /\ view.order \in Seq(Keys)
    /\ view.hasIndex \in BOOLEAN /\ view.index \in [Values -> SUBSET Keys]
    /\ revision \in Nat /\ number \in Nat /\ next \in Nat /\ retries \in Nat
    /\ pc \in {"idle", "applying", "stopped"}

\* Whatever is inserted, changed, deleted, inserted again and compacted, All
\* hands out every item once, in the order in which they were added, and an
\* item changes for a newer event only (in_memory_view.go).
IsOrdered == Ordered!Spec

\* The index follows every change of the view: Lookup hands out exactly the
\* items with the value, in the order of All (InMemoryIndex).
LookupMatchesAll ==
    view.hasIndex =>
        LET all == All(view)
        IN  \A v \in Values :
                Lookup(view, v) = Pick(all, {i \in DOMAIN all : all[i].value = v})

\* However often an event is tried again, and wherever its handlers failed,
\* the view ends up as if each of its calls had been made just once, also if
\* its parts delete and add the same item (isNewerThan, partOf).  It does so
\* only without AddsAgain: an upsert that was skipped, since its part had
\* changed the item before, takes effect once the item is gone.
RetryChangesNothing == pc = "idle" => All(view) = once

\* The keys of deleted items never make up more than half of the order, apart
\* from a fixed number (compact).
OrderIsBounded == Len(view.order) < 2 * Cardinality(DOMAIN view.entries) + Slack
=============================================================================
