-------------------------------- MODULE States --------------------------------
(***************************************************************************)
(* Building states from events (state.go, upcast.go, value_type.go), with  *)
(* the memory they live in.  A Go value that holds maps, slices or         *)
(* pointers shares them with its copies, and a rule may change them in     *)
(* place, so that states that different callers hold, the cached one and   *)
(* the initial one come apart only where the code makes a copy.            *)
(*                                                                         *)
(* The data of a state is the sequence of the event types folded into it.  *)
(* Rules, upcasters and Clone belong to the application: the worst a rule  *)
(* may do is modelled, changing in place what it is given.                 *)
(***************************************************************************)
EXTENDS Naturals, Sequences, SequencesExt, FiniteSetsExt, Subsequences

CONSTANTS
    Types,          \* event types
    NoType,         \* no event type
    NoUpcaster,     \* an event type without an upcaster
    FailingUpcast,  \* an upcaster that returns an error
    MaxUpcastSteps, \* maxUpcastSteps
    Setups          \* states, with their rules and upcasters, and stored events

VARIABLES
    setup,   \* the state at hand
    heap,    \* what maps, slices and pointers hold, by their address
    initial, \* the initial value given to NewState
    cached,  \* the entry of the state cache
    stored,  \* how many events of the log are stored
    held,    \* the states callers hold, and what they expect them to be
    calls    \* calls left

stateVars == <<setup, heap, initial, cached, stored, held, calls>>

ASSUME StatesAssumption ==
    /\ NoType \notin Types /\ NoUpcaster # FailingUpcast
    /\ MaxUpcastSteps \in Nat
    /\ \A s \in Setups :
          /\ s.log \in Seq(Types)
          /\ \A t \in Types : s.upcasters[t] \in {NoUpcaster, FailingUpcast} \cup Seq(Types)

-----------------------------------------------------------------------------
(***************************************************************************)
(* Upcasters: an upcaster turns an event into any number of events.        *)
(***************************************************************************)
HasUpcaster(t) == setup.upcasters[t] # NoUpcaster

\* By budget and event type: the events that remain, or an error, which an
\* upcaster is if the budget is used up to the given rest.
upcastDownTo(rest) ==
    LET steps[budget \in 0 .. MaxUpcastSteps] ==
            [t \in Types |->
                IF ~HasUpcaster(t) THEN [ok |-> TRUE, types |-> <<t>>]
                ELSE IF budget <= rest \/ setup.upcasters[t] = FailingUpcast
                     THEN [ok |-> FALSE, types |-> <<>>]
                ELSE LET further == [k \in DOMAIN setup.upcasters[t] |->
                                        steps[budget - 1][setup.upcasters[t][k]]]
                     IN  IF \A k \in DOMAIN further : further[k].ok
                         THEN [ok |-> TRUE,
                               types |-> FlattenSeq([k \in DOMAIN further |-> further[k].types])]
                         ELSE [ok |-> FALSE, types |-> <<>>]]
    IN  steps

\* Mutant of applyWithBudget: the last step of the budget is refused.
applyWithSmallerBudget == upcastDownTo(1)

applyWithBudget == upcastDownTo(0)

apply(t) == applyWithBudget[MaxUpcastSteps][t]

-----------------------------------------------------------------------------
(***************************************************************************)
(* Values of the type of a state.  One of a value type is its data; one of *)
(* another type is the address of its data, 0 if everything in it is nil.  *)
(* Operators on memory take and return the heap, the value and whether     *)
(* there was no error.                                                     *)
(***************************************************************************)
Nil == [ref |-> 0, data |-> <<>>]

DataOf(h, value) == IF value.ref = 0 THEN value.data ELSE h[value.ref]

Memory(h, value) == [heap |-> h, value |-> value, ok |-> TRUE]

Allocated(h, data) == Memory(Append(h, data), [ref |-> Len(h) + 1, data |-> <<>>])

Failed(m) == [heap |-> m.heap, value |-> m.value, ok |-> FALSE]

\* Changing a state, with what it held before in place.
Changed(m, data) ==
    IF setup.isValue THEN Memory(m.heap, [ref |-> 0, data |-> data])
    ELSE IF m.value.ref = 0 THEN Allocated(m.heap, data)
    ELSE Memory([m.heap EXCEPT ![m.value.ref] = data], m.value)

\* What the rule of an event type does to the data.  That of the type given to
\* FromLatest does not depend on the state before it.
Evolved(data, t) ==
    IF t \in setup.ignored THEN data
    ELSE IF t = setup.fromLatest THEN <<t>>
    ELSE Append(data, t)

\* A rule, as Evolve and Ignore make it.
Rule(m, t) ==
    IF t \in setup.ignored THEN m
    ELSE IF t \in setup.undecodable THEN Failed(m)
    ELSE Changed(m, Evolved(DataOf(m.heap, m.value), t))

isCopyable == setup.isValue \/ setup.hasClone

copyOf(m) ==
    IF setup.hasClone /\ m.value.ref # 0 THEN Allocated(m.heap, m.heap[m.value.ref]) ELSE m

sharesData(value) == value.ref # 0

\* Mutant of copyOfInitial: the initial value is taken for granted.
initialItself(h) == copyOf(Memory(h, initial))

copyOfInitial(h) ==
    IF sharesData(initial) /\ ~setup.hasClone
    THEN Failed(Memory(h, Nil))
    ELSE copyOf(Memory(h, initial))

evolveBy(m, t) ==
    IF ~m.ok THEN m
    ELSE IF t \notin setup.rules \/ t \in setup.unencodable THEN Failed(m)
    ELSE Rule(m, t)

\* The rule of an event that the upcasters have handed out.
evolve(m, t) ==
    IF ~m.ok THEN m
    ELSE IF t \notin setup.rules THEN Failed(m)
    ELSE Rule(m, t)

evolveByStored(m, t) ==
    IF ~m.ok THEN m
    ELSE IF ~apply(t).ok THEN Failed(m)
    ELSE Folded(evolve, m, apply(t).types)

FromLatest(history) ==
    LET latest == {i \in DOMAIN history : history[i] = setup.fromLatest}
    IN  IF latest = {} THEN history ELSE SubSeq(history, Max(latest), Len(history))

-----------------------------------------------------------------------------
(***************************************************************************)
(* What the rules make of a history, event after event, without a          *)
(* shortcut, without memory.                                               *)
(***************************************************************************)
EvolvedStored(data, t) == Folded(Evolved, data, apply(t).types)

Reference(history) == Folded(EvolvedStored, <<>>, history)

\* What Evolve, Ignore and FromLatest refuse to register, and an event type
\* given to FromLatest that is not the current one.
IsBuilt(s) ==
    /\ s.ignored \subseteq s.rules
    /\ s.fromLatest # NoType => /\ s.fromLatest \in s.rules \ s.ignored
                                /\ s.upcasters[s.fromLatest] = NoUpcaster
    /\ s.isValue => ~s.sharesInitial

NotCached == [count |-> 0, value |-> Nil]

StatesInit ==
    /\ setup \in {s \in Setups : IsBuilt(s)}
    /\ IF setup.sharesInitial
       THEN heap = <<<<>>>> /\ initial = [ref |-> 1, data |-> <<>>]
       ELSE heap = <<>> /\ initial = Nil
    /\ cached = NotCached
    /\ stored = 0
    /\ held = <<>>
    /\ calls = setup.calls

-----------------------------------------------------------------------------
(***************************************************************************)
(* The calls.  A caller holds on to the state it gets.                     *)
(***************************************************************************)
Prefix(n) == SubSeq(setup.log, 1, n)

Begin == calls > 0 /\ calls' = calls - 1

\* The caller gets the state, unless there was an error.
Held(m, expected) ==
    /\ heap' = m.heap
    /\ held' = IF m.ok THEN Append(held, [value |-> m.value, expected |-> expected]) ELSE held

Replay(n) ==
    /\ Begin
    /\ Held(Folded(evolveBy, copyOfInitial(heap), FromLatest(Prefix(n))),
            Folded(Evolved, <<>>, Prefix(n)))
    /\ UNCHANGED <<setup, initial, cached, stored>>

ReplayStored(n) ==
    /\ Begin
    /\ Held(Folded(evolveByStored, copyOfInitial(heap), FromLatest(Prefix(n))),
            Reference(Prefix(n)))
    /\ UNCHANGED <<setup, initial, cached, stored>>

Step(k, t) ==
    /\ Begin
    /\ IF isCopyable
       THEN Held(evolveBy(copyOf(Memory(heap, held[k].value)), t),
                 Evolved(held[k].expected, t))
       ELSE UNCHANGED <<heap, held>>
    /\ UNCHANGED <<setup, initial, cached, stored>>

StepStored(k, t) ==
    /\ Begin
    /\ IF isCopyable
       THEN Held(evolveByStored(copyOf(Memory(heap, held[k].value)), t),
                 EvolvedStored(held[k].expected, t))
       ELSE UNCHANGED <<heap, held>>
    /\ UNCHANGED <<setup, initial, cached, stored>>

\* fold of store.go, as Load and Execute call it: from the cached state on, or
\* from the initial one, and back into the cache.
Load ==
    /\ Begin
    /\ LET start == copyOfInitial(heap)
           isCached == isCopyable /\ cached.count > 0
           folded == IF ~start.ok THEN start
                     ELSE IF isCached
                     THEN Folded(evolveByStored, copyOf(Memory(start.heap, cached.value)),
                                   SubSeq(setup.log, cached.count + 1, stored))
                     ELSE Folded(evolveByStored, start, FromLatest(Prefix(stored)))
           kept == copyOf(Memory(folded.heap, folded.value))
       IN  IF folded.ok /\ isCopyable /\ stored > 0
           THEN /\ cached' = [count |-> stored, value |-> kept.value]
                /\ Held(Memory(kept.heap, folded.value), Reference(Prefix(stored)))
           ELSE /\ Held(folded, Reference(Prefix(stored)))
                /\ UNCHANGED cached
    /\ UNCHANGED <<setup, initial, stored>>

\* A caller, such as a decider, changes the state it got in place.
Change(k, t) ==
    /\ Begin
    /\ LET m == Changed(Memory(heap, held[k].value), Append(DataOf(heap, held[k].value), t))
       IN  /\ heap' = m.heap
           /\ held' = [held EXCEPT ![k] = [value |-> m.value, expected |-> Append(@.expected, t)]]
    /\ UNCHANGED <<setup, initial, cached, stored>>

StoreNext ==
    /\ calls > 0 /\ stored < Len(setup.log)
    /\ stored' = stored + 1
    /\ UNCHANGED <<setup, heap, initial, cached, held, calls>>

StatesNext ==
    \/ \E n \in 0 .. Len(setup.log) : Replay(n) \/ ReplayStored(n)
    \/ \E k \in DOMAIN held, t \in Types : Step(k, t) \/ StepStored(k, t) \/ Change(k, t)
    \/ Load
    \/ StoreNext

-----------------------------------------------------------------------------
(***************************************************************************)
(* Properties.                                                             *)
(***************************************************************************)

\* Whatever is replayed, stepped, loaded and changed in whatever order, every
\* caller holds exactly the state its own calls lead to, the cached state is
\* the history it covers, and the initial value stays what it was: nobody
\* changes what somebody else holds, although rules change in place
\* (copyOfInitial, Step, fold), and starting from the latest full event leads
\* to the state of the whole history (Replay, ReplayStored).
StatesAreIndependent ==
    /\ \A k \in DOMAIN held : DataOf(heap, held[k].value) = held[k].expected
    /\ cached.count > 0 => DataOf(heap, cached.value) = Reference(Prefix(cached.count))
    /\ DataOf(heap, initial) = <<>>

\* The event types that an upcaster makes of one.
Direct(t) ==
    IF setup.upcasters[t] \in {NoUpcaster, FailingUpcast} THEN {} ELSE Range(setup.upcasters[t])

\* The event types that upcasters lead to, in at least one step.
Leads(t) ==
    {u \in Types : \A S \in SUBSET Types :
        Direct(t) \subseteq S /\ (\A w \in S : Direct(w) \subseteq S) => u \in S}

\* Upcasting ends for any set of upcasters, and fails only if it has to: an
\* upcaster fails, or one leads back to its own event type.  It never stops
\* half way, and keeps the order of the events (applyWithBudget, for a budget
\* that is not smaller than the number of event types).
UpcastIsComplete ==
    \A t \in Types :
        /\ apply(t).ok <=> \A u \in {t} \cup Leads(t) :
                              setup.upcasters[u] # FailingUpcast /\ u \notin Leads(u)
        /\ apply(t).ok =>
              /\ \A u \in Range(apply(t).types) : ~HasUpcaster(u)
              /\ HasUpcaster(t) =>
                    apply(t).types = FlattenSeq([k \in DOMAIN setup.upcasters[t] |->
                                                    apply(setup.upcasters[t][k]).types])
=============================================================================
