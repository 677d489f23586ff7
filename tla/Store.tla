-------------------------------- MODULE Store --------------------------------
(***************************************************************************)
(* The command side of the kit: Execute, Load and Write (store.go,         *)
(* write.go, precondition.go) run by several goroutines against one        *)
(* database, with the state cache of each store in between.                *)
(*                                                                         *)
(* A state is the sequence of the events folded into it, and the States    *)
(* whose rules have folded them, which tells apart whatever two folds      *)
(* could do differently.  What an event says, the text of an error and the *)
(* encoding of data are left out; which check fails is left to chance      *)
(* wherever it depends on them.                                            *)
(***************************************************************************)
EXTENDS EventLog, StateCache, FiniteSets

CONSTANTS
    Callers,          \* goroutines that call Execute, Load or Write
    Stores,           \* stores, each with a state cache of its own
    StoreOf,          \* [Callers -> Stores]
    MaxSubjects,      \* [Stores -> Nat], 0 for a store without a state cache
    Subjects,
    Defs,             \* the State values the program has built
    TypeOf,           \* [Defs -> Types]: the Go type of a state
    Types,
    FromLatest,       \* the Defs that declare FromLatest of the "full" type
    DecidedOn,        \* the Defs that deciders are built on; Load is given any
    Copyable,         \* the Defs that can be copied, so that they are cached
    ConflictRetries,  \* WithConflictRetries
    Declarations,     \* what commands and writes declare: sequences of preconditions
    Decisions,        \* what deciders decide: sequences of event types
    Writes,           \* what Write is given: sequences of [subject, type]
    MaxCalls          \* bound: the number of calls made altogether

DatabasePrecondition ==
    [kind : {"pristine", "populated", "onEventID"}, subject : Subjects, id : Nat]

\* "malformed" is a zero Precondition, or a requirement of nil, "notARevision" an
\* OnEventID whose ID is none.
DeclaredPrecondition ==
    [kind : {"onStateRead", "unconditionally", "malformed", "notARevision"}]
        \cup DatabasePrecondition

Candidate == [subject : Subjects, type : EventTypes]

ASSUME ConstantsAssumption ==
    /\ StoreOf \in [Callers -> Stores]
    /\ MaxSubjects \in [Stores -> Nat]
    /\ TypeOf \in [Defs -> Types]
    /\ FromLatest \subseteq Defs
    /\ DecidedOn \subseteq Defs
    /\ Copyable \subseteq Defs
    /\ ConflictRetries \in Nat
    /\ \A d \in Declarations : d \in Seq(DeclaredPrecondition)
    /\ \A d \in Decisions : d \in Seq(EventTypes) /\ d # <<>>
    /\ \A w \in Writes : w \in Seq(Candidate)
    /\ MaxCalls \in Nat

VARIABLES
    log,        \* the events the database has stored
    requests,   \* writes sent that the database has not handled yet
    cache,      \* [Stores -> state cache]
    calls,      \* the number of calls begun so far, which numbers them
    run         \* the call each caller makes, with its local variables

vars == <<log, requests, cache, calls, run>>

Phases == {"idle", "fold", "read", "put", "folded", "write", "sent", "returned"}

\* "events" and "nothing" are success with and without events written,
\* "state" is what Load returns.  "conflict" is an ErrTransient as well, "domain"
\* any error of a decider that belongs to no category.
Results == {"none", "events", "nothing", "state", "domain", "transient",
            "conflict", "permanent", "notARevision", "context", "unknown"}

NoReply == [kind |-> "none", index |-> 0]
None == "none"

(***************************************************************************)
(* A call and the local variables of Execute, executeOnce and fold.        *)
(*   pc, id            where it is, and its number                         *)
(*   kind .. declared  its arguments; a Write reads no subject and state   *)
(*   ended             whether its context has ended                       *)
(*   attempt           Execute's attempt, from 0                           *)
(*   state, last       fold's current and lastEventID                      *)
(*   rules             the States whose initial value and rules made state *)
(*   reach             the length of the log when the read was requested   *)
(*   events, reply     the candidates to write, and the database's answer  *)
(*   refuted           the last IDs an OnStateRead was refused on          *)
(*   result            what it returned                                    *)
(***************************************************************************)
Returned(id, result) ==
    [pc |-> "returned", id |-> id, kind |-> None, subject |-> None, def |-> None,
     declared |-> <<>>, ended |-> FALSE, attempt |-> 0, state |-> <<>>,
     rules |-> {}, last |-> NoEvent, reach |-> 0, events |-> <<>>, reply |-> NoReply,
     refuted |-> {}, result |-> result]

Init ==
    /\ log = <<>>
    /\ requests = {}
    /\ cache = [st \in Stores |-> newStateCache]
    /\ calls = 0
    /\ run = [c \in Callers |-> [Returned(0, "none") EXCEPT !.pc = "idle"]]

-----------------------------------------------------------------------------
(***************************************************************************)
(* Preconditions.                                                          *)
(***************************************************************************)
IsOnStateRead(p) == p.kind = "onStateRead"

DeclaresOnStateRead(declared) ==
    \E i \in DOMAIN declared : IsOnStateRead(declared[i])

IsHonored(declared) ==
    /\ declared # <<>>
    /\ \A i \in DOMAIN declared :
          /\ declared[i].kind # "malformed"
          /\ declared[i].kind = "unconditionally" => Len(declared) = 1

checkEventIDs(declared) ==
    IF \E i \in DOMAIN declared : declared[i].kind = "notARevision"
    THEN "notARevision" ELSE "none"

\* What is wrong with a declaration.  The IDs are looked at last.
checkPreconditions(declared) ==
    IF IsHonored(declared) THEN checkEventIDs(declared) ELSE "permanent"

\* Write reads no state, so OnStateRead has nothing to guard.
writePreconditions(declared) ==
    IF DeclaresOnStateRead(declared) THEN "permanent" ELSE checkPreconditions(declared)

\* What the database is to check for a declaration without OnStateRead.
\* Unconditionally, which is declared alone, turns into nothing.
databasePreconditions(declared) ==
    IF declared[1].kind = "unconditionally" THEN <<>> ELSE declared

\* Mutant of onStateRead: any event on the subject will do.
onAnyState(s, lastEventID) ==
    [kind |-> IF lastEventID = NoEvent THEN "pristine" ELSE "populated",
     subject |-> s, id |-> lastEventID]

\* OnStateRead, given the last event the state was read up to.
onStateRead(s, lastEventID) ==
    IF lastEventID = NoEvent
    THEN [kind |-> "pristine", subject |-> s, id |-> NoEvent]
    ELSE [kind |-> "onEventID", subject |-> s, id |-> lastEventID]

\* Mutant of resolvePreconditions: OnStateRead is sent as it was declared.
resolveNothing(s, declared, lastEventID) == databasePreconditions(declared)

\* One precondition for every declared one, in their order, so that an index
\* the database names is the index of the declared one.
resolvePreconditions(s, declared, lastEventID) ==
    [i \in DOMAIN databasePreconditions(declared) |->
        IF IsOnStateRead(declared[i]) THEN onStateRead(s, lastEventID)
        ELSE declared[i]]

-----------------------------------------------------------------------------
(***************************************************************************)
(* Calls begin and return.                                                 *)
(***************************************************************************)

\* A call begins with a context of its own.  A result other than "none" is
\* what it returns at once.
Begin(c, kind, s, d, declared, events, phase, result) ==
    /\ run[c].pc \in {"idle", "returned"}
    /\ calls < MaxCalls
    /\ calls' = calls + 1
    /\ run' = [run EXCEPT ![c] =
          IF result # "none" THEN Returned(calls + 1, result)
          ELSE [Returned(calls + 1, "none") EXCEPT
                  !.pc = phase, !.kind = kind, !.subject = s, !.def = d,
                  !.declared = declared, !.events = events]]
    /\ UNCHANGED <<log, requests, cache>>

Return(c, result) == run' = [run EXCEPT ![c] = Returned(@.id, result)]

StartExecute(c, s, d, declared) ==
    Begin(c, "Execute", s, d, declared, <<>>, "fold", checkPreconditions(declared))

StartLoad(c, s, d) == Begin(c, "Load", s, d, <<>>, <<>>, "fold", "none")

\* Write checks its preconditions before it looks at its events; an event
\* without a subject, nil, or with data that can not be encoded is refused.
StartWrite(c, events, declared) ==
    \E isRefused \in BOOLEAN :
        Begin(c, "Write", None, None, declared, events, "write",
              IF writePreconditions(declared) # "none" THEN writePreconditions(declared)
              ELSE IF events = <<>> THEN "nothing"
              ELSE IF isRefused THEN "permanent" ELSE "none")

\* The caller's context ends while the call runs.
EndContext(c) ==
    /\ run[c].pc \notin {"idle", "returned"} /\ ~run[c].ended
    /\ run' = [run EXCEPT ![c].ended = TRUE]
    /\ UNCHANGED <<log, requests, cache, calls>>

-----------------------------------------------------------------------------
(***************************************************************************)
(* fold: from the cached state, or the initial one, through the events the *)
(* database streams, into the cache.                                       *)
(***************************************************************************)
KeyOf(c) == Key(TypeOf[run[c].def], run[c].subject)
CacheOf(c) == cache[StoreOf[c]]

UsesCache(c) == MaxSubjects[StoreOf[c]] > 0 /\ run[c].def \in Copyable

IsHit(c) == UsesCache(c) /\ IsCached(CacheOf(c), KeyOf(c))

CachedEntry(c) == CacheOf(c).entries[KeyOf(c)]

\* Mutant of IsOtherShape: the cached state is taken for one of this State.
IsNeverOtherShape(c) == FALSE

IsOtherShape(c) == IsHit(c) /\ CachedEntry(c).shape # run[c].def

\* Mutant of FoldGet: a cached state is taken as it is, without reading on.
TrustCache(c) ==
    /\ run[c].pc = "fold"
    /\ run' = [run EXCEPT
          ![c].pc = IF IsHit(c) THEN "folded" ELSE "read",
          ![c].state = IF IsHit(c) THEN CachedEntry(c).state ELSE <<>>,
          ![c].rules = IF IsHit(c) THEN CachedEntry(c).rules ELSE {run[c].def},
          ![c].last = IF IsHit(c) THEN CachedEntry(c).lastEventID ELSE NoEvent,
          ![c].reach = Len(log)]
    /\ UNCHANGED <<log, requests, cache, calls>>

\* The cache is asked, and the read requested: after the last cached event,
\* or from the start.
FoldGet(c) ==
    /\ run[c].pc = "fold"
    /\ cache' = IF UsesCache(c)
                THEN [cache EXCEPT ![StoreOf[c]] = AfterGet(@, KeyOf(c))]
                ELSE cache
    /\ IF IsOtherShape(c)
       THEN Return(c, "permanent")
       ELSE run' = [run EXCEPT
              ![c].pc = "read",
              ![c].state = IF IsHit(c) THEN CachedEntry(c).state ELSE <<>>,
              ![c].rules = IF IsHit(c) THEN CachedEntry(c).rules ELSE {run[c].def},
              ![c].last = IF IsHit(c) THEN CachedEntry(c).lastEventID ELSE NoEvent,
              ![c].reach = Len(log)]
    /\ UNCHANGED <<log, requests, calls>>

\* The initial value can not be copied.
CopyFails(c) ==
    /\ run[c].pc = "fold"
    /\ Return(c, "permanent")
    /\ UNCHANGED <<log, requests, cache, calls>>

\* Mutant of IsNext: the bound is inclusive, so the last event is read again.
IsNextInclusive(c, e) ==
    /\ On(log, run[c].subject, e) /\ e >= run[c].last
    /\ \A f \in run[c].last+1 .. e-1 : ~On(log, run[c].subject, f)
    /\ Len(run[c].state) <= Len(log)

\* The event the stream hands out next.  The read goes on after the last one,
\* or starts, with FromLatest and nothing cached, from the latest "full" event
\* at some moment since it was requested.
IsNext(c, e) ==
    LET s == run[c].subject
        startsLate == run[c].last = NoEvent /\ run[c].def \in FromLatest
        isLate == /\ FullOn(log, s, e)
                  /\ \A f \in e+1 .. run[c].reach : ~FullOn(log, s, f)
        isFollowing == /\ On(log, s, e) /\ e > run[c].last
                       /\ \A f \in run[c].last+1 .. e-1 : ~On(log, s, f)
    IN  IF startsLate /\ \E f \in 1 .. run[c].reach : FullOn(log, s, f)
        THEN isLate
        ELSE isFollowing \/ (startsLate /\ isLate)

\* The state's rule for the event: a "full" one does not depend on the state
\* before it.
Evolved(st, e) == IF log[e].type = "full" THEN <<e>> ELSE Append(st, e)

EvolvedBy(rules, d, e) == IF log[e].type = "full" THEN {d} ELSE rules \cup {d}

ReadEvent(c) ==
    /\ run[c].pc = "read"
    /\ \E e \in DOMAIN log :
         /\ IsNext(c, e)
         /\ run' = [run EXCEPT ![c].state = Evolved(@, e), ![c].last = e,
                               ![c].rules = EvolvedBy(@, run[c].def, e)]
    /\ UNCHANGED <<log, requests, cache, calls>>

\* An event can not be verified, upcast, or evolved, or the state has no rule
\* for it.
ReadRefuses(c) ==
    /\ run[c].pc = "read"
    /\ \E e \in DOMAIN log : IsNext(c, e)
    /\ Return(c, "permanent")
    /\ UNCHANGED <<log, requests, cache, calls>>

\* readFailure: the end of the context counts before what the client reports.
ReadFails(c) ==
    /\ run[c].pc = "read"
    /\ \E category \in {"transient", "permanent"} :
         Return(c, IF run[c].ended THEN "context" ELSE category)
    /\ UNCHANGED <<log, requests, cache, calls>>

\* The stream ends once it has handed out all events stored before it was
\* requested; it may hand out later ones, too.
ReadEnds(c) ==
    /\ run[c].pc = "read"
    /\ \A e \in run[c].last+1 .. run[c].reach : ~On(log, run[c].subject, e)
    /\ run' = [run EXCEPT ![c].pc =
          IF UsesCache(c) /\ run[c].last # NoEvent THEN "put" ELSE "folded"]
    /\ UNCHANGED <<log, requests, cache, calls>>

EntryOf(c) ==
    [shape |-> run[c].def, state |-> run[c].state, rules |-> run[c].rules,
     lastEventID |-> run[c].last]

CachePut(c) ==
    /\ run[c].pc = "put"
    /\ cache' = [cache EXCEPT ![StoreOf[c]] =
          AfterPut(@, KeyOf(c), EntryOf(c), MaxSubjects[StoreOf[c]])]
    /\ run' = [run EXCEPT ![c].pc = "folded"]
    /\ UNCHANGED <<log, requests, calls>>

LoadReturns(c) ==
    /\ run[c].pc = "folded" /\ run[c].kind = "Load"
    /\ Return(c, "state")
    /\ UNCHANGED <<log, requests, cache, calls>>

-----------------------------------------------------------------------------
(***************************************************************************)
(* Deciding and writing.                                                   *)
(***************************************************************************)

\* Only a state that was read anew can help, so only OnStateRead is retried.
Retries(c) == IF DeclaresOnStateRead(run[c].declared) THEN ConflictRetries ELSE 0

MayDecideAgain(c) == run[c].attempt # Retries(c) /\ ~run[c].ended

\* The decider decides on the state: it decides on nothing, on events, which are
\* refused if one is nil, has no rule on the state, or can not be encoded, or it
\* fails with an error of its own.  An ErrConflict among these is taken for one
\* of the database, which names a precondition or does not.
Decide(c) ==
    /\ run[c].pc = "folded" /\ run[c].kind = "Execute"
    /\ \/ \E result \in {"nothing", "domain", "transient", "conflict", "permanent",
                         "context", "unknown"} : Return(c, result)
       \/ /\ MayDecideAgain(c)
          /\ run' = [run EXCEPT ![c].pc = "fold", ![c].attempt = @ + 1]
       \/ \E types \in Decisions :
             run' = [run EXCEPT
                ![c].pc = "write",
                ![c].events = [i \in DOMAIN types |->
                    [subject |-> run[c].subject, type |-> types[i]]]]
    /\ UNCHANGED <<log, requests, cache, calls>>

\* The write of a call.  guarded and basis record, for the properties, whether
\* it declares OnStateRead, and the state it was decided on.
RequestOf(c) ==
    [call |-> run[c].id,
     events |-> run[c].events,
     preconditions |->
        IF run[c].kind = "Execute"
        THEN resolvePreconditions(run[c].subject, run[c].declared, run[c].last)
        ELSE databasePreconditions(run[c].declared),
     guarded |-> DeclaresOnStateRead(run[c].declared),
     basis |-> run[c].state]

\* A context that has ended by now must not lead to a write; afterwards its
\* end no longer stops it (context.WithoutCancel).
BeginWrite(c) ==
    /\ run[c].pc = "write"
    /\ IF run[c].ended
       THEN Return(c, "context") /\ UNCHANGED requests
       ELSE /\ requests' = requests \cup {RequestOf(c)}
            /\ run' = [run EXCEPT ![c].pc = "sent", ![c].reply = NoReply]
    /\ UNCHANGED <<log, cache, calls>>

\* What the database stores for a request: all of its events, in their order,
\* behind everything stored before.
Stored(r) ==
    [i \in DOMAIN r.events |->
        [subject |-> r.events[i].subject, type |-> r.events[i].type,
         call |-> r.call, first |-> Len(log) + 1,
         guarded |-> r.guarded, basis |-> r.basis]]

Awaits(c, r) == run[c].pc = "sent" /\ run[c].id = r.call

Answered(r, kind, index) ==
    [c \in Callers |-> IF Awaits(c, r)
                       THEN [run[c] EXCEPT !.reply = [kind |-> kind, index |-> index]]
                       ELSE run[c]]

\* The database handles a request, also one nobody waits for any more: it
\* stores all events if all preconditions hold, and none otherwise.
HandleWrite(r) ==
    LET violated == ViolatedOf(log, r.preconditions)
    IN  /\ requests' = requests \ {r}
        /\ \/ /\ violated = {}
              /\ log' = log \o Stored(r)
              /\ run' = Answered(r, "stored", 0)
           \/ /\ \E i \in violated : run' = Answered(r, "violated", i)
              /\ UNCHANGED log
        /\ UNCHANGED <<cache, calls>>

WriteSucceeds(c) ==
    /\ run[c].pc = "sent" /\ run[c].reply.kind = "stored"
    /\ Return(c, "events")
    /\ UNCHANGED <<log, requests, cache, calls>>

\* The database could not be reached, or refused the write for another reason
\* than a precondition: certainly nothing was stored.
WriteRefused(c) ==
    /\ run[c].pc = "sent" /\ RequestOf(c) \in requests
    /\ requests' = requests \ {RequestOf(c)}
    /\ \E category \in {"transient", "permanent"} : Return(c, category)
    /\ UNCHANGED <<log, cache, calls>>

\* Mutant of WriteUnknown: a broken connection always counts as transient.
WriteBreaks(c) ==
    /\ run[c].pc = "sent"
    /\ \/ requests' = requests \ {RequestOf(c)}
       \/ UNCHANGED requests
    /\ Return(c, "transient")
    /\ UNCHANGED <<log, cache, calls>>

\* The client gives up on an answer that is lost or does not come: the request
\* may have been handled, may still be, or may never be.
WriteUnknown(c) ==
    /\ run[c].pc = "sent"
    /\ \/ requests' = requests \ {RequestOf(c)}
       \/ UNCHANGED requests
    /\ Return(c, "unknown")
    /\ UNCHANGED <<log, cache, calls>>

ViolatedPrecondition(c) == run[c].declared[run[c].reply.index]

\* Whether Execute decides again after a conflict.  A database that offers
\* just the v1 API does not name the precondition that did not hold.
DecidesAgain(c, isNamed) ==
    /\ MayDecideAgain(c)
    /\ isNamed => IsOnStateRead(ViolatedPrecondition(c))

\* Mutant of WriteConflicts: the attempts are not counted.
WriteConflictsUncounted(c) ==
    /\ run[c].pc = "sent" /\ run[c].reply.kind = "violated"
    /\ \E isNamed \in BOOLEAN :
         IF DecidesAgain(c, isNamed)
         THEN run' = [run EXCEPT ![c].pc = "fold", ![c].events = <<>>]
         ELSE Return(c, "conflict")
    /\ UNCHANGED <<log, requests, cache, calls>>

WriteConflicts(c) ==
    /\ run[c].pc = "sent" /\ run[c].reply.kind = "violated"
    /\ \E isNamed \in BOOLEAN :
         IF DecidesAgain(c, isNamed)
         THEN run' = [run EXCEPT
                ![c].pc = "fold",
                ![c].attempt = @ + 1,
                ![c].events = <<>>,
                ![c].refuted = IF IsOnStateRead(ViolatedPrecondition(c))
                               THEN @ \cup {run[c].last} ELSE @]
         ELSE Return(c, "conflict")
    /\ UNCHANGED <<log, requests, cache, calls>>

-----------------------------------------------------------------------------
Start(c) ==
    \/ \E s \in Subjects, d \in DecidedOn, declared \in Declarations :
          StartExecute(c, s, d, declared)
    \/ \E s \in Subjects, d \in Defs : StartLoad(c, s, d)
    \/ \E events \in Writes, declared \in Declarations : StartWrite(c, events, declared)

Fold(c) == FoldGet(c) \/ CopyFails(c) \/ ReadEvent(c) \/ ReadRefuses(c)
           \/ ReadFails(c) \/ ReadEnds(c) \/ CachePut(c)

Finish(c) == LoadReturns(c) \/ Decide(c) \/ BeginWrite(c) \/ WriteSucceeds(c)
             \/ WriteRefused(c) \/ WriteUnknown(c) \/ WriteConflicts(c)

Next ==
    \/ \E c \in Callers : Start(c) \/ EndContext(c) \/ Fold(c) \/ Finish(c)
    \/ \E r \in requests : HandleWrite(r)

Spec == Init /\ [][Next]_vars

\* A goroutine runs on, and the client answers or gives up once the database
\* stalls; nobody has to call, to end a context, or to handle a request.
Fairness == \A c \in Callers : WF_vars(Fold(c) \/ Finish(c))

FairSpec == Spec /\ Fairness

-----------------------------------------------------------------------------
(***************************************************************************)
(* Properties.                                                             *)
(***************************************************************************)
Keys == Types \X Subjects

Entry == [shape : Defs, state : Seq(Nat), rules : SUBSET Defs, lastEventID : Nat]

IsCache(value) ==
    /\ DOMAIN value.entries \subseteq Keys
    /\ \A k \in DOMAIN value.entries : value.entries[k] \in Entry
    /\ value.order \in Seq(Keys)

Reply == [kind : {"none", "stored", "violated"}, index : Nat]

Run == [pc : Phases, id : Nat, kind : {"Execute", "Load", "Write", None},
        subject : Subjects \cup {None}, def : Defs \cup {None},
        declared : Seq(DeclaredPrecondition), ended : BOOLEAN, attempt : Nat,
        state : Seq(Nat), rules : SUBSET Defs, last : Nat, reach : Nat,
        events : Seq(Candidate), reply : Reply, refuted : SUBSET Nat, result : Results]

Request == [call : Nat, events : Seq(Candidate),
            preconditions : Seq(DatabasePrecondition),
            guarded : BOOLEAN, basis : Seq(Nat)]

StoredEvent == [subject : Subjects, type : EventTypes, call : Nat, first : Nat,
                guarded : BOOLEAN, basis : Seq(Nat)]

\* Every variable has the values the code's types allow; above all, what is
\* sent to the database are preconditions it can check.
TypeOK ==
    /\ log \in Seq(StoredEvent)
    /\ requests \subseteq Request
    /\ DOMAIN cache = Stores /\ \A st \in Stores : IsCache(cache[st])
    /\ calls \in Nat
    /\ run \in [Callers -> Run]

\* What the command side promises (SerialStore): also with a stale cache,
\* concurrent commands, retries and late writes, the events of a command under
\* OnStateRead were decided on exactly the history they are appended to
\* (fold, resolvePreconditions), and no call stores its events twice.
Serial == INSTANCE SerialStore
IsSerial == Serial!Spec

\* A cached state is the history of its subject up to its last event, made by the
\* State of its shape alone, whatever order the puts of concurrent folds come in
\* (stateCache.put), so that continuing from it equals folding from the start.
CacheHoldsHistory ==
    \A st \in Stores : \A k \in DOMAIN cache[st].entries :
        LET entry == cache[st].entries[k]
        IN  /\ k[1] = TypeOf[entry.shape]
            /\ On(log, k[2], entry.lastEventID)
            /\ IsHistory(entry.state, log, k[2], entry.lastEventID)
            /\ entry.rules = {entry.shape}

\* The list and the map of a state cache hold the same keys, each once, and
\* never more than the store allows (stateCache.put evicts from both).
CacheConsistent ==
    \A st \in Stores :
        LET order == cache[st].order
        IN  /\ {order[i] : i \in DOMAIN order} = DOMAIN cache[st].entries
            /\ \A i, j \in DOMAIN order : order[i] = order[j] => i = j
            /\ Len(order) <= MaxSubjects[st]

\* A fold that read less never replaces a cached state built from more
\* (stateCache.put compares the revisions).
CacheNeverGoesBack ==
    [][\A st \in Stores :
         \A k \in DOMAIN cache[st].entries \cap DOMAIN cache'[st].entries :
            cache'[st].entries[k].lastEventID >= cache[st].entries[k].lastEventID]_cache

\* What Load returns and a decider decides on is the history of the subject up
\* to some event, misses no event stored before the read was requested, and was
\* made by the rules of the State it was asked of alone, also if it continues
\* from a cached state, and other States of the same type are cached (fold).
FoldIsFresh ==
    \A c \in Callers : run[c].pc = "folded" =>
        /\ IsHistory(run[c].state, log, run[c].subject, run[c].last)
        /\ \A e \in run[c].last+1 .. run[c].reach : ~On(log, run[c].subject, e)
        /\ run[c].rules = {run[c].def}

\* A call that fails with a category, with the end of the context, or decides
\* on nothing has stored nothing, and nothing of it is still on its way, not
\* even after retries (ErrTransient: "has certainly stored nothing"); a call
\* that returns events has stored them.
OutcomeIsCertain ==
    \A c \in Callers : run[c].pc = "returned" =>
        LET isStored == \E e \in DOMAIN log : log[e].call = run[c].id
            isOnItsWay == \E r \in requests : r.call = run[c].id
        IN  CASE run[c].result = "events"  -> isStored /\ ~isOnItsWay
              [] run[c].result = "unknown" -> ~(isStored /\ isOnItsWay)
              [] OTHER                     -> ~isStored /\ ~isOnItsWay

\* Deciding again after OnStateRead was refused decides on more than before,
\* so that a retry never repeats an attempt that can not succeed (Execute,
\* fold).
RetryReadsFurther ==
    \A c \in Callers : run[c].pc = "folded" =>
        \A l \in run[c].refuted : l < run[c].last

\* Every call returns, however often its write conflicts (Execute's bound on
\* the attempts).
CallsReturn ==
    \A c \in Callers :
        run[c].pc \notin {"idle", "returned"} ~> run[c].pc = "returned"
=============================================================================
