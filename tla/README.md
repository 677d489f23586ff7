# TLA+ specifications of architecturekit

architecturekit is a Go library for event-sourced applications on top of
EventSourcingDB. Commands are decided on a state that is folded from the
events of a subject, and the decided events are written back; projections read
events into views; an HTTP layer serves commands and queries. These
specifications model the parts of it where goroutines, the database, failing
targets and restarts meet. Paths below are relative to `src/architecturekit/`.

## Inventory

| Component | State it keeps | Operations | What is hard about it |
|---|---|---|---|
| Commands (`store.go`, `write.go`, `precondition.go`, `database_failure.go`) | none of its own between two calls; the log is the database's | `Execute`, `Load`, `Write` | reading, deciding and writing are not atomic; answers of writes get lost; conflicts are retried |
| State cache (`state_cache.go`) | per store: a map and an LRU list, behind a mutex | `get`, `put` | folds finish in any order; two states may share a type; eviction |
| Projections (`projection.go`, `projection_run.go`, `projection_panic.go`) | per run: position, batch, delay, status; in the target: read model, checkpoint, transaction | catch up, follow, apply, commit, roll back, reconnect, stop | crash between apply and checkpoint, commits with an unknown outcome, errors joined with errors, panics, the context ending anywhere |
| `WaitCaughtUp` (`projection_run.go`) | a goroutine and a channel per run | wait | runs move on while they are looked at one by one |
| In-memory view (`in_memory_view.go`, `typed_projection.go`) | entries, order with positions, indexes, seen revision, waiters | insert, upsert, update, delete, lookup, `Seen`, `WaitFor` | a waiter against a revision that arrives; compaction; indexes that follow |
| Revisions (`revision.go`, `httpapi/revision.go`) | the revision of each view | `Tracking`, `WaitForWritten`, `Await`, ETags | an answer has to hold what it promises |
| Schemas (`store.go` RegisterSchemas, `schema.go`) | registered schemas, in the database | register, compare | several instances start at once |
| States (`state.go`, `value_type.go`, `upcast.go`) | the initial value, shared by every read | `Replay`, `Step`, the fold, upcasting | values that share memory with their copies; a budget |
| HTTP API (`httpapi/httpapi.go`, `httpapi/query.go`) | per request | `Route`, `Handle`, `Query`, `Ask`, `Respond` | an error may wrap several others, and its status may make the caller try again |
| Health (`httpapi/health.go`) | none | `Readiness`, `Liveness` | the runs move on while they are judged |
| Pure parts (`read_options.go`, `subject.go`, `query/`) | none | functions | bounds, laziness, inverse functions |

Components meet in three places: every component talks to the database through
the client; `Execute` and `Load` share the state cache of their store; and
`WaitCaughtUp`, health checks and revisions read what a projection run reports.

What makes each part correct: a command under `OnStateRead` is decided on
exactly the state it is appended to, and its outcome is what it says; a cached
state equals the one folded from the start; a projection skips nothing and, if
it is transactional, repeats nothing; a run that reports to have caught up has;
a wait ends, with a true answer; an instance whose schemas are registered may
rely on them; nobody changes the state of somebody else; and a caller of the
HTTP API is told nothing untrue about its command. `PROJECT.json` lists the hazards line by line,
with the properties that cover them.

## Modules

| Module | Models | Read it for |
|---|---|---|
| `EventLog` | the database, external, as far as the kit relies on it | the log, preconditions, and `IsHistory`, the reference for every fold |
| `StateCache` | `state_cache.go` | `AfterGet`, `AfterPut` as operators on the value of the cache |
| `Store` | `Execute`, `Load`, `Write`, `fold` | the command side, several callers at once |
| `SerialStore` | nothing in the code: the abstract specification | what the command side promises |
| `MCStore` | | constants for TLC |
| `Projection` | `run`, `follow`, `catchUp`, `drive`, the writers, the status | a projection of any kind, its target and its process |
| `WaitCaughtUp` | `WaitCaughtUp`, `caughtUpVerdict` | the wait over several runs |
| `InMemoryView` | `in_memory_view.go` apart from its revision | the functions of a view as operators on its value |
| `ViewRun` | a typed projection that feeds a view (`typed_projection.go`, `revision.go`) | parts, retries, what a handler may call |
| `Subsequences` | the loops over a slice | the elements at some positions of a sequence, and `Folded`, what a loop makes of a value |
| `OrderedView` | nothing in the code: the abstract specification | what a view promises |
| `MCViewRun` | | symmetry for TLC |
| `ReadYourWrites` | `Seen`, `WaitFor`, `WaitForWritten`, `Await`, tagged queries (`revision.go`, `httpapi/revision.go`, `httpapi/query.go`) | what a caller is told about revisions |
| `Health` | `httpapi/health.go`, beside `WaitCaughtUp` | both handlers, while the runs move on |
| `Schemas`, `MCSchemas` | `RegisterSchemas` | several instances of several versions that start at once |
| `States` | `state.go`, `value_type.go`, `upcast.go` | states in memory, and upcasting with its budget |
| `ReadOptions` | `read_options.go`, `Read` | bounds and what a read hands out |
| `Query` | `query/query.go` | the operators, and how far they read |
| `SubjectScheme` | `subject.go` | building and matching subjects |
| `MCLibrary` | | an instance of these four for TLC |
| `HttpApi` | `httpapi/httpapi.go`, `httpapi/query.go`, `database_failure.go` | a route from its wiring to the answer, and where its errors come from |
| `StoreProofs` | | proofs about the command side, the state cache included, and that it implements `SerialStore` |
| `ViewProofs` | | proofs about `InMemoryView` and `ViewRun`, and that they implement `OrderedView` |
| `ProjectionProofs`, `HealthProofs`, `ReadYourWritesProofs`, `SchemasProofs`, `HttpApiProofs` | | proofs about the module each is named for, `HealthProofs` also about `WaitCaughtUp` |
| `LibraryProofs` | | proofs about `States`, `ReadOptions`, `Query` and `SubjectScheme` |

### Store

A goroutine that makes a call is a member of `Callers`; `run[c]` holds the
local variables of `Execute`, `executeOnce` and `fold`, and a program counter
that stops wherever another goroutine or the database may come in between: the
lookup in the cache (`FoldGet`), every event of the stream (`ReadEvent`), the
put (`CachePut`), the decision, the write being sent (`BeginWrite`), handled
(`HandleWrite`, an action of the database) and answered. A lookup or a put is
one step, since it holds the mutex. A request that nobody waits for any more
stays in `requests` and may be handled later, or never.

A state is the sequence of the IDs folded into it. Two folds that differ in
any way differ in this sequence, so nothing is gained by modelling the data.
Which State's rules have made a state is kept beside it (`rules`), since two
States of one Go type share a key of the cache and would make different states
of the same events: continuing from the other's state leaves a trace there.
Deciders are built on the States in `DecidedOn`, `Load` is given any State. A
"full" event stands for the type given to `FromLatest`: its rule does not
depend on the state before it. What fails because of data (verification,
upcasting, encoding, a rule that is missing) is a nondeterministic choice, so
that every such path is taken in every state. A decider may return any error as
well; `Execute` decides again after an `ErrConflict`, whoever returned it. An ID
that is no revision is refused with an error of its own, after everything else
that may be wrong with a declaration.

The client is modelled from how the code uses it. A read hands out every event
stored before it was requested, and possibly later ones. A write that the
client reports as refused is certainly not stored; one that it reports with an
unknown outcome was handled, will be, or never will be.

`events`, `guarded`, `basis`, `first`, `call` in the log, `reach` and `refuted`
in a call, and `rules` in a call and in the cache exist for the properties alone.

### Projection

One projection of one kind, its target, and the process it runs in.
`applied` is the read model: the sequence of the events applied to it and
kept. For a transactional projection, events go to `tx` and become part of
`applied` at the commit; for a projection that is rebuilt, a new process starts
with an empty read model. A commit that fails may have taken effect. An error
is a record of what failed and how the rollback after it failed, as
`errors.Join` keeps both, and `IsTransient` asks either, as `errors.Is` does.
`CatchUpProjection` is the same loop without following and reconnecting
(`run.once`). `Crash` ends the process anywhere. A live stream may end without an
error, which the run takes for a reason to reconnect (`LiveStreamEnds`).

Assumed of a target: a transaction whose rollback fails or panics is over all the
same, since the writer has let go of it. What it would leave behind otherwise is
up to the target.

Events of other subjects are left out, so that the IDs of the events are 1, 2,
3 and so on: the code compares IDs for equality only, or hands them back to the
database.

### WaitCaughtUp

A run changes its status under its mutex and closes a channel afterwards, in
two steps. `caughtUpVerdict` takes one status per step.

### InMemoryView and ViewRun

A view is a value: its entries with the positions they have in the order, the
order, and one index. Every function of the code holds the mutex throughout, so
it is an operator on that value and one step of `ViewRun`. An item is its key,
the value the index takes from it, and the event and part that changed it last.
A change may be broken, that is, change the key of an item; the functions that
change several items stop at the first such one and keep what they have done.

`ViewRun` takes event after event. The handlers of event `n` make up to
`MaxCalls[n]` calls, in one part or in several. `HandlerFails` stands for an
`ErrTransient` from anywhere in a handler: the event is applied again from its
first call. Handlers are assumed to call the same functions whenever they get
the same event. A change that would give an item another key, which is an
error, is tried on one item at most, and on one that the call gets to. `once` is a plain
sequence of items that takes what each call means (`Meant`) just once, for
`RetryChangesNothing`. `AddsAgain` says whether a handler may insert or
upsert an item that it has changed for the same part already, a call that the
view skips. That is harmless, until the event removes the item and is tried
again (see below).

`OrderedView` knows neither positions nor an index: items are added at the end,
changed in place for newer events, and removed.

### ReadYourWrites

Here a view is only how many changes it holds, its revision and the channel
that its next `Seen` closes. The projection changes the view first and records
the event afterwards, in steps of their own; it may be started again on a view
that it has filled (`StartAgain`), and the process may end (`Restart`). A
request stops between reading the revision with its channel (`Look`), comparing
(`Compare`), waiting (`Wake`, `EndWait`), and evaluating the contexts
(`Awaited`, `WaitForWrittenReturns`); then between reading the revision, the
tag and the answer. A context has an error, `waiting` is the one with the
timeout, whose error is that of whatever ended first.

A tag is the tuple of what it is built from; the hash is left out. Besides the
tags it holds, a caller may send `*`, of which nothing is claimed.

### Health

`Health` adds a request to `WaitCaughtUp`, which takes the status of one run
per step. A request remembers what was so when it began, since its answer may
hold for any moment between then and its end.

### Schemas

`call[i]` holds the local variables of `RegisterSchemas` of one instance. Its
two loops, over what was handed over (`collectSchemas`) and over what was
collected, take one schema per step. A
schema is its JSON form, which is what `isSameSchema` compares, or has none, in
which case comparing and registering fail. The database, external, accepts a
schema of a type that has none, unless a stored event does not match it. Its
event types come one by one, so a read returns each as it was at some moment
between the beginning and the end of the read. A registration whose answer is
lost stays in `requests` and may be handled later.

### States

A state of a value type is its data. Any other is an address in `heap`, or nil,
and a rule changes what is at that address, which is the worst an application
may do, as does a decider that changes the state it was given (`Change`). What
a caller expects of its state is computed without memory, event after event,
and compared with what its address holds. `copyOf`, `copyOfInitial` and the
folds allocate exactly where the code calls `Clone`. The rule of the type given
to `FromLatest` is assumed not to depend on the state before it, as its
documentation asks for.

`isValueType` and `sharesData`, which find out by reflection whether a type or a
value refers to memory, are taken as exact: in the model they just look whether
there is an address. A mistake in their recursion over the kinds of Go types
(`value_type.go:17-92`) would not show here.

`applyWithBudget` is a function of the budget and the event type. Its
reference is reachability among event types: upcasting fails exactly if an
upcaster does, or one leads back to its own type. That holds as long as the
budget (`maxUpcastSteps`, 16 in the code) has a step for each event type with an
upcaster that an event may become on its way; the code refuses a longer chain,
whether or not it would end.

### ReadOptions, Query, SubjectScheme

These are functions, asked one question per behaviour. The IDs of events are
numbers up to `MaxRevision`, which stands for 2^63 - 1, so that the edge of the
range is reached; text that is no ID is `NotARevision`. A query is a sequence
of items, each with how many elements of the view are read once it comes out,
which is what makes laziness a property. It has two sides: what a query returns
depends on nothing that it has not read (`QueryTellsWhatItRead`), and it reads
nothing that could not have changed the result (`QueryReadsJustEnough`, which
leaves out `OrderBy`, `Any`, and `Take` followed by another step than `Select`,
since these may have to read more). A text in a subject scheme is the
sequence of what stands between its slashes.

### HttpApi

One route, as `Route` or `Query` wires it or panics for it, or a handler of the
application that uses `Handle`, `WaitForWritten` and `Respond`. A request has one
of the methods that `http.ServeMux` hands to the pattern of the route (`MethodsOf`),
which are all of them for a pattern that names none, and the check of the origin
looks at the method of the request. It goes
through the user, the body, the conversion, and the command or the query, and
each of them may fail with any error, panic, or abort the response. An error
is the set of what `errors.Is` finds in it, with up to `MaxMarks` errors
wrapped by the application. `StatusFor` and `explain` are tables over such
sets. `Execute` is modelled by its outcomes, with every failure of the database
that the client can report, sorted by `databaseFailure`, `readFailure` and
`writeFailure`; that these outcomes are the ones the command side has is what
`OutcomeIsCertain` shows for `Store`. `TryAgain` is a caller that repeats a
request whose status invites it. A query with a revision goes on in
`ReadYourWrites`.

Assumed of others: the client reports an outcome as unknown whenever the
database may have stored the events; deciders and `Answer` functions do not
return errors about the writes of other commands; a view fails with a transient
or a permanent error, one of a context, or `ErrNotARevision`; a browser asks
before it sends JSON to another origin.

## Runs

| Run | Bounds | Shows |
|---|---|---|
| `store_race` | 2 callers, 2 subjects, cache for 1 subject, 1 retry, 3 calls; `OnStateRead` with the second subject pristine, or no precondition; one `Write` of three events; two States of one type, one with `FromLatest`, which reads from the start until that `Write` and which commands are decided on, and one that is only loaded | serializability (refinement of `SerialStore`), the cache, folds that miss nothing and follow the rules of one State only, certain outcomes, what a retry reads |
| `store_returns` | 2 callers, 2 subjects, `Write`, 2 retries, 2 calls, with declarations that are refused | every call returns |
| `projection` | 3 kinds, batch 2, 3 events, 2 failures, 2 starts | nothing is skipped or repeated, what is reported is committed, no transaction is left, every event is applied, the context ends the run |
| `wait_caught_up` | 2 runs, 1 wait, 1 health request after the other | the answers are true, errors come first, the wait and its helpers end |
| `view` | 3 keys, 2 values, 2 events, the first of 1 call, the second of 3, 1 retry; `compact` tolerates 1 deleted key; no handler adds an item again that the same part has changed | an ordered collection (refinement of `OrderedView`), the index, the length of the order, retries change nothing |
| `read_your_writes` | 1 caller, 1 instance, 3 queries (tagged, tagged and varying, awaiting), 2 events, 2 days, 1 restart, 2 requests | answers hold their revision, waits tell the truth, 304 is true, nobody sleeps through a revision |
| `schemas` | 2 instances, 2 event types, 2 schemas and one without a JSON form, 1 kind of misfitting event | success and permanent failure mean what they say, every call returns |
| `http` | errors that wrap up to 2 others, a caller that tries again as often as it is invited | answers are true, no other site runs a command |
| `library` | calls: 4 on a state, 3 event types, logs of up to 3 events; upcasters: every set that makes at most 2 events of one, budget 3; reads: every 2 options, IDs up to 4; queries: 2 steps on views of 2 elements, compared with views of up to 4; schemes and subjects of 2 segments | states are independent, upcasting is complete, reads fit their options, queries tell what they read and read just enough, subjects round-trip |
| `reapply`, `other_errors`, `view_adds_again` | | the three places where the documentation says something else than the code does, see below |

Why the bounds are enough: a race in the cache needs two folds and one write
between them; a cache for one subject evicts with the second; one retry after
one conflict reads a state with the event that caused it; and a State that continues
from what another one has cached takes a write and two loads. That a get moves one
of several entries to the front before another is evicted is out of reach of a
cache with room for one: `CacheConsistent` is proved for caches of any size. For
projections, a
batch of two has a beginning, a middle and an end, three events make a full
batch and a partial one, two failures let what was to be repaired fail again (a
commit, then a checkpoint; an apply, then its rollback), and two starts put a
crash in between. For the view,
a compaction that matters has to move a survivor behind deleted keys: one call
that removes two of three items does that with one
tolerated (the code tolerates 16). Keys and values are interchangeable, hence
the symmetry. A retry that could go wrong changes an item that is there, adds it
and removes it, in any order, so that the first event makes one call and the
second three. What `AddsAgain` rules out here concerns only `RetryChangesNothing`:
the other properties of the view are proved with it as well as without.

For revisions, two requests are an answer and the question whether it is still
good; two events make one that is seen and one that is being applied, and a
restart in between takes the view back to an older revision, as another
instance that lags behind would show it. Callers only meet in the log, which
one caller fills as well as two.

Registration needs two instances and one event type to race for; the second
type makes the loop go on afterwards. Four calls on a state are two that get
one, one that changes it, and one that looks again. A read has at most a lower
and an upper bound; two steps of a query show what one does to what the other
has not read. In `http`, two wrapped errors are what makes the order of a
table matter.

Deadlock is not checked: once the bounded calls, events, failures and starts
are used up, the system may stop. That it does not stop earlier is what the
liveness properties are about.

Fairness: a goroutine runs on (weak fairness of the steps of a call, a wait, a run,
of a helper), and the client ends a stream when its context ends and gives up
on a database that stalls. Nothing is assumed of callers, of the database
handling a request, or of contexts ending. A projection is live only if
failures end, which `MaxFailures` bounds.

### Documentation and code

- `reapply`: `README.md:1893` and `projection.go:61` bound the events that a
  resumable projection repeats after a crash by its batch size. `drive` counts
  each batch from zero while the writer goes on after the last event applied,
  so that batches cut short by a failing stream add up.
- `other_errors`: `README.md:1947` says that any error other than
  `ErrTransient` ends a run. `run` looks for `ErrTransient` in the error joined
  with that of the rollback.
- `view_adds_again`: `in_memory_view.go:38-40` says that applying a stored event
  again changes nothing, also if it was split. One part changes an item and then
  upserts it, which is skipped; a later part removes all items with the value
  that the change has set. Applied again, the event finds no item to change, so
  that the upsert takes effect and leaves the item with another value, which is
  not removed any more. The proof of `RetryChangesNothing` rests on no call finding
  anything to do in what it or a later call left behind, which is where this came
  up.

Met while modelling, and not worth a run: `store.go:148` lets the reconnect delay
start over on progress. `run` drops errors of `checkpoint` before and after a
session, so that a call that fails once looks like progress. That costs one
short wait.

## Proofs

TLC shows the properties for the bounds above; TLAPS proves them for every
value of the constants: every set of callers, stores, instances, queries and
schemas, every size of a cache or a batch, every number of runs, events,
failures, calls and restarts.

In every proof, the property is not inductive by itself. The inductive
invariant (`Inv`, or the parts named below) adds what is known on the way
there. `PROJECT.json` lists the theorems.

### Command side

The invariant is a conjunction of these parts.

- `TypeInv` (`StoreProofs`): the types, with requests that have the fields they
  need, and caches that are functions from keys to entries and
  `CacheConsistent`. The module begins with the
  lemmas on `Without`, `MoveToFront`, `Replace` and `Insert`: a list without
  duplicates stays one, and loses and gains exactly the keys the map does. That
  is enough for `CachesNeverGoBack`.
- `HistoryInv`: every cached state is the history of its
  subject up to its last event, made by the rules of its own State, and so is the
  state of every call that folds, with a bound on what it may have missed. `CacheHoldsHistory` alone is not
  inductive: what is put comes from a fold in progress. It rests on three
  lemmas: a history stays one when the log grows, the next event appended
  to a history is a history, and a full event is one by itself.
- `OutcomeInv`: a call has at most one request under way
  or stored, and which of both its result and its phase allow.
- `RetryInv`: behind each state that a call was refused for, its subject has an
  event, which is stored by the time the next read is requested, so that the
  read hands it out. `RetryReadsFurther` follows with `HistoryInv`.

From these, `ImplementsSerialStore` follows: if a request declares
`OnStateRead`, the precondition it carries holds only if its `basis` is the
history at the end of the log, which is the moment it is stored.

Assumption: `ConstantsAssumption` (the constants have their types, and
decisions are not empty).

### Projections

`ProjectionProofs` covers the three writers at once. `PhaseInv` says what the
program counter implies, above all that a transaction is open only within
`drive`. `PositionInv` ties the stream to what its writer has for a checkpoint,
be it remembered, or kept by the target: the stream is ahead of it by just what
the open transaction holds. `AppliedInv` adds to the properties of the read
model that everything up to that checkpoint is applied, and that nothing a run
has applied is beyond the event it remembers as the last. `StatusInv` adds that
a stream reaches at least what was stored when the run started, and is over only
once it has handed that out.
All of `NoEventSkipped`, `ExactlyOnce`, `NoEventTwice`, `CaughtUpIsComplete`,
`RevisionIsCommitted` and `NoTransactionLeft` follow. A commit that fails and
has taken effect is where `PositionInv` is needed: the next stream begins behind
what the target says. Assumption: `ProjectionAssumption`, which has the
batch size and the delays positive.

### WaitCaughtUp and health

Both look at one run after the other. `LookInv` and `ProbeInv` say what is known
of the runs looked at so far. It stays known since a run that has caught up, or
stopped with an error, does not change back. Assumption: the number of runs is a
natural number.

### Views

`ViewProofs` proves `OrderStaysBounded`, `LookupAlwaysMatches`,
`ViewIsOrdered`, the refinement of `OrderedView`, and, without `AddsAgain`,
`RetriesChangeNothing`. The invariant of the first three is about one view,
a `GoodViews`: the order holds the key of every entry at the entry's position
(`Positioned`), the index holds exactly the keys of the entries with a value
(`Indexed`), and the order is short (`Bounded`). `delete` breaks the last part
until it compacts, hence `SoundViews` without it.

The lemmas come in four groups.

- Ranks: the n-th smallest number of a set (`Nth`) exists, grows with n, and is
  kept by a function that grows. This is what all sorting and picking comes down
  to: `PickOfPick` for a part of a part of a sequence, `NthOfAppended` for one
  more element.
- Loops: `changeAll` and `deleteAll` call `change` and `delete` for one key after
  the other. `LoopExists` shows that such a loop has a result at all, `Induct`
  that it stays in every set that its steps stay in. Both follow from the least
  element of a set of numbers, since the library's theorems on induction can not
  be applied here.
- Steps: what `add`, `change`, `compact`, `delete` and `Index` do to the parts of
  a view. A call adds one item (`Grown`), alters items in their places for one
  event and to one value (`Altered`), or leaves some of the items in their order
  (`Left`). The last two are closed under the steps of a loop.
- What is handed out: `Lookup` picks from `All`, and each of the three kinds of
  calls is a step of `OrderedView`.

For `RetriesChangeNothing`, a view in the middle of a retry has to be understood
by what the calls to come will do to it, and by what they did before. `RetryInv`
says that there is a history of sets of items, one before each call that the
handlers have made for the event, as they would be had each call been made just
once (`History`). No call finds anything to do in what it, or a later call, has
left behind; every item of the view is in a set that is still to come; and the
items of `once`, which is the last of these sets, are in the view, in their order
(`Within`). So the view has nothing but `once` left when all calls are through.
Three groups of lemmas lead there: what a call does to `All` is what it means
(`CalledIsPlain`), whatever positions, gaps and keys it goes through; what a call
means is to change, drop or add items, each on its own (`Plain`, `Follows`); and
a call that is made again (`MadeAgain`) or for the first time (`MadeFirst`) keeps
the history. The latter is where a handler must not add again what it has changed
for the same part (`IsRepeated`).

Assumptions: `ViewAssumption` (`compact` tolerates at least one deleted key),
nothing about keys, values or handlers.

### Revisions

`ReadYourWritesProofs` follows a revision from the view to the caller. A view
holds all changes of its revision; what a request has found in a view is still
in it, since a restart ends the request too; a tag that a caller holds belongs
to an answer with all of its revision, of a day not after today. That a caller
may have tags from several instances and from before a restart is what makes the
last part necessary for `NotModifiedIsTrue`. Assumption: `RevisionsAssumption`
(there is at least one instance and one query, a varying query has a tag, an
event makes at least one change).

### Schemas

`SchemasProofs` rests on two facts of the database: a registered schema never
changes, and neither does what was stored. `CollectInv` says that what
`collectSchemas` has collected has the type and schema of all it has passed,
`KnownInv` and `LoopInv` that what a call knows or has made sure of still holds.
A request that the database handles after its answer was lost asks for a schema
of its call. Assumptions: `SchemasAreDistinct`, `InputsAreSchemas`.

### HTTP API

`HttpApiProofs` has lemmas on `StatusFor`, by the first row that an error hits:
a status that invites the caller to try again is never that of an error about a
write, and such an error is answered with 500 unless something that was found
before the command ran comes first. `RespondInv` says what the error of a
request may hold by the time it is answered: `ErrOutcomeUnknown` without the mark of
`beforeRunning` only if the outcome is unknown, `ErrNotCaughtUp` without it only
if the events are stored, and, if they are, nothing that comes before these two.
`ForeignInv` follows a request from another site up to where it is refused, and
says that no method reaches a handler that the check of the origin lets pass.
Nothing is assumed of the constant: the errors of the application may wrap any
number of others.

### Library

`LibraryProofs` begins with loops over a sequence (`Folded`): such a loop has a
result, stays in every set that its steps stay in, and may be split anywhere.

- `CallersHoldTheirOwn`: `StatesInv` says that the initial value, the cached
  state and the states that callers hold are in memory, that no two of them
  share an address (`Apart`), and what each of them holds. That a fold
  changes nobody else's state is `Mirrors`: memory only grows by it, and the
  result is at a fresh address, or is a value. That a fold from the latest full
  event, or from the cached state, leads to the same data is where the loops are
  split: nothing before a full event matters.
- `UpcastingCompletes`: a larger budget never changes an outcome that succeeded.
  An event type whose upcasters neither fail nor lead back (`Sound`) comes out
  with a budget of the number of types on its way that have one (`Older`), since
  every upcaster has fewer of them ahead of it; `BudgetFits` says that the
  budget is that large for each event type. Conversely, upcasting that succeeds has
  passed every type that the event leads to, with a smaller budget each time, so
  that none of them leads back.
- `ReadsMatchBounds`: after any number of options that do not panic, each setting
  is the one option given of its kinds (`TellAll`). The range that `Read` refuses
  is compared with the IDs that the options allow, each on its own.
- `SchemesRoundTrip`: the positions of the placeholders ascend, so that the k-th
  value that `Build` fills in is the k-th that `Match` takes out.
- `QueriesTellWhatTheyRead`: every step leaves a sequence whose items come out in
  the order of reading and that fails exactly if the failure of the view is read
  (`IsSound`). `Follows` compares the same steps on two views that agree on their first
  n elements: they go the same way for as long as no more than n are read. Every
  step keeps both, and each way to end a query follows from them.

The last three are about functions, and stated for every input: logs, options,
schemes, subjects, views and steps of any length. `ReadsAnswered`, `SchemesAnswered` and
`QueriesAnswered` state them for the behaviours that the run looks at.

Assumptions: `StatesAssumption`, `ReadAssumption` and `QueryAssumption`, which
have the constants of their types and tell the special values apart. The
functions of the application that a query is given are those of `Query`.

### Only model-checked

- The liveness properties (`CallsReturn`, `EventsAreApplied`, `ContextEndsRun`,
  `WaitReturns`, `HelpersEnd`, `WakesUp`, `RegistrationsReturn`), which are out
  of reach of the proof system.
- `QueryReadsJustEnough`. It claims that there is another view, with a different
  result, among those that the run compares with. Which one that is depends on
  the items there are and on the functions given to the query, so that it is a
  statement about these views rather than about all.

## Plan

1. Command side: modelled, checked and proved.
2. Projections and their runs, `WaitCaughtUp`, `Health`: modelled, checked, and
   their safety proved.
3. Revisions, `Schemas`, `HttpApi`: modelled, checked, and their safety proved.
4. `InMemoryView`: modelled, checked and proved.
5. The library parts: modelled, checked and, except for `QueryReadsJustEnough`,
   proved.

Not modelled, and not planned: the derivation of schemas from Go types and the
comparison of states by reflection (`schema.go`, `isSame`),
the wording of mistakes in JSON bodies (`httpapi/decoding.go`,
`httpapi/spell_out.go`; what is accepted is a choice in `HttpApi`), names and
logging, the options that name a projection and its subjects
(`projection_options.go`), and the support for tests
(`architecturekittest/`). They have no state and no concurrency, or consist of
text.
