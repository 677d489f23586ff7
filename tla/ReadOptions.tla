----------------------------- MODULE ReadOptions -----------------------------
(***************************************************************************)
(* Reading events (Read of store.go, read_options.go): the options, the    *)
(* bounds they set, the check before the database is asked, and the events *)
(* that come out.  The IDs of events are 0, 1, 2, ... across all subjects; *)
(* an ID that a caller hands over may be no revision at all.               *)
(***************************************************************************)
EXTENDS Naturals, Sequences, SequencesExt, FiniteSetsExt, Subsequences

CONSTANTS
    MaxRevision,   \* the largest revision, 2^63 - 1
    NotARevision,  \* a text that is not the ID of an event
    NoBound,       \* no bound, no latest event, no order
    NoError, Panic, ErrNotARevision, ErrEmptyRange, ErrPermanent, ErrUnverified,
    ErrFailed      \* the error readFailure makes of one of the database, or of the context

IDs == 0 .. MaxRevision
BoundIDs == IDs \cup {NotARevision}

(***************************************************************************)
(* An option: a bound and its ID, the order, the latest event of the one   *)
(* type the model tells apart, or a nil option.                            *)
(***************************************************************************)
Bounds == {"FromEvent", "AfterEvent", "UpToEvent", "BeforeEvent"}
Options ==
    [kind : Bounds, id : BoundIDs]
        \cup [kind : {"NewestFirst", "ReadEverything", "ReadNothing", "nil"}, id : {NotARevision}]

ASSUME ReadAssumption ==
    /\ MaxRevision \in Nat /\ NoBound \notin Options
    /\ NoError \notin {ErrNotARevision, ErrEmptyRange, ErrPermanent, ErrUnverified, ErrFailed}
    /\ ErrEmptyRange \notin {ErrPermanent, ErrUnverified, ErrFailed}

Settings(lower, upper, latest, order) ==
    [lower |-> lower, upper |-> upper, latest |-> latest, order |-> order, panics |-> FALSE]

NoSettings == Settings(NoBound, NoBound, NoBound, NoBound)

Panicked ==
    [lower |-> NoBound, upper |-> NoBound, latest |-> NoBound, order |-> NoBound, panics |-> TRUE]

\* set and the functions that the options are: a setting is set at most once.
Applied(s, option) ==
    LET set(setting, settings) == IF s.panics \/ setting # NoBound THEN Panicked ELSE settings
    IN  CASE option.kind \in {"FromEvent", "AfterEvent"} ->
                set(s.lower, Settings(option, s.upper, s.latest, s.order))
          [] option.kind \in {"UpToEvent", "BeforeEvent"} ->
                set(s.upper, Settings(s.lower, option, s.latest, s.order))
          [] option.kind = "NewestFirst" ->
                set(s.order, Settings(s.lower, s.upper, s.latest, option))
          \* The latest event of a type is a lower bound as well.
          [] option.kind \in {"ReadEverything", "ReadNothing"} ->
                set(s.lower, Settings(option, s.upper, option, s.order))
          [] OTHER -> Panicked

readSettingsOf(options) ==
    LET settings == Folded(Applied, NoSettings, options)
    IN  IF settings.latest # NoBound /\ settings.order # NoBound THEN Panicked ELSE settings

\* The lower bound of the database, which FromLatestEvent leaves empty.
LowerBound(settings) == IF settings.latest # NoBound THEN NoBound ELSE settings.lower

ParseRevision(id) == id # NotARevision

\* For a range without an upper bound that ends before the given ID.
checkBoundsBefore(settings, last) ==
    LET lower == LowerBound(settings)
        upper == settings.upper
        first == IF lower = NoBound THEN 0
                 ELSE IF lower.kind = "AfterEvent" THEN lower.id + 1 ELSE lower.id
        end == IF upper = NoBound THEN last
               ELSE IF upper.kind = "UpToEvent" THEN upper.id + 1 ELSE upper.id
    IN  IF \E bound \in {lower, upper} \ {NoBound} : ~ParseRevision(bound.id) THEN ErrNotARevision
        ELSE IF first >= end THEN ErrEmptyRange
        ELSE NoError

\* Mutant of checkBounds: the range ends one ID too late.
checkBoundsTooWide(settings) == checkBoundsBefore(settings, MaxRevision + 2)

checkBounds(settings) == checkBoundsBefore(settings, MaxRevision + 1)

-----------------------------------------------------------------------------
(***************************************************************************)
(* The database: its events in the order of their IDs, of which some are   *)
(* of the subjects read.  An event tells whether it is of them, whether it *)
(* is of the type FromLatestEvent names, and whether it can be verified.   *)
(***************************************************************************)
Events == [isRead : BOOLEAN, isFull : BOOLEAN, isGenuine : BOOLEAN]

FullIDs(log) == {i - 1 : i \in {j \in DOMAIN log : log[j].isFull}}

\* The ID of the latest event of the type, 0 without one.
LatestID(log) == Max({0} \cup FullIDs(log))

IsInRange(settings, id) ==
    LET lower == LowerBound(settings)
        upper == settings.upper
    IN  /\ lower # NoBound => IF lower.kind = "AfterEvent" THEN id > lower.id ELSE id >= lower.id
        /\ upper # NoBound => IF upper.kind = "UpToEvent" THEN id <= upper.id ELSE id < upper.id

IsWanted(log, settings, id) ==
    /\ log[id + 1].isRead /\ IsInRange(settings, id)
    /\ settings.latest # NoBound =>
          IF FullIDs(log) # {} THEN id >= LatestID(log) ELSE settings.latest.kind = "ReadEverything"

\* The IDs of the events the database hands out, or that it refuses to.
ReadEvents(log, settings) ==
    LET ids == Ascending({id \in {i - 1 : i \in DOMAIN log} : IsWanted(log, settings, id)})
    IN  [isRefused |-> /\ settings.latest # NoBound /\ FullIDs(log) # {}
                       /\ ~IsInRange(settings, LatestID(log)),
         ids |-> IF settings.order # NoBound THEN Reverse(ids) ELSE ids]

verify(event, isVerifying) == isVerifying => event.isGenuine

\* What a caller gets that stops after some events, or iterates to the end, of a
\* database that may fail, or whose context may end, after some events.
Read(q) ==
    LET settings == readSettingsOf(q.options)
        refusal == checkBounds(settings)
        answer == ReadEvents(q.log, settings)
        \* The events handed out before an error, and the error.
        bad == {k \in DOMAIN answer.ids : ~verify(q.log[answer.ids[k] + 1], q.isVerifying)}
        end == Min({q.failsAfter, Len(answer.ids)} \cup {k - 1 : k \in bad})
        error == CASE end = q.failsAfter -> ErrFailed
                   [] end # q.failsAfter /\ end + 1 \in bad -> ErrUnverified
                   [] OTHER -> NoError
        Ended(ids, e) == [ids |-> ids, error |-> e]
    IN  IF settings.panics THEN Ended(<<>>, Panic)
        ELSE IF refusal # NoError THEN Ended(<<>>, refusal)
        ELSE IF answer.isRefused THEN Ended(<<>>, ErrPermanent)
        ELSE IF q.wanted <= end THEN Ended(SubSeq(answer.ids, 1, q.wanted), NoError)
        ELSE Ended(SubSeq(answer.ids, 1, end), error)

-----------------------------------------------------------------------------
(***************************************************************************)
(* What the options say, each on its own.                                  *)
(***************************************************************************)
Allows(option, id) ==
    CASE option.kind = "FromEvent" -> id >= option.id
      [] option.kind = "AfterEvent" -> id > option.id
      [] option.kind = "UpToEvent" -> id <= option.id
      [] option.kind = "BeforeEvent" -> id < option.id
      [] OTHER -> TRUE

\* The options of some kinds.
Given(options, kinds) == {options[k] : k \in {l \in DOMAIN options : options[l].kind \in kinds}}

IsAllowed(options, id) == \A option \in Given(options, Bounds) : Allows(option, id)

IsAsked(q, id) ==
    /\ q.log[id + 1].isRead /\ IsAllowed(q.options, id)
    /\ Given(q.options, {"ReadEverything", "ReadNothing"}) # {} =>
          IF FullIDs(q.log) # {} THEN \A other \in FullIDs(q.log) : id >= other
          ELSE Given(q.options, {"ReadNothing"}) = {}

\* A read that is not a programming error fails with ErrEmptyRange exactly if
\* no ID the database can ever hand out lies in every bound, the largest one
\* included; otherwise it hands out verified events in all of the bounds, in the
\* order asked for, and leaves none out unless the caller stops or is told of
\* an error: a read that was cut short never looks complete (checkBounds, Read).
MatchesBounds(q, answer) ==
    answer.error \notin {Panic, ErrNotARevision} =>
        /\ answer.error = ErrEmptyRange <=> ~\E id \in IDs : IsAllowed(q.options, id)
        /\ \A k \in DOMAIN answer.ids :
              /\ IsAsked(q, answer.ids[k])
              /\ q.isVerifying => q.log[answer.ids[k] + 1].isGenuine
              /\ k > 1 => (answer.ids[k] < answer.ids[k - 1] <=> Given(q.options, {"NewestFirst"}) # {})
        /\ answer.error = NoError /\ Len(answer.ids) < q.wanted =>
              \A i \in DOMAIN q.log : IsAsked(q, i - 1) => i - 1 \in ToSet(answer.ids)
=============================================================================
