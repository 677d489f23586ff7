--------------------------- MODULE ReadYourWrites ---------------------------
(***************************************************************************)
(* Reading one's own writes: callers write events, views follow, and a     *)
(* caller waits for the revision of its write, in a handler with           *)
(* WaitForWritten (revision.go) or with a query over HTTP, whose answer is *)
(* tagged (httpapi/revision.go, httpapi/query.go).                         *)
(*                                                                         *)
(* Every instance of the application has a view of its own, which is empty *)
(* after a restart and follows the events from the start.  A revision is   *)
(* the ID of an event, counted from 0, or NoRevision, the empty string.    *)
(* Applying an event changes the view in several steps, and only then the  *)
(* view has seen the event.  A channel is the number of channels that were *)
(* closed before it.                                                       *)
(***************************************************************************)
EXTENDS Integers, Sequences

CONSTANTS
    NoRevision,   \* the empty revision
    Callers,
    Instances,
    Queries,      \* what may be asked
    Tagged,       \* the queries with Revisioned; the others have Awaiting
    Varies,       \* the tagged queries with Varying, whose answer depends on the day
    SpelledOut,   \* the queries that spellOut can spell out
    Changes,      \* how many changes of the view an event takes
    MaxEvents,    \* bound: the number of events
    MaxDays,      \* bound: the number of days
    MaxRestarts,  \* bound: the number of restarts
    MaxRequests   \* bound: the number of requests and waits of a caller

ASSUME RevisionsAssumption ==
    /\ NoRevision \notin Nat
    /\ Instances # {} /\ Queries # {}
    /\ Varies \subseteq Tagged /\ Tagged \subseteq Queries /\ SpelledOut \subseteq Queries
    /\ Changes \in Nat \ {0}
    /\ {MaxEvents, MaxDays, MaxRestarts, MaxRequests} \subseteq Nat

VARIABLES
    stored,      \* the number of events in the database
    day,         \* what Varying and the answers that need it take from the clock
    position,    \* the event that the projection of an instance takes next, or is taking
    changes,     \* how many changes its view holds
    revision,    \* the revision of that view
    channel,     \* the channel that its next Seen closes
    restarts,    \* the number of restarts so far
    written,     \* the events the last command of a caller has returned
    req,         \* the request or wait of a caller, see Idle
    held,        \* the tagged answer that a caller holds, or NoAnswer
    got,         \* the answer a caller got to what it asked last, or NoAnswer
    requests     \* the number of requests and waits of a caller so far

vars == <<stored, day, position, changes, revision, channel, restarts, written, req, held, got, requests>>

view == <<position, changes, revision, channel, restarts>>

NoTag == <<>>

\* pc     "idle", "look", "compare", "select", "returned" for the wait,
\*        "revision", "tag", "answer" for the query after it
\* kind   "written" for WaitForWritten, "query" for a query
\* at     the instance, query what is asked
\* tags   the tags in the If-None-Match header, any whether it is *
\* wanted the revision waited for
\* seen, channel  the revision and the channel that WaitFor has read
\* err    what WaitFor returned, "nil", "canceled", "deadline" or "other"
\* ctx    the error of the context, waiting that of the one with the timeout
\* shown  the revision of the answer, tag its tag
Idle ==
    [pc |-> "idle", kind |-> "written", at |-> CHOOSE i \in Instances : TRUE,
     query |-> CHOOSE q \in Queries : TRUE, tags |-> {}, any |-> FALSE, wanted |-> NoRevision,
     seen |-> NoRevision, channel |-> 0, err |-> "nil", ctx |-> "nil", waiting |-> "nil",
     shown |-> NoRevision, tag |-> NoTag]

\* status   what a wait or a query came to
\* query, shown, tag, changes, day  the query, the revision and the tag of the
\*          answer, how many changes of the view it holds, and its day
\* any      whether If-None-Match was *
\* reached  the revision whose wait succeeded
NoAnswer ==
    [status |-> "none", query |-> Idle.query, shown |-> NoRevision, tag |-> NoTag,
     changes |-> 0, day |-> 0, any |-> FALSE, reached |-> NoRevision]

Init ==
    /\ stored = 0 /\ day = 1
    /\ position = [i \in Instances |-> 0]
    /\ changes = [i \in Instances |-> 0]
    /\ revision = [i \in Instances |-> NoRevision]
    /\ channel = [i \in Instances |-> 0]
    /\ restarts = 0
    /\ written = [c \in Callers |-> <<>>]
    /\ req = [c \in Callers |-> Idle]
    /\ held = [c \in Callers |-> NoAnswer]
    /\ got = [c \in Callers |-> NoAnswer]
    /\ requests = [c \in Callers |-> 0]

-----------------------------------------------------------------------------
(***************************************************************************)
(* Revisions.                                                              *)
(***************************************************************************)

\* Mutant of CompareRevisions: no revision counts as the number 0.
CompareAsNumbers(left, right) ==
    LET Number(r) == IF r = NoRevision THEN 0 ELSE r
    IN  Number(left) - Number(right)

\* Negative, 0 or positive.
CompareRevisions(left, right) ==
    CASE left = NoRevision /\ right = NoRevision -> 0
      [] left = NoRevision /\ right # NoRevision -> -1
      [] left # NoRevision /\ right = NoRevision -> 1
      [] OTHER -> left - right

\* The highest of the events' IDs.
RevisionOf(events) ==
    IF events = <<>> THEN NoRevision
    ELSE events[CHOOSE k \in DOMAIN events :
                    \A j \in DOMAIN events : CompareRevisions(events[j], events[k]) <= 0]

-----------------------------------------------------------------------------
(***************************************************************************)
(* The database, the clock and the views.                                  *)
(***************************************************************************)

\* A command returns the events it has written, none if it decided on none.
Command(c) ==
    \E n \in 0..2 :
        /\ stored + n <= MaxEvents
        /\ req[c].pc = "idle"
        /\ stored' = stored + n
        /\ written' = [written EXCEPT ![c] = [k \in 1..n |-> stored + k - 1]]
        /\ got' = [got EXCEPT ![c] = NoAnswer]
        /\ UNCHANGED <<view, day, req, held, requests>>

NextDay ==
    /\ day < MaxDays /\ day' = day + 1
    /\ UNCHANGED <<view, stored, written, req, held, got, requests>>

\* How many changes a view holds once it has applied an event.
Complete(id) == Changes * (id + 1)

\* The view is changed, unless it has taken the change before.
ApplyChange(i) ==
    /\ position[i] < stored /\ changes[i] < Complete(position[i])
    /\ changes' = [changes EXCEPT ![i] = @ + 1]
    /\ UNCHANGED <<stored, day, position, revision, channel, restarts, written, req, held, got,
                   requests>>

SeenBy(i) ==
    IF CompareRevisions(position[i], revision[i]) <= 0 THEN UNCHANGED <<revision, channel>>
    ELSE /\ revision' = [revision EXCEPT ![i] = position[i]]
         /\ channel' = [channel EXCEPT ![i] = @ + 1]

\* The projection has applied the event, and the view has seen it.
Seen(i) ==
    /\ position[i] < stored /\ changes[i] >= Complete(position[i])
    /\ SeenBy(i)
    /\ position' = [position EXCEPT ![i] = @ + 1]
    /\ UNCHANGED <<stored, day, changes, restarts, written, req, held, got, requests>>

\* The projection ends and is started again, on the view it has filled before.
StartAgain(i) ==
    /\ restarts < MaxRestarts /\ restarts' = restarts + 1
    /\ position' = [position EXCEPT ![i] = 0]
    /\ UNCHANGED <<stored, day, changes, revision, channel, written, req, held, got, requests>>

\* The process ends, and with it everything that goes on in it.
Restart(i) ==
    /\ restarts < MaxRestarts /\ restarts' = restarts + 1
    /\ position' = [position EXCEPT ![i] = 0]
    /\ changes' = [changes EXCEPT ![i] = 0]
    /\ revision' = [revision EXCEPT ![i] = NoRevision]
    /\ channel' = [channel EXCEPT ![i] = 0]
    /\ req' = [c \in Callers |-> IF req[c].at = i THEN Idle ELSE req[c]]
    /\ got' = [c \in Callers |-> IF req[c].at = i /\ req[c].pc # "idle" THEN NoAnswer ELSE got[c]]
    /\ UNCHANGED <<stored, day, written, held, requests>>

-----------------------------------------------------------------------------
(***************************************************************************)
(* Waiting.  WaitFor reads the revision and the channel together, compares *)
(* the revision afterwards, and then waits for the channel or the context. *)
(***************************************************************************)
Begin(c, request) ==
    /\ req[c].pc = "idle" /\ requests[c] < MaxRequests
    /\ requests' = [requests EXCEPT ![c] = @ + 1]
    /\ req' = [req EXCEPT ![c] = request]
    /\ got' = [got EXCEPT ![c] = NoAnswer]
    /\ UNCHANGED <<view, stored, day, written, held>>

\* A caller gets an answer, and holds it if it has a tag.
Answered(c, answer) ==
    /\ got' = [got EXCEPT ![c] = answer]
    /\ held' = [held EXCEPT ![c] = IF answer.status = "ok" /\ answer.tag # NoTag THEN answer ELSE @]
    /\ req' = [req EXCEPT ![c] = Idle]
    /\ UNCHANGED <<view, stored, day, written, requests>>

Continue(c, request) ==
    /\ req' = [req EXCEPT ![c] = request]
    /\ UNCHANGED <<view, stored, day, written, held, got, requests>>

WaitForWritten(c, i) ==
    IF written[c] = <<>>
    THEN /\ req[c].pc = "idle" /\ requests[c] < MaxRequests
         /\ requests' = [requests EXCEPT ![c] = @ + 1]
         /\ got' = [got EXCEPT ![c] = [NoAnswer EXCEPT !.status = "caught up"]]
         /\ UNCHANGED <<view, stored, day, written, held, req>>
    ELSE Begin(c, [Idle EXCEPT !.pc = "look", !.at = i, !.wanted = RevisionOf(written[c])])

Look(c) ==
    /\ req[c].pc = "look"
    /\ Continue(c, [req[c] EXCEPT !.pc = "compare", !.seen = revision[req[c].at],
                                  !.channel = channel[req[c].at]])

\* Mutant of Compare: the channel is taken after the revision was compared.
CompareThenTakeChannel(c) ==
    /\ req[c].pc = "compare"
    /\ Continue(c, IF CompareRevisions(req[c].seen, req[c].wanted) >= 0
                   THEN [req[c] EXCEPT !.pc = "returned", !.err = "nil"]
                   ELSE [req[c] EXCEPT !.pc = "select", !.channel = channel[req[c].at]])

Compare(c) ==
    /\ req[c].pc = "compare"
    /\ Continue(c, IF CompareRevisions(req[c].seen, req[c].wanted) >= 0
                   THEN [req[c] EXCEPT !.pc = "returned", !.err = "nil"]
                   ELSE [req[c] EXCEPT !.pc = "select"])

Wake(c) ==
    /\ req[c].pc = "select" /\ req[c].channel < channel[req[c].at]
    /\ Continue(c, [req[c] EXCEPT !.pc = "look"])

EndWait(c) ==
    /\ req[c].pc = "select" /\ req[c].waiting # "nil"
    /\ Continue(c, [req[c] EXCEPT !.pc = "returned", !.err = req[c].waiting])

\* A view that keeps its revision elsewhere may fail to read it.
ViewFails(c) ==
    /\ req[c].pc \in {"look", "select"}
    /\ Continue(c, [req[c] EXCEPT !.pc = "returned", !.err = "other"])

\* The timeout of the wait runs out.
TimeRunsOut(c) ==
    /\ req[c].pc \in {"look", "compare", "select", "returned"} /\ req[c].waiting = "nil"
    /\ Continue(c, [req[c] EXCEPT !.waiting = "deadline"])

\* The caller goes away, or the context it came with has a deadline.  After the
\* wait, that makes at most the answer fail, which it may do anyway.
EndContext(c) ==
    /\ req[c].pc \in {"look", "compare", "select", "returned"} /\ req[c].ctx = "nil"
    /\ \E err \in {"canceled", "deadline"} :
          Continue(c, [req[c] EXCEPT !.ctx = err,
                                     !.waiting = IF @ = "nil" THEN err ELSE @])

\* What WaitForWritten makes of what WaitFor returned.
Verdict(request) ==
    CASE request.err = "nil" -> "caught up"
      [] request.err # "nil" /\ request.ctx # "nil" -> "ended"
      [] request.err = "deadline" /\ request.ctx = "nil" /\ request.waiting # "nil" -> "timeout"
      [] OTHER -> "failed"

Reached(request) == IF request.err = "nil" THEN request.wanted ELSE NoRevision

WaitForWrittenReturns(c) ==
    /\ req[c].pc = "returned" /\ req[c].kind = "written"
    /\ Answered(c, [NoAnswer EXCEPT !.status = Verdict(req[c]),
                                    !.changes = changes[req[c].at],
                                    !.reached = Reached(req[c])])

-----------------------------------------------------------------------------
(***************************************************************************)
(* Queries.  A failure is answered without a revision.                     *)
(***************************************************************************)
Failed(c) == Answered(c, [NoAnswer EXCEPT !.status = "failed", !.query = req[c].query])

\* The step after the wait.
AfterWait(query) == IF query \in Tagged THEN "revision" ELSE "answer"

Query(c, i, q) ==
    \E tags \in {{}, {held[c].tag} \ {NoTag}}, any \in BOOLEAN :
        LET request == [Idle EXCEPT !.kind = "query", !.at = i, !.query = q,
                                    !.tags = tags, !.any = any]
        IN  \/ Begin(c, [request EXCEPT !.pc = AfterWait(q)])
            \/ /\ written[c] # <<>>
               /\ Begin(c, [request EXCEPT !.pc = "look", !.wanted = RevisionOf(written[c])])

\* The request is refused before anything waits: build fails, or the revision
\* it names is none.
QueryRefused(c, i, q) ==
    /\ req[c].pc = "idle" /\ requests[c] < MaxRequests
    /\ requests' = [requests EXCEPT ![c] = @ + 1]
    /\ got' = [got EXCEPT ![c] = [NoAnswer EXCEPT !.status = "failed", !.query = q]]
    /\ UNCHANGED <<view, stored, day, written, held, req>>

\* Running out of time is no failure: the query is answered all the same.
Awaited(c) ==
    /\ req[c].pc = "returned" /\ req[c].kind = "query"
    /\ IF req[c].err # "nil" /\ req[c].waiting = "nil"
       THEN Failed(c)
       ELSE Continue(c, [req[c] EXCEPT !.pc = AfterWait(req[c].query)])

\* Mutant of ReadRevision: the answer is said to show what was waited for.
ReadRevisionWanted(c) ==
    /\ req[c].pc = "revision"
    /\ \/ Continue(c, [req[c] EXCEPT !.pc = "tag",
                          !.shown = IF req[c].wanted # NoRevision THEN req[c].wanted
                                    ELSE revision[req[c].at]])
       \/ Failed(c)

ReadRevision(c) ==
    /\ req[c].pc = "revision"
    /\ \/ Continue(c, [req[c] EXCEPT !.pc = "tag", !.shown = revision[req[c].at]])
       \/ Failed(c)

\* Mutant of etagOf: the tag holds the revision alone.
etagOfRevision(shown, query) == IF shown = NoRevision THEN NoTag ELSE <<shown>>

etagOf(shown, query) ==
    IF shown = NoRevision \/ query \notin SpelledOut THEN NoTag
    ELSE <<shown, query, IF query \in Varies THEN day ELSE 0>>

holdsTag(request, tag) == request.any \/ tag \in request.tags

\* serveUnchanged: the caller goes on with the answer it holds.
Tag(c) ==
    /\ req[c].pc = "tag"
    /\ LET tag == etagOf(req[c].shown, req[c].query)
       IN  IF tag # NoTag /\ holdsTag(req[c], tag)
           THEN Answered(c, [NoAnswer EXCEPT !.status = "unchanged", !.query = req[c].query,
                                             !.shown = req[c].shown, !.tag = tag,
                                             !.day = day, !.any = req[c].any,
                                             !.reached = Reached(req[c])])
           ELSE Continue(c, [req[c] EXCEPT !.pc = "answer", !.tag = tag])

Answer(c) ==
    /\ req[c].pc = "answer"
    /\ \/ Answered(c, [NoAnswer EXCEPT !.status = "ok", !.query = req[c].query,
                                       !.shown = req[c].shown, !.tag = req[c].tag,
                                       !.changes = changes[req[c].at], !.day = day,
                                       !.reached = Reached(req[c])])
       \/ Failed(c)

-----------------------------------------------------------------------------
Wait(c) ==
    \/ Look(c) \/ Compare(c) \/ Wake(c) \/ EndWait(c) \/ WaitForWrittenReturns(c) \/ Awaited(c)

Serve(c) == ReadRevision(c) \/ Tag(c) \/ Answer(c)

Next ==
    \/ NextDay
    \/ \E i \in Instances : ApplyChange(i) \/ Seen(i) \/ StartAgain(i) \/ Restart(i)
    \/ \E c \in Callers :
          \/ Command(c) \/ Wait(c) \/ Serve(c)
          \/ ViewFails(c) \/ TimeRunsOut(c) \/ EndContext(c)
          \/ \E i \in Instances : WaitForWritten(c, i)
          \/ \E i \in Instances, q \in Queries : Query(c, i, q) \/ QueryRefused(c, i, q)

\* Goroutines run on; nobody has to run out of time.
Spec == Init /\ [][Next]_vars /\ \A c \in Callers : WF_vars(Wait(c)) /\ WF_vars(Serve(c))

-----------------------------------------------------------------------------
(***************************************************************************)
(* Properties.                                                             *)
(***************************************************************************)
Revisions == Nat \cup {NoRevision}

\* Every variable has the values the code's types allow, and a view holds the
\* changes of the events it has seen, and at most those of one more (Seen,
\* trackedProjection.Apply).
TypeOK ==
    /\ stored \in Nat /\ day \in Nat /\ restarts \in Nat
    /\ revision \in [Instances -> Revisions] /\ channel \in [Instances -> Nat]
    /\ \A i \in Instances :
          LET complete == IF revision[i] = NoRevision THEN 0 ELSE Complete(revision[i])
          IN  position[i] \in Nat /\ changes[i] \in complete..(complete + Changes)
    /\ \A c \in Callers :
          /\ written[c] \in Seq(Nat) /\ requests[c] \in Nat
          /\ req[c].at \in Instances /\ req[c].query \in Queries
          /\ {req[c].wanted, req[c].seen, req[c].shown} \subseteq Revisions
          /\ {req[c].err, req[c].ctx, req[c].waiting} \subseteq
                {"nil", "canceled", "deadline", "other"}

\* How many changes of the view a caller sees with the answer it got.
Visible(c) == IF got[c].status = "unchanged" THEN held[c].changes ELSE got[c].changes

\* An answer with a revision holds all of that revision: the projection may
\* move on while a query is answered, so that the answer is newer than its
\* revision, never older (answerRevisioned, trackedProjection.Apply).
AnswerHoldsRevision ==
    \A c \in Callers :
        got[c].status = "ok" /\ got[c].shown # NoRevision =>
            got[c].changes >= Complete(got[c].shown)

\* A wait that succeeds shows the caller all it has written, and so does the
\* query after it, also if it answers 304, even right after a restart, when the
\* view has seen nothing, and for the event with the ID 0 (WaitFor, Await,
\* WaitForWritten, RevisionOf).
WaitTellsTruth ==
    \A c \in Callers :
        (got[c].status = "caught up" \/ got[c].reached # NoRevision) /\ ~got[c].any =>
            \A k \in DOMAIN written[c] : Visible(c) >= Complete(written[c][k])

\* 304 is the truth: the caller holds an answer to the same query, of the same
\* day where the day matters, with all of the revision that it is told, from
\* whatever instance it got it, and however often they were restarted
\* (etagOf, holdsTag, serveUnchanged).
NotModifiedIsTrue ==
    \A c \in Callers :
        got[c].status = "unchanged" /\ ~got[c].any =>
            /\ held[c].query = got[c].query
            /\ held[c].changes >= Complete(got[c].shown)
            /\ got[c].query \in Varies => held[c].day = got[c].day

\* Nobody sleeps through the revision it waits for: once a view has reached it,
\* the wait returns, even if its time never runs out (Seen, WaitFor).
WakesUp ==
    \A c \in Callers :
        LET Waits == req[c].pc \in {"look", "compare", "select"}
        IN  (Waits /\ CompareRevisions(revision[req[c].at], req[c].wanted) >= 0) ~> ~Waits
=============================================================================
