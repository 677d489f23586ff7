------------------------------- MODULE HttpApi -------------------------------
(***************************************************************************)
(* The HTTP API for commands and queries (httpapi.go, query.go), and how a *)
(* failure of the database is sorted on its way there (database_failure.go)*)
(* from wiring a route to the answer to a request: what the functions of   *)
(* the application, the database and the context do is chosen at every     *)
(* step, and the caller is told a status and a message.                    *)
(*                                                                         *)
(* An error is the set of what errors.Is and errors.As find in it, which   *)
(* holds "error" for any error; no error is the empty set.  ErrConflict is *)
(* of the category ErrTransient.                                           *)
(***************************************************************************)
EXTENDS Naturals, Sequences, FiniteSets, FiniteSetsExt

CONSTANT MaxMarks  \* how many errors an error of the application may wrap

VARIABLES
    wiring,   \* the route
    req,      \* the request, or what is known of it
    ctx,      \* the context of the request: "live", "Canceled", "DeadlineExceeded"
    answer    \* the status and the message, once there is an answer

vars == <<wiring, req, ctx, answer>>

nil == {}

Err(marks) == {"error"} \cup marks

\* Errors of httpapi, of the query package, of the kit and of the context.
Marks ==
    {"Unauthorized", "Forbidden", "TooLarge", "UnsupportedMediaType", "Malformed", "NotFound",
     "NoItems", "Domain", "OutcomeUnknown", "NotCaughtUp", "Conflict", "Transient", "Canceled",
     "DeadlineExceeded", "Permanent", "NotARevision", "EmptyRange"}

AppErrors ==
    {Err(marks \cup (IF "Conflict" \in marks THEN {"Transient"} ELSE {})) :
        marks \in UNION {kSubset(k, Marks) : k \in 0 .. MaxMarks}}

\* Of a decider, and of an Answer function: it is not about a write of another
\* command.
OwnErrors == {err \in AppErrors : {"OutcomeUnknown", "NotCaughtUp"} \cap err = {}}

\* Of a view that can not be asked.
ViewErrors == {Err(marks) : marks \in {{}, {"Transient"}, {"Permanent"}, {"NotARevision"},
                                       {"DeadlineExceeded"}, {"Canceled"}}}

-----------------------------------------------------------------------------
(***************************************************************************)
(* StatusFor, explain and what marks errors from before the command ran.   *)
(***************************************************************************)
Row(marks, status) == [marks |-> marks, status |-> status]

FirstRows ==
    <<Row({"Unauthorized"}, 401), Row({"Forbidden"}, 403), Row({"TooLarge"}, 413),
      Row({"UnsupportedMediaType"}, 415), Row({"Malformed"}, 400), Row({"NotFound", "NoItems"}, 404),
      Row({"Domain"}, 422)>>

RowsOfWrites == <<Row({"OutcomeUnknown"}, 500), Row({"NotCaughtUp"}, 500)>>

RowsOfCategories ==
    <<Row({"Conflict"}, 409), Row({"Transient"}, 503), Row({"Canceled"}, 499),
      Row({"DeadlineExceeded"}, 503), Row({"Permanent"}, 500), Row({"NotARevision", "EmptyRange"}, 400)>>

StatusByRows(rows, err) ==
    LET hits == {i \in DOMAIN rows : rows[i].marks \cap err # {}}
    IN  IF err = nil THEN 200 ELSE IF hits = {} THEN 500 ELSE rows[Min(hits)].status

\* Mutant of StatusFor: the categories come before the errors about a write.
StatusForCategories(err) == StatusByRows(FirstRows \o RowsOfCategories \o RowsOfWrites, err)

StatusFor(err) == StatusByRows(FirstRows \o RowsOfWrites \o RowsOfCategories, err)

hasCategory(err) ==
    StatusFor(err) # 500 \/ {"Permanent", "OutcomeUnknown", "NotCaughtUp"} \cap err # {}

beforeRunning(err) ==
    IF {"OutcomeUnknown", "NotCaughtUp"} \cap err # {} THEN err \cup {"notRun"} ELSE err

isBeforeRunning(err) == "notRun" \in err

categorise(err) == IF hasCategory(err) THEN beforeRunning(err) ELSE err \cup {"Malformed"}

\* A panic is not unwrapped, whatever it panicked with.
panicked == Err({"panic"})

\* The message for the caller.
explain(status, err) ==
    LET isAboutWrite(mark) == status = 500 /\ mark \in err /\ ~isBeforeRunning(err)
    IN  IF isAboutWrite("OutcomeUnknown") THEN "may have succeeded"
        ELSE IF isAboutWrite("NotCaughtUp") THEN "succeeded"
        ELSE IF status >= 500 THEN "internal server error"
        ELSE CASE status = 401 -> "unauthorized"
               [] status = 409 -> "conflict"
               [] status = 499 -> "request canceled"
               [] status = 404 /\ "NotFound" \notin err -> "not found"
               [] OTHER -> "the text of the error"

-----------------------------------------------------------------------------
(***************************************************************************)
(* Failures of the database, as the client reports them: whether the write *)
(* may have been stored nonetheless, whether the client refused to send    *)
(* it, the code and the status of the answer, "" and 0 without one,        *)
(* whether its description says that a schema does not match, and whether  *)
(* the error looks like the end of a context.                              *)
(***************************************************************************)
Failures ==
    {failure \in [isUnknown : BOOLEAN, isIncompatible : BOOLEAN,
                  code : {"", "precondition-violated", "transient", "other"},
                  status : {0, 200, 400, 401, 408, 409, 429, 500},
                  isSchema : BOOLEAN, looksEnded : BOOLEAN] :
        failure.isIncompatible => failure.code = "" /\ failure.status = 0 /\ ~failure.isUnknown}

MarksOf(failure) == IF failure.looksEnded THEN {"DeadlineExceeded"} ELSE {}

\* withoutContextEnd hides that a failure looks like the end of the context.
causeOf(failure) == MarksOf(failure) \ {"Canceled", "DeadlineExceeded"}

databaseFailure(failure) ==
    LET Sorted(mark) ==
            Err({mark} \cup causeOf(failure) \cup (IF mark = "Conflict" THEN {"Transient"} ELSE {}))
        isForNow == failure.status \in {0, 200, 408, 429} \/ failure.status >= 500
    IN  IF failure.isIncompatible THEN Sorted("Permanent")
        ELSE IF failure.code # ""
        THEN Sorted(CASE failure.code = "precondition-violated" -> "Conflict"
                      [] failure.code = "transient" -> "Transient"
                      [] OTHER -> "Permanent")
        ELSE IF isForNow THEN Sorted("Transient")
        ELSE Sorted(IF failure.status = 409 /\ ~failure.isSchema THEN "Conflict" ELSE "Permanent")

\* The error of a context that has ended.
contextEnded == Err({ctx})

readFailure(failure) ==
    IF ctx # "live" THEN contextEnded
    ELSE IF failure.code = "" /\ failure.status = 409
    THEN Err({"Permanent"} \cup causeOf(failure))
    ELSE databaseFailure(failure)

writeFailure(failure) ==
    IF failure.isUnknown THEN Err({"OutcomeUnknown"} \cup causeOf(failure))
    ELSE databaseFailure(failure)

\* What the database refuses however often it is asked.
IsHopeless(failure) ==
    \/ failure.isIncompatible
    \/ failure.code = "other"
    \/ failure.code = "" /\ failure.status \in {400, 401}
    \/ failure.code = "" /\ failure.status = 409 /\ failure.isSchema

-----------------------------------------------------------------------------
(***************************************************************************)
(* Wiring a route.  "own" is a handler of the application that executes a  *)
(* command with Handle, waits with WaitForWritten and answers with Respond.*)
(***************************************************************************)
Methods == {"POST", "GET", "HEAD", "OPTIONS", "QUERY", ""}

\* The options of a route, and those of a query.
RouteOptions == {<<>>, <<"Adding">>, <<"Adding", "Adding">>, <<"nil">>}

QueryOptions ==
    LET Options == {"Revisioned", "Awaiting", "Varying", "nil"}
    IN  {<<>>} \cup {<<o>> : o \in Options} \cup {<<o, p>> : o, p \in Options}

Wirings ==
    [kind : {"Route"}, method : Methods, isComplete : BOOLEAN, takesBody : BOOLEAN,
     options : RouteOptions]
    \cup [kind : {"Query"}, method : Methods, isComplete : BOOLEAN, takesBody : BOOLEAN,
          options : QueryOptions]
    \cup [kind : {"own"}, method : {"POST"}, isComplete : {TRUE}, takesBody : BOOLEAN,
          options : {<<>>}]

Given(w, option) == {k \in DOMAIN w.options : w.options[k] = option}

\* applyOptions, Adding, Revisioned, Awaiting and Varying: no nil option, nothing
\* twice, one view.
OptionsFit(w) ==
    /\ Given(w, "nil") = {}
    /\ \A o \in {"Adding", "Varying"} : Cardinality(Given(w, o)) <= 1
    /\ Cardinality(Given(w, "Revisioned") \cup Given(w, "Awaiting")) <= 1

\* Mutant of Route: a pattern need not name a method.
RouteWithoutMethod(w) ==
    /\ w.isComplete
    /\ w.method \notin {"GET", "HEAD", "OPTIONS", "QUERY"}
    /\ OptionsFit(w)

\* Whether Route does not panic for a wiring.  isComplete says that no argument
\* is nil, and that the decider is not the zero value.
Route(w) ==
    /\ w.isComplete
    /\ w.method \notin {"", "GET", "HEAD", "OPTIONS", "QUERY"}
    /\ OptionsFit(w)

Query(w) ==
    /\ w.isComplete
    /\ w.method = "QUERY"
    /\ OptionsFit(w)
    /\ Given(w, "Varying") # {} => Given(w, "Revisioned") # {}

\* The methods of the requests that http.ServeMux hands to a pattern: all of them
\* if it names none, and those with HEAD too if it names GET.
MethodsOf(pattern) ==
    CASE pattern = ""    -> Methods \ {""}
      [] pattern = "GET" -> {"GET", "HEAD"}
      [] OTHER           -> {pattern}

\* A request that has not come in.  isForeign says that a browser sends it from
\* another origin, without having to ask the server first; ran, that the
\* command has begun; written, whether the database has stored its events,
\* isDecided, whether there are any, and times, how often it has stored them
\* for this request and those before it that it repeats.
NoRequest ==
    [pc |-> "none", isForeign |-> FALSE, method |-> "", err |-> nil, ran |-> FALSE,
     isDecided |-> FALSE, written |-> FALSE, isHopeless |-> FALSE, isUnknown |-> FALSE,
     isMistake |-> FALSE, times |-> 0]

NoAnswer == [status |-> 0, message |-> "none"]

Init ==
    /\ wiring \in Wirings
    /\ req = NoRequest
    /\ ctx = "live"
    /\ answer = NoAnswer

Continue(pc) ==
    /\ req' = [req EXCEPT !.pc = pc]
    /\ UNCHANGED <<wiring, ctx, answer>>

\* On to the answer with an error.
FailWith(err) ==
    /\ req' = [req EXCEPT !.pc = "respond", !.err = err]
    /\ UNCHANGED <<wiring, ctx, answer>>

\* A function of the application panics, which recoverInto or answerPanic turns
\* into an error, unless it aborts the response.
Panic ==
    \/ FailWith(panicked)
    \/ Continue("aborted")

-----------------------------------------------------------------------------
IsWired(w) ==
    /\ w.kind = "Route" => Route(w)
    /\ w.kind = "Query" => Query(w)

Wire ==
    /\ req.pc = "none"
    /\ Continue(IF IsWired(wiring) THEN "wired" ELSE "notWired")

\* A revisioned query is answered by answerRevisioned (ReadYourWrites).
Receive ==
    /\ req.pc = "wired"
    /\ Given(wiring, "Revisioned") \cup Given(wiring, "Awaiting") = {}
    /\ \E isForeign \in BOOLEAN, method \in MethodsOf(wiring.method) :
          req' = [req EXCEPT !.pc = "user", !.isForeign = isForeign, !.method = method]
    /\ UNCHANGED <<wiring, ctx, answer>>

EndContext ==
    /\ req.pc \notin {"none", "wired", "notWired", "answered", "aborted"}
    /\ ctx = "live"
    /\ ctx' \in {"Canceled", "DeadlineExceeded"}
    /\ UNCHANGED <<wiring, req, answer>>

UserOf ==
    /\ req.pc = "user"
    /\ \/ Continue("body")
       \/ \E err \in AppErrors :
             FailWith(IF hasCategory(err) THEN beforeRunning(err) ELSE err \cup {"Unauthorized"})
       \/ Panic

\* What readBody makes of a body.
readBody(body) ==
    CASE body = "too large" -> Err({"TooLarge"})
      [] body = "broken"    -> Err({"Malformed"})
      [] OTHER              -> nil

\* The check of the standard library lets methods pass that change nothing.
crossOriginCheck == req.isForeign /\ req.method \notin {"GET", "HEAD", "OPTIONS"}

requireNoBody(body) ==
    IF crossOriginCheck THEN Err({"Forbidden"})
    ELSE IF readBody(body) # nil THEN readBody(body)
    ELSE IF body \in {"empty", "{}"} THEN nil
    ELSE Err({"Malformed"})

\* A browser has to ask the server first before it sends JSON to another origin.
requireJSON(isJSON) == IF isJSON THEN nil ELSE Err({"UnsupportedMediaType"})

\* "odd" stands for what decodeStrictly refuses, which depends on the type.
BodyOf ==
    /\ req.pc = "body"
    /\ \E body \in {"empty", "{}", "null", "fits", "odd", "too large", "broken"},
          isJSON \in IF req.isForeign THEN {FALSE} ELSE BOOLEAN :
          LET refusal == IF ~wiring.takesBody THEN requireNoBody(body)
                         ELSE IF requireJSON(isJSON) # nil THEN requireJSON(isJSON)
                         ELSE IF readBody(body) # nil THEN readBody(body)
                         ELSE IF body \in {"empty", "null", "odd"} THEN Err({"Malformed"})
                         ELSE nil
          IN  IF refusal = nil THEN Continue("convert") ELSE FailWith(refusal)

\* ToCommand and ToQuery.
Convert ==
    /\ req.pc = "convert"
    /\ \/ Continue(IF wiring.kind = "Query" THEN "ask" ELSE "execute")
       \/ \E err \in AppErrors : FailWith(categorise(err))
       \/ Panic

-----------------------------------------------------------------------------
(***************************************************************************)
(* Execute, by its outcomes: with no store, with an error before anything  *)
(* is written, with nothing to write, and with a write.                    *)
(***************************************************************************)
Ran(r) ==
    /\ req' = [r EXCEPT !.ran = TRUE]
    /\ UNCHANGED <<wiring, ctx, answer>>

RanInto(err) == Ran([req EXCEPT !.pc = "respond", !.err = err])

AfterCommand == IF wiring.kind = "own" THEN "wait" ELSE "adding"

NoStore == req.pc = "execute" /\ FailWith(Err({}))

ExecuteFails ==
    /\ req.pc = "execute"
    /\ \/ \E err \in OwnErrors \cup {panicked} : RanInto(err)
       \/ Ran([req EXCEPT !.pc = "aborted"])
       \/ ctx # "live" /\ RanInto(contextEnded)
       \/ \E failure \in Failures :
             /\ ~failure.isUnknown
             /\ RanInto(readFailure(failure))

ExecuteDecidesNothing == req.pc = "execute" /\ Ran([req EXCEPT !.pc = AfterCommand])

ExecuteWrites ==
    /\ req.pc = "execute"
    /\ Ran([req EXCEPT !.pc = AfterCommand, !.isDecided = TRUE, !.written = TRUE, !.times = @ + 1])

\* The client says that an outcome is unknown whenever the database may have
\* stored the events.
ExecuteWriteFails ==
    /\ req.pc = "execute"
    /\ \E failure \in Failures, written \in BOOLEAN :
          /\ written => failure.isUnknown
          /\ Ran([req EXCEPT !.pc = "respond", !.err = writeFailure(failure), !.isDecided = TRUE,
                             !.written = written, !.times = IF written THEN @ + 1 ELSE @,
                             !.isUnknown = failure.isUnknown,
                             !.isHopeless = ~failure.isUnknown /\ IsHopeless(failure)])

\* WaitForWritten: the view catches up, or the wait ends without it.
WaitForWritten ==
    /\ req.pc = "wait"
    /\ \/ Continue("respond")
       \/ /\ req.isDecided
          /\ \/ ctx # "live" /\ FailWith(Err({"NotCaughtUp", ctx}))
             \/ ctx = "live" /\ FailWith(Err({"NotCaughtUp"}))
             \/ ctx = "live" /\ \E err \in ViewErrors : FailWith({"NotCaughtUp"} \cup err)

\* What fieldsOf makes of the value the function of Adding returns.
fieldsOf(value) ==
    CASE value \in {"object", "null"} -> nil
      [] value = "panics" -> panicked
      [] OTHER -> Err({})

fieldsFor(value, failure) == IF failure # nil THEN nil ELSE fieldsOf(value)

Adding ==
    /\ req.pc = "adding"
    /\ \/ Given(wiring, "Adding") = {} /\ Continue("respond")
       \/ /\ Given(wiring, "Adding") # {}
          /\ \/ \E value \in {"object", "null", "not an object", "revision", "unencodable", "panics"},
                   failure \in AppErrors \cup {nil} :
                   /\ req' = [req EXCEPT !.pc = "respond", !.err = fieldsFor(value, failure),
                                         !.isMistake = failure = nil /\ fieldsOf(value) # nil]
                   /\ UNCHANGED <<wiring, ctx, answer>>
             \/ /\ req' = [req EXCEPT !.pc = "respond", !.err = panicked, !.isMistake = TRUE]
                /\ UNCHANGED <<wiring, ctx, answer>>
             \/ Continue("aborted")

\* The Answer function of Ask, and encodeResult.
Ask ==
    /\ req.pc = "ask"
    /\ \/ Continue("respond")
       \/ \E err \in OwnErrors : FailWith(err)
       \/ Panic

\* A result may not be encodable, the answer to a command is.
encodeResult == {nil} \cup (IF wiring.kind = "Query" THEN {Err({}), panicked} ELSE {})

respondResult ==
    /\ req.pc = "respond"
    /\ \E encoding \in encodeResult :
          LET err == IF req.err # nil THEN req.err ELSE encoding
          IN  answer' = [status |-> StatusFor(err),
                         message |-> IF err = nil THEN "result" ELSE explain(StatusFor(err), err)]
    /\ req' = [req EXCEPT !.pc = "answered", !.err = nil]
    /\ UNCHANGED <<wiring, ctx>>

\* The caller sends the same request again if the status invites it.
TryAgain ==
    /\ req.pc = "answered" /\ answer.status \in {409, 499, 503}
    /\ req' = [NoRequest EXCEPT !.pc = "user", !.isForeign = req.isForeign, !.method = req.method,
                               !.times = req.times]
    /\ ctx' = "live"
    /\ answer' = NoAnswer
    /\ UNCHANGED wiring

Execute == NoStore \/ ExecuteFails \/ ExecuteDecidesNothing \/ ExecuteWrites \/ ExecuteWriteFails

Next ==
    \/ Wire \/ Receive \/ EndContext
    \/ UserOf \/ BodyOf \/ Convert
    \/ Execute \/ WaitForWritten \/ Adding \/ Ask
    \/ respondResult \/ TryAgain

Spec == Init /\ [][Next]_vars

-----------------------------------------------------------------------------
(***************************************************************************)
(* Properties.                                                             *)
(***************************************************************************)
IsCommand == wiring.kind \in {"Route", "own"}

\* What the caller of a command is told about it is true, so that a caller that
\* tries again whenever the status invites it (409, 499, 503) never has the
\* events stored twice, and does not try what the database refuses for good.
\* A success comes only if the database has stored what was decided, "may have
\* succeeded" exactly if the outcome is unknown, and a caller whose events are
\* stored learns that, unless a function of the application that completes the
\* answer is broken (StatusFor, explain, notRun, causeOf, fieldsFor).
AnswerIsTrue ==
    /\ req.times <= 1
    /\ req.pc = "answered" =>
        /\ answer.status \in {409, 499, 503} => ~req.isUnknown /\ ~req.isHopeless
        /\ answer.status = 200 /\ IsCommand => req.ran /\ req.written = req.isDecided
        /\ answer.message = "may have succeeded" <=> req.isUnknown
        /\ answer.message = "succeeded" => req.ran /\ req.written
        /\ req.written => \/ answer.message \in {"result", "succeeded", "may have succeeded"}
                          \/ req.isMistake

\* A browser that another site has send a request, without asking the server
\* first, never runs a command: a route either requires JSON, which such a
\* request can not claim, or checks the origin, and then does not accept a
\* method which that check lets pass, nor every method (Route, requireJSON,
\* requireNoBody).
NoForeignCommand == req.isForeign => ~req.ran /\ ~req.written
=============================================================================
