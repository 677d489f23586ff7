------------------------------ MODULE MCLibrary ------------------------------
(***************************************************************************)
(* Instances for TLC of the parts of the library that one caller uses on   *)
(* its own: a sequence of calls on a state (States), or one question to    *)
(* Read, to a query or to a subject scheme, and the answer to it.          *)
(***************************************************************************)
EXTENDS States, ReadOptions, Query, SubjectScheme

CONSTANTS borrowed, returned, imported, NoQuestion, NoAnswer

VARIABLES question, answer

vars == <<stateVars, question, answer>>

-----------------------------------------------------------------------------
(***************************************************************************)
(* States.                                                                 *)
(***************************************************************************)
Plain == [t \in Types |-> NoUpcaster]

Setup(upcasters, isValue, hasClone, sharesInitial, fromLatest, log, n) ==
    [upcasters |-> upcasters, isValue |-> isValue, hasClone |-> hasClone,
     sharesInitial |-> sharesInitial, fromLatest |-> fromLatest, rules |-> {borrowed, returned},
     ignored |-> {}, undecodable |-> {}, unencodable |-> {}, log |-> log, calls |-> n]

NoCalls == Setup(Plain, TRUE, FALSE, FALSE, NoType, <<>>, 0)

\* Every set of upcasters that turn an event into at most two.
UpcasterSetups ==
    {[NoCalls EXCEPT !.upcasters = u] :
        u \in [Types -> {NoUpcaster, FailingUpcast} \cup UNION {[1 .. n -> Types] : n \in 0 .. 2}]}

Imported == [Plain EXCEPT ![imported] = <<borrowed, returned>>]

\* Calls on states of every kind, with a log that has an event without a rule
\* before the full event, and one with an event of an older type.
CallSetups ==
    {Setup(Imported, isValue, hasClone, sharesInitial, fromLatest, log, 4) :
        isValue \in BOOLEAN, hasClone \in BOOLEAN, sharesInitial \in BOOLEAN,
        fromLatest \in {NoType, returned},
        log \in {<<borrowed, returned, borrowed>>, <<imported, borrowed>>}}
    \cup {[Setup(Plain, FALSE, TRUE, TRUE, returned, <<imported, returned, borrowed>>, 3)
              EXCEPT !.ignored = {borrowed}, !.undecodable = {borrowed}],
          [Setup(Plain, FALSE, TRUE, FALSE, NoType, <<borrowed, returned, borrowed>>, 4)
              EXCEPT !.undecodable = {returned}, !.unencodable = {returned}]}

MCSetups == UpcasterSetups \cup CallSetups

-----------------------------------------------------------------------------
(***************************************************************************)
(* Questions.                                                              *)
(***************************************************************************)
SeqsUpTo(S, n) == UNION {[1 .. k -> S] : k \in 0 .. n}

Event(isRead, isFull, isGenuine) ==
    [isRead |-> isRead, isFull |-> isFull, isGenuine |-> isGenuine]

Logs ==
    {<<>>,
     <<Event(TRUE, FALSE, TRUE), Event(TRUE, TRUE, TRUE), Event(FALSE, FALSE, TRUE), Event(TRUE, FALSE, TRUE)>>,
     <<Event(TRUE, FALSE, TRUE), Event(TRUE, FALSE, FALSE), Event(TRUE, FALSE, TRUE)>>}

ReadQuestions ==
    [about : {"read"}, log : Logs, options : SeqsUpTo(Options, 2), wanted : {2, 9},
     failsAfter : {1, 9}, isVerifying : BOOLEAN]

Views == SeqsUpTo(Items, 4) \cup {Append(v, Failure) : v \in SeqsUpTo(Items, 2)}

QuerySteps ==
    [kind : {"Where", "Select", "OrderBy", "OrderByDescending"}, count : {0}]
        \cup [kind : {"Skip"}, count : {1}] \cup [kind : {"Take"}, count : 0 .. 2]

QueryQuestions ==
    [about : {"query"}, view : {v \in Views : Len(v) <= 2}, steps : SeqsUpTo(QuerySteps, 2), end : Ends]

Schemes == {p \in SeqsUpTo(Segments, 2) : p # <<>> /\ NewSubjectScheme(p)}

SchemeQuestions ==
    [about : {"scheme"}, scheme : Schemes,
     values : SeqsUpTo({<<p>> : p \in Parts} \cup {<<p, p>> : p \in Names}, 2),
     subject : SeqsUpTo(Parts, 2)]

AnswerTo(q) ==
    CASE q.about = "read" -> Read(q)
      [] q.about = "query" -> RunQuery(q.view, q.steps, q.end)
      [] q.about = "scheme" -> SchemeAnswer(q.scheme, q.values, q.subject)

Init ==
    /\ StatesInit
    /\ answer = NoAnswer
    /\ \/ question = NoQuestion
       \/ setup = NoCalls /\ question \in ReadQuestions
       \/ setup = NoCalls /\ question \in QueryQuestions
       \/ setup = NoCalls /\ question \in SchemeQuestions

Call == StatesNext /\ UNCHANGED <<question, answer>>

Answer ==
    /\ question # NoQuestion /\ answer = NoAnswer
    /\ answer' = AnswerTo(question)
    /\ UNCHANGED <<stateVars, question>>

Next == Call \/ Answer

Spec == Init /\ [][Next]_vars

-----------------------------------------------------------------------------
IsAnswered(about) == answer # NoAnswer /\ question.about = about

\* Read hands out what its options ask for, and fails with ErrEmptyRange exactly
\* for a range that no event can ever lie in (read_options.go, Read of store.go).
ReadMatchesBounds == IsAnswered("read") => MatchesBounds(question, answer)

\* What a query returns depends on what it read of the view and on nothing else;
\* an error that it read is returned, and nothing but the error with it (query.go).
QueryTellsWhatItRead ==
    IsAnswered("query") =>
        TellsWhatItRead(Views, question.view, question.steps, question.end, answer)

\* A query of Where, Select, Skip and Take that ends in Collect, Count, First or
\* Single reads no more of the view than its result needs.  Any, OrderBy, and Take
\* followed by another step than Select may read more, and are left out (query.go).
QueryReadsJustEnough ==
    IsAnswered("query") =>
        ReadsJustEnough(Views, question.view, question.steps, question.end, answer)

\* Match takes apart what Build composes, and nothing else (subject.go).
SubjectsRoundTrip ==
    IsAnswered("scheme") =>
        RoundTrips(question.scheme, question.values, question.subject, answer)
=============================================================================
