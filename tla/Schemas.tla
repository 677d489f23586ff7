------------------------------- MODULE Schemas -------------------------------
(***************************************************************************)
(* RegisterSchemas of store.go: every instance of an application registers *)
(* the schemas of its events when it starts, while other instances, maybe  *)
(* of another version, do the same.  The database accepts the first schema *)
(* of an event type, unless stored events do not match it, and never       *)
(* changes it afterwards.                                                  *)
(***************************************************************************)
EXTENDS Naturals, Sequences

CONSTANTS
    Instances,   \* goroutines that call RegisterSchemas
    Types,       \* event types
    JSONSchemas, \* schemas, as their JSON form, which is what isSameSchema compares
    Unencodable, \* schemas that have no JSON form, such as one that holds a function
    NoSchema,    \* nil, and what the database holds for a type without a schema
    Misfits,     \* events that may get stored: the type, and a schema they do not match
    Inputs       \* what an instance may hand over, a sequence of EventSchema

EventSchema == [type : Types, schema : JSONSchemas \cup Unencodable \cup {NoSchema}]

ASSUME SchemasAreDistinct ==
    /\ JSONSchemas \cap Unencodable = {}
    /\ NoSchema \notin JSONSchemas \cup Unencodable

ASSUME InputsAreSchemas ==
    Inputs \subseteq Seq(EventSchema) /\ Misfits \subseteq Types \X JSONSchemas

VARIABLES
    registered, \* the schemas the database holds
    misfits,    \* type and schema where a stored event does not match
    requests,   \* registrations the database may still handle
    call        \* the local variables of every call

vars == <<registered, misfits, requests, call>>

Results == {"none", "ok", "noSchema", "twoSchemas", "differs", "refused", "context", "database"}

NotCalled ==
    [pc |-> "idle", input |-> <<>>, given |-> <<>>, at |-> 1, ended |-> FALSE,
     reply |-> "none", atRead |-> [t \in Types |-> NoSchema],
     known |-> [t \in Types |-> NoSchema], result |-> "none"]

Init ==
    /\ registered = [t \in Types |-> NoSchema]
    /\ misfits = {}
    /\ requests = {}
    /\ call = [i \in Instances |-> NotCalled]

Step(i, c) == call' = [call EXCEPT ![i] = c]

Return(i, result) == Step(i, [call[i] EXCEPT !.pc = "returned", !.result = result])

-----------------------------------------------------------------------------
(***************************************************************************)
(* collectSchemas, a loop over what is given: a type that comes again with *)
(* the same schema is left out.                                            *)
(***************************************************************************)
RegisterSchemas(i, input) ==
    /\ call[i].pc = "idle"
    /\ Step(i, [call[i] EXCEPT !.pc = "collecting", !.input = input])
    /\ UNCHANGED <<registered, misfits, requests>>

isSameSchema(left, right) == left = right /\ left \notin Unencodable

Positions(given, type) == {k \in DOMAIN given : given[k].type = type}

collectSchemas(i) ==
    /\ call[i].pc = "collecting"
    /\ call[i].at \in DOMAIN call[i].input
    /\ LET given == call[i].given
           next == call[i].input[call[i].at]
           seen == Positions(given, next.type)
       IN  IF next.schema = NoSchema THEN Return(i, "noSchema")
           ELSE IF seen = {}
           THEN Step(i, [call[i] EXCEPT !.given = Append(given, next), !.at = @ + 1])
           ELSE IF \A k \in seen : isSameSchema(given[k].schema, next.schema)
           THEN Step(i, [call[i] EXCEPT !.at = @ + 1])
           ELSE Return(i, "twoSchemas")
    /\ UNCHANGED <<registered, misfits, requests>>

Collected(i) ==
    /\ call[i].pc = "collecting"
    /\ call[i].at \notin DOMAIN call[i].input
    /\ Step(i, [call[i] EXCEPT !.pc = "reading", !.at = 1, !.atRead = registered])
    /\ UNCHANGED <<registered, misfits, requests>>

EndContext(i) ==
    /\ call[i].pc \notin {"idle", "returned"}
    /\ ~call[i].ended
    /\ Step(i, [call[i] EXCEPT !.ended = TRUE])
    /\ UNCHANGED <<registered, misfits, requests>>

-----------------------------------------------------------------------------
(***************************************************************************)
(* readRegisteredSchemas: the event types come one by one, while others    *)
(* register schemas, so that each comes as it was at some time between the *)
(* beginning and the end of the read.                                      *)
(***************************************************************************)
Current(i) == call[i].given[call[i].at]

ReadSchemas(i) ==
    /\ call[i].pc \in {"reading", "readingAgain"}
    /\ \E known \in {k \in [Types -> JSONSchemas \cup {NoSchema}] :
                        \A t \in Types : k[t] \in {call[i].atRead[t], registered[t]}} :
          IF call[i].pc = "readingAgain" /\ known[Current(i).type] = NoSchema
          THEN Return(i, "refused")
          ELSE Step(i, [call[i] EXCEPT !.pc = "loop", !.known = known])
    /\ UNCHANGED <<registered, misfits, requests>>

ReadFails(i) ==
    /\ call[i].pc \in {"reading", "readingAgain"}
    /\ Return(i, IF call[i].ended THEN "context" ELSE "database")
    /\ UNCHANGED <<registered, misfits, requests>>

-----------------------------------------------------------------------------
(***************************************************************************)
(* The loop over the given schemas.                                        *)
(***************************************************************************)
IsAt(i) == call[i].pc = "loop" /\ call[i].at \in DOMAIN call[i].given

Done(i) ==
    /\ call[i].pc = "loop"
    /\ call[i].at \notin DOMAIN call[i].given
    /\ Return(i, "ok")
    /\ UNCHANGED <<registered, misfits, requests>>

\* Mutant of checkRegisteredSchema: any schema of the type will do.
CheckTypeOnly(i) ==
    /\ IsAt(i)
    /\ call[i].known[Current(i).type] # NoSchema
    /\ Step(i, [call[i] EXCEPT !.at = @ + 1])
    /\ UNCHANGED <<registered, misfits, requests>>

\* The database has a schema of the type already: it has to be the given one.
checkRegisteredSchema(i) ==
    /\ IsAt(i)
    /\ call[i].known[Current(i).type] # NoSchema
    /\ IF isSameSchema(Current(i).schema, call[i].known[Current(i).type])
       THEN Step(i, [call[i] EXCEPT !.at = @ + 1])
       ELSE Return(i, "differs")
    /\ UNCHANGED <<registered, misfits, requests>>

\* None begins once the context has ended; one that has begun is finished.
BeginRegistration(i) ==
    /\ IsAt(i)
    /\ call[i].known[Current(i).type] = NoSchema
    /\ IF call[i].ended
       THEN /\ Return(i, "context")
            /\ UNCHANGED requests
       ELSE /\ Step(i, [call[i] EXCEPT !.pc = "registering", !.reply = "none"])
            /\ requests' = IF Current(i).schema \in Unencodable THEN requests
                           ELSE requests \cup {[from |-> i, at |-> call[i].at, ask |-> Current(i)]}
    /\ UNCHANGED <<registered, misfits>>

RegistrationSucceeds(i) ==
    /\ call[i].pc = "registering" /\ call[i].reply = "ok"
    /\ Step(i, [call[i] EXCEPT !.pc = "loop", !.at = @ + 1])
    /\ UNCHANGED <<registered, misfits, requests>>

\* Mutant of RegistrationConflicts: the refusal counts for good.
RegistrationLost(i) ==
    /\ call[i].pc = "registering" /\ call[i].reply = "conflict"
    /\ Return(i, "refused")
    /\ UNCHANGED <<registered, misfits, requests>>

\* Mutant of RegistrationConflicts: the registration is tried again.
RegistrationTriedAgain(i) ==
    /\ call[i].pc = "registering" /\ call[i].reply = "conflict"
    /\ Step(i, [call[i] EXCEPT !.pc = "reading", !.atRead = registered])
    /\ UNCHANGED <<registered, misfits, requests>>

\* isSchemaConflict: another instance was faster, or the database refused the
\* schema.  Only the registered schemas tell the two apart.
RegistrationConflicts(i) ==
    /\ call[i].pc = "registering" /\ call[i].reply = "conflict"
    /\ Step(i, [call[i] EXCEPT !.pc = "readingAgain", !.atRead = registered])
    /\ UNCHANGED <<registered, misfits, requests>>

\* Any other failure, also of an answer that is lost, while the request may
\* have been handled, or will be.
RegistrationFails(i) ==
    /\ call[i].pc = "registering"
    /\ Return(i, "database")
    /\ UNCHANGED <<registered, misfits, requests>>

-----------------------------------------------------------------------------
(***************************************************************************)
(* The database, external.                                                 *)
(***************************************************************************)
RegisterEventSchema(r) ==
    LET isRefused == registered[r.ask.type] # NoSchema
                     \/ <<r.ask.type, r.ask.schema>> \in misfits
        isAwaited == call[r.from].pc = "registering" /\ call[r.from].at = r.at
    IN  /\ requests' = requests \ {r}
        /\ registered' = IF isRefused THEN registered
                         ELSE [registered EXCEPT ![r.ask.type] = r.ask.schema]
        /\ IF isAwaited
           THEN Step(r.from, [call[r.from] EXCEPT !.reply = IF isRefused THEN "conflict" ELSE "ok"])
           ELSE UNCHANGED call
        /\ UNCHANGED misfits

\* Somebody stores an event that does not match a schema, which is not the
\* registered one.
StoreEvent(m) ==
    /\ registered[m[1]] # m[2]
    /\ misfits' = misfits \cup {m}
    /\ UNCHANGED <<registered, requests, call>>

-----------------------------------------------------------------------------
Register(i) ==
    \/ collectSchemas(i) \/ Collected(i) \/ ReadSchemas(i) \/ ReadFails(i) \/ Done(i) \/ checkRegisteredSchema(i)
    \/ BeginRegistration(i) \/ RegistrationSucceeds(i) \/ RegistrationConflicts(i)
    \/ RegistrationFails(i)

Next ==
    \/ \E i \in Instances :
          (\E input \in Inputs : RegisterSchemas(i, input)) \/ EndContext(i) \/ Register(i)
    \/ \E r \in requests : RegisterEventSchema(r)
    \/ \E m \in Misfits : StoreEvent(m)

\* An instance goes on, and the client answers, or gives up once the database
\* stalls; nobody has to call or to end a context.
Fairness == \A i \in Instances : WF_vars(Register(i))

Spec == Init /\ [][Next]_vars /\ Fairness

-----------------------------------------------------------------------------
(***************************************************************************)
(* Properties.                                                             *)
(***************************************************************************)

\* An instance that got no error may write events of all its types: the
\* database holds exactly the schemas it gave, also if another instance was
\* faster with one of them (RegisterSchemas, collectSchemas).  So two
\* instances that both start agree on every type.
SuccessMeansRegistered ==
    \A i \in Instances : call[i].result = "ok" =>
        \A k \in DOMAIN call[i].input :
            registered[call[i].input[k].type] = call[i].input[k].schema

\* An instance fails for good only for a reason that stays: a stored event
\* does not match one of its schemas, or another one is registered, which
\* never changes.  Losing the race against an equal schema is no such reason
\* (RegisterSchemas reads the schemas again after a conflict).
PermanentMeansHopeless ==
    \A i \in Instances :
        /\ call[i].result = "refused" =>
               \E k \in DOMAIN call[i].input :
                   <<call[i].input[k].type, call[i].input[k].schema>> \in misfits
        /\ call[i].result = "differs" =>
               \E k \in DOMAIN call[i].input :
                   \/ registered[call[i].input[k].type] \notin {NoSchema, call[i].input[k].schema}
                   \/ call[i].input[k].schema \in Unencodable

\* Every call returns, whatever it conflicts with (RegisterSchemas tries no
\* registration a second time).
RegistrationsReturn ==
    \A i \in Instances : call[i].pc # "idle" ~> call[i].pc = "returned"
=============================================================================
