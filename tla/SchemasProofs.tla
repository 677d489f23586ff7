----------------------------- MODULE SchemasProofs -----------------------------
(***************************************************************************)
(* What RegisterSchemas promises to every number of instances, whatever    *)
(* schemas they hand over, however many event types there are and whatever *)
(* events get stored in between.                                           *)
(*                                                                         *)
(* Both properties rest on two facts about the database: it never changes  *)
(* a schema, and an event that is stored stays stored.  What a call knows, *)
(* from a read or from an answer, is therefore still so when it is used.   *)
(* CollectInv ties the schemas the loop goes through to those the instance *)
(* handed over, RequestsInv a request the database handles late to the     *)
(* schema its call is waiting for, and LoopInv says what a call has made   *)
(* sure of so far.                                                         *)
(***************************************************************************)
EXTENDS Schemas, TLAPS

Known == [Types -> JSONSchemas \cup {NoSchema}]

Call ==
    [pc : {"idle", "collecting", "reading", "loop", "registering", "readingAgain", "returned"},
     input : Seq(EventSchema), given : Seq(EventSchema), at : Nat \ {0}, ended : BOOLEAN,
     reply : {"none", "ok", "conflict"}, atRead : Known, known : Known, result : Results]

Request == [from : Instances, at : Nat \ {0}, ask : EventSchema]

TypeOK ==
    /\ registered \in Known
    /\ requests \subseteq Request
    /\ call \in [Instances -> Call]

-----------------------------------------------------------------------------
(***************************************************************************)
(* The parts of the inductive invariant, for the record c of one call and  *)
(* what the database holds: the schemas reg, and the misfits mis.          *)
(***************************************************************************)
Covers(given, g) == \E k \in DOMAIN given : given[k].type = g.type /\ given[k].schema = g.schema

IsCollected(c) == c.pc \in {"reading", "loop", "registering", "readingAgain"}

CollectInv(c) ==
    /\ \A k \in DOMAIN c.given : c.given[k].schema # NoSchema /\ Covers(c.input, c.given[k])
    /\ c.pc = "idle" => c.at = 1 /\ c.given = <<>>
    /\ c.pc \in {"idle", "collecting"} =>
          \A k \in DOMAIN c.input : k < c.at => Covers(c.given, c.input[k])
    /\ IsCollected(c) => \A k \in DOMAIN c.input : Covers(c.given, c.input[k])
    /\ c.pc = "reading" => c.at = 1

\* Every schema the call holds in its hands is the one of the database.
KnownInv(c, reg) ==
    \A t \in Types : /\ c.atRead[t] # NoSchema => reg[t] = c.atRead[t]
                     /\ c.known[t] # NoSchema => reg[t] = c.known[t]

IsRegistered(g, reg) == reg[g.type] = g.schema

IsMisfit(g, mis) == <<g.type, g.schema>> \in mis

Differs(g, reg) == reg[g.type] \notin {NoSchema, g.schema} \/ g.schema \in Unencodable

LoopInv(c, reg, mis) ==
    /\ IsCollected(c) =>
          \A k \in DOMAIN c.given : k < c.at => IsRegistered(c.given[k], reg)
    /\ c.pc \in {"registering", "readingAgain"} => c.at \in DOMAIN c.given
    /\ c.pc = "registering" /\ c.reply = "ok" => IsRegistered(c.given[c.at], reg)
    /\ c.pc = "registering" /\ c.reply = "conflict" =>
          reg[c.given[c.at].type] # NoSchema \/ IsMisfit(c.given[c.at], mis)
    /\ c.pc = "readingAgain" =>
          c.atRead[c.given[c.at].type] # NoSchema \/ IsMisfit(c.given[c.at], mis)

ResultInv(c, reg, mis) ==
    /\ c.pc # "returned" => c.result = "none"
    /\ c.result = "ok" =>
          \A k \in DOMAIN c.input : c.input[k].schema # NoSchema /\ IsRegistered(c.input[k], reg)
    /\ c.result = "refused" => \E k \in DOMAIN c.input : IsMisfit(c.input[k], mis)
    /\ c.result = "differs" => \E k \in DOMAIN c.input : Differs(c.input[k], reg)

CallInv(c, reg, mis) ==
    CollectInv(c) /\ KnownInv(c, reg) /\ LoopInv(c, reg, mis) /\ ResultInv(c, reg, mis)

\* A request asks for what its call has collected, which has a JSON form.
Asks(r, c) ==
    /\ c.pc \notin {"idle", "collecting"}
    /\ r.at \in DOMAIN c.given
    /\ r.ask = c.given[r.at]
    /\ r.ask.schema \in JSONSchemas

Inv ==
    /\ TypeOK
    /\ \A i \in Instances : CallInv(call[i], registered, misfits)
    /\ \A r \in requests : Asks(r, call[r.from])

-----------------------------------------------------------------------------
LEMMA InvImplies ==
    ASSUME Inv
    PROVE  SuccessMeansRegistered /\ PermanentMeansHopeless
BY DEF Inv, CallInv, ResultInv, IsRegistered, IsMisfit, Differs,
       SuccessMeansRegistered, PermanentMeansHopeless

LEMMA InvInit ==
    ASSUME Init
    PROVE  Inv
<1>1. TypeOK
  BY DEF Init, TypeOK, NotCalled, Known, Call, Results
<1>2. ASSUME NEW i \in Instances
      PROVE  CallInv(call[i], registered, misfits)
  BY <1>2 DEF Init, NotCalled, CallInv, CollectInv, KnownInv, LoopInv, ResultInv, IsCollected
<1> QED
  BY <1>1, <1>2 DEF Init, Inv

-----------------------------------------------------------------------------
(***************************************************************************)
(* A step of one call, and a step of the database.                         *)
(***************************************************************************)
LEMMA CallStep ==
    ASSUME Inv, NEW i \in Instances, NEW c \in Call, Step(i, c),
           CallInv(c, registered, misfits), UNCHANGED <<registered, misfits>>,
           requests' \subseteq Request,
           \A r \in requests' : IF r.from = i THEN Asks(r, c) ELSE r \in requests
    PROVE  Inv'
<1>1. call' \in [Instances -> Call] /\ call'[i] = c
      /\ \A j \in Instances : j # i => call'[j] = call[j]
  BY DEF Inv, TypeOK, Step
<1>2. TypeOK'
  BY <1>1 DEF Inv, TypeOK
<1>3. \A j \in Instances : CallInv(call'[j], registered', misfits')
  BY <1>1 DEF Inv
<1>4. ASSUME NEW r \in requests'
      PROVE  Asks(r, call'[r.from])
  <2>1. r.from \in Instances
    BY DEF Request
  <2> QED
    BY <1>1, <2>1 DEF Inv
<1> QED
  BY <1>2, <1>3, <1>4 DEF Inv

\* The usual case: the call sends no request, and keeps what it has collected.
LEMMA QuietStep ==
    ASSUME Inv, NEW i \in Instances, NEW c \in Call, Step(i, c),
           CallInv(c, registered, misfits), UNCHANGED <<registered, misfits, requests>>,
           call[i].pc \in {"idle", "collecting"}
           \/ (c.given = call[i].given /\ c.pc \notin {"idle", "collecting"})
    PROVE  Inv'
<1>1. \A r \in requests : Asks(r, call[r.from])
  BY DEF Inv
<1>2. \A r \in requests' : IF r.from = i THEN Asks(r, c) ELSE r \in requests
  BY <1>1 DEF Asks
<1> QED
  BY <1>2, CallStep DEF Inv, TypeOK

\* What a call relies on stays: schemas do not change, and events are kept.
LEMMA CallInvStays ==
    ASSUME NEW c \in Call, NEW reg \in Known, NEW mis, NEW reg2 \in Known, NEW mis2,
           CallInv(c, reg, mis), mis \subseteq mis2,
           \A t \in Types : reg[t] # NoSchema => reg2[t] = reg[t]
    PROVE  CallInv(c, reg2, mis2)
<1>1. /\ c.given \in Seq(EventSchema) /\ c.input \in Seq(EventSchema)
      /\ c.atRead \in Known /\ c.known \in Known
  BY DEF Call
<1>2. /\ \A k \in DOMAIN c.given : c.given[k] \in EventSchema
      /\ \A k \in DOMAIN c.input : c.input[k] \in EventSchema
  BY <1>1
<1>3. \A g \in EventSchema : g.type \in Types
  BY DEF EventSchema
<1>4. CollectInv(c)
  BY DEF CallInv
<1>5. KnownInv(c, reg2)
  BY DEF CallInv, KnownInv
<1>6. LoopInv(c, reg2, mis2)
  <2>1. \A k \in DOMAIN c.given : c.given[k].schema # NoSchema
    BY <1>4 DEF CollectInv
  <2> QED
    BY <1>2, <1>3, <2>1 DEF CallInv, LoopInv, IsRegistered, IsMisfit
<1>7. ResultInv(c, reg2, mis2)
  <2>1. \A k \in DOMAIN c.input : Differs(c.input[k], reg) => Differs(c.input[k], reg2)
    BY <1>2, <1>3 DEF Differs
  <2>2. c.result = "ok" => \A k \in DOMAIN c.input : c.input[k].schema # NoSchema
    BY DEF CallInv, ResultInv
  <2> QED
    BY <1>2, <1>3, <2>1, <2>2 DEF CallInv, ResultInv, IsRegistered, IsMisfit
<1> QED
  BY <1>4, <1>5, <1>6, <1>7 DEF CallInv

-----------------------------------------------------------------------------
(***************************************************************************)
(* The steps of a call.  Each leaves the rest of the call as it was.       *)
(***************************************************************************)
LEMMA CallFacts ==
    ASSUME Inv, NEW i \in Instances
    PROVE  /\ call[i] \in Call /\ registered \in Known
           /\ CollectInv(call[i]) /\ KnownInv(call[i], registered)
           /\ LoopInv(call[i], registered, misfits) /\ ResultInv(call[i], registered, misfits)
BY DEF Inv, TypeOK, CallInv

\* A call that returns with a result it may return with.
LEMMA ReturnStep ==
    ASSUME Inv, NEW i \in Instances, NEW result \in Results, Return(i, result),
           UNCHANGED <<registered, misfits, requests>>,
           call[i].pc # "idle",
           result = "ok" =>
              \A k \in DOMAIN call[i].input :
                 call[i].input[k].schema # NoSchema /\ IsRegistered(call[i].input[k], registered),
           result = "refused" => \E k \in DOMAIN call[i].input : IsMisfit(call[i].input[k], misfits),
           result = "differs" => \E k \in DOMAIN call[i].input : Differs(call[i].input[k], registered)
    PROVE  Inv'
<1> DEFINE c == [call[i] EXCEPT !.pc = "returned", !.result = result]
<1>1. call[i] \in Call /\ CollectInv(call[i]) /\ KnownInv(call[i], registered)
  BY CallFacts
<1>2. /\ c \in Call /\ c.pc = "returned" /\ c.result = result /\ c.given = call[i].given
      /\ c.input = call[i].input /\ c.atRead = call[i].atRead /\ c.known = call[i].known
  BY <1>1 DEF Call
<1>3. Step(i, c)
  BY DEF Return
<1> HIDE DEF c
<1>4. CallInv(c, registered, misfits)
  <2>1. CollectInv(c)
    BY <1>1, <1>2 DEF CollectInv, IsCollected
  <2>2. KnownInv(c, registered)
    BY <1>1, <1>2 DEF KnownInv
  <2>3. LoopInv(c, registered, misfits)
    BY <1>2 DEF LoopInv, IsCollected
  <2>4. ResultInv(c, registered, misfits)
    BY <1>2 DEF ResultInv
  <2> QED
    BY <2>1, <2>2, <2>3, <2>4 DEF CallInv
<1> QED
  BY <1>2, <1>3, <1>4, QuietStep

LEMMA BeginKeepsInv ==
    ASSUME Inv, NEW i \in Instances, NEW input \in Inputs, RegisterSchemas(i, input)
    PROVE  Inv'
<1> DEFINE c == [call[i] EXCEPT !.pc = "collecting", !.input = input]
<1>1. /\ call[i] \in Call /\ CollectInv(call[i]) /\ KnownInv(call[i], registered)
      /\ ResultInv(call[i], registered, misfits) /\ call[i].pc = "idle"
  BY CallFacts DEF RegisterSchemas
<1>2. input \in Seq(EventSchema)
  BY InputsAreSchemas
<1>3. /\ c \in Call /\ c.pc = "collecting" /\ c.result = call[i].result /\ c.given = call[i].given
      /\ c.input = input /\ c.atRead = call[i].atRead /\ c.known = call[i].known /\ c.at = call[i].at
  BY <1>1, <1>2 DEF Call
<1>4. Step(i, c) /\ UNCHANGED <<registered, misfits, requests>>
  BY DEF RegisterSchemas
<1> HIDE DEF c
<1>5. CallInv(c, registered, misfits)
  <2>1. CollectInv(c)
    <3>1. c.at = 1 /\ c.given = <<>> /\ \A k \in DOMAIN input : ~(k < 1)
      BY <1>1, <1>2, <1>3 DEF CollectInv
    <3> QED
      BY <1>1, <1>2, <1>3, <3>1 DEF CollectInv, IsCollected
  <2>2. KnownInv(c, registered)
    BY <1>1, <1>3 DEF KnownInv
  <2>3. LoopInv(c, registered, misfits)
    BY <1>3 DEF LoopInv, IsCollected
  <2>4. ResultInv(c, registered, misfits)
    BY <1>1, <1>3 DEF ResultInv
  <2> QED
    BY <2>1, <2>2, <2>3, <2>4 DEF CallInv
<1> QED
  BY <1>1, <1>3, <1>4, <1>5, QuietStep

\* collectSchemas: a schema that is left out is one that is collected already.
LEMMA CollectKeepsInv ==
    ASSUME Inv, NEW i \in Instances, collectSchemas(i)
    PROVE  Inv'
<1> DEFINE d == call[i]
           next == d.input[d.at]
           seen == Positions(d.given, next.type)
<1>1. /\ d \in Call /\ CollectInv(d) /\ KnownInv(d, registered)
      /\ ResultInv(d, registered, misfits) /\ d.pc = "collecting" /\ d.at \in DOMAIN d.input
      /\ UNCHANGED <<registered, misfits, requests>>
  BY CallFacts DEF collectSchemas
<1>2. /\ d.input \in Seq(EventSchema) /\ d.given \in Seq(EventSchema) /\ next \in EventSchema
      /\ d.at \in Nat \ {0}
  BY <1>1 DEF Call
<1>3. ASSUME NEW given \in Seq(EventSchema), next.schema # NoSchema, Covers(given, next),
             Step(i, [d EXCEPT !.given = given, !.at = d.at + 1]),
             \A k \in DOMAIN given : given[k] = next \/ \E j \in DOMAIN d.given : given[k] = d.given[j],
             \A j \in DOMAIN d.given : j \in DOMAIN given /\ given[j] = d.given[j]
      PROVE  Inv'
  <2> DEFINE c == [d EXCEPT !.given = given, !.at = d.at + 1]
  <2>1. /\ c \in Call /\ c.pc = "collecting" /\ c.result = d.result /\ c.given = given
        /\ c.input = d.input /\ c.atRead = d.atRead /\ c.known = d.known /\ c.at = d.at + 1
    <3>1. d.at + 1 \in Nat \ {0}
      BY <1>2
    <3> HIDE DEF d
    <3> QED
      BY <1>1, <3>1 DEF Call
  <2>2. Step(i, c)
    BY <1>3
  <2> HIDE DEF c
  <2>3. CollectInv(c)
    <3>1. Covers(d.input, next)
      BY <1>1 DEF Covers
    <3>2. \A k \in DOMAIN given : given[k].schema # NoSchema /\ Covers(d.input, given[k])
      BY <1>1, <1>3, <3>1 DEF CollectInv
    <3>3. ASSUME NEW k \in DOMAIN d.input, k < d.at + 1
          PROVE  Covers(given, d.input[k])
      <4>1. k = d.at \/ k < d.at
        BY <1>2, <3>3
      <4>2. CASE k < d.at
        <5>1. Covers(d.given, d.input[k])
          BY <1>1, <4>2 DEF CollectInv
        <5> QED
          BY <1>3, <5>1 DEF Covers
      <4> QED
        BY <1>3, <4>1, <4>2
    <3> QED
      BY <2>1, <3>2, <3>3 DEF CollectInv, IsCollected
  <2>4. KnownInv(c, registered)
    BY <1>1, <2>1 DEF KnownInv
  <2>5. LoopInv(c, registered, misfits)
    BY <2>1 DEF LoopInv, IsCollected
  <2>6. ResultInv(c, registered, misfits)
    BY <1>1, <2>1 DEF ResultInv
  <2>7. CallInv(c, registered, misfits)
    BY <2>3, <2>4, <2>5, <2>6 DEF CallInv
  <2> QED
    BY <1>1, <2>1, <2>2, <2>7, QuietStep
<1>4. CASE next.schema = NoSchema
  <2>1. Return(i, "noSchema")
    BY <1>4 DEF collectSchemas
  <2> QED
    BY <1>1, <2>1, ReturnStep DEF Results
<1>5. CASE next.schema # NoSchema /\ seen = {}
  <2> DEFINE given == Append(d.given, next)
  <2>1. given \in Seq(EventSchema) /\ DOMAIN given = 1 .. Len(d.given) + 1
        /\ given[Len(d.given) + 1] = next
        /\ \A j \in DOMAIN d.given : j \in DOMAIN given /\ given[j] = d.given[j]
    BY <1>2
  <2>2. Step(i, [d EXCEPT !.given = given, !.at = d.at + 1])
    BY <1>5 DEF collectSchemas
  <2>3. Covers(given, next)
    <3>1. Len(d.given) + 1 \in DOMAIN given
      BY <1>2, <2>1
    <3> QED
      BY <2>1, <3>1 DEF Covers
  <2>4. \A k \in DOMAIN given : given[k] = next \/ \E j \in DOMAIN d.given : given[k] = d.given[j]
    <3>1. \A k \in DOMAIN given : k = Len(d.given) + 1 \/ k \in DOMAIN d.given
      BY <1>2, <2>1
    <3> QED
      BY <2>1, <3>1
  <2> HIDE DEF given, next, seen, d
  <2> QED
    BY <1>3, <1>5, <2>1, <2>2, <2>3, <2>4
<1>6. CASE next.schema # NoSchema /\ seen # {}
           /\ \A k \in seen : isSameSchema(d.given[k].schema, next.schema)
  <2>1. Step(i, [d EXCEPT !.at = d.at + 1])
    BY <1>6 DEF collectSchemas
  <2>2. [d EXCEPT !.at = d.at + 1] = [d EXCEPT !.given = d.given, !.at = d.at + 1]
    BY <1>1 DEF Call
  <2>3. Covers(d.given, next)
    BY <1>6 DEF Covers, Positions, isSameSchema
  <2>4. Step(i, [d EXCEPT !.given = d.given, !.at = d.at + 1])
    BY <2>1, <2>2
  <2> HIDE DEF next, seen, d
  <2> QED
    BY <1>2, <1>3, <1>6, <2>3, <2>4
<1>7. CASE next.schema # NoSchema /\ seen # {}
           /\ ~\A k \in seen : isSameSchema(d.given[k].schema, next.schema)
  <2>1. Return(i, "twoSchemas")
    BY <1>7 DEF collectSchemas
  <2> QED
    BY <1>1, <2>1, ReturnStep DEF Results
<1> QED
  BY <1>4, <1>5, <1>6, <1>7

LEMMA CollectedKeepsInv ==
    ASSUME Inv, NEW i \in Instances, Collected(i)
    PROVE  Inv'
<1> DEFINE d == call[i]
           c == [d EXCEPT !.pc = "reading", !.at = 1, !.atRead = registered]
<1>1. /\ d \in Call /\ CollectInv(d) /\ KnownInv(d, registered) /\ registered \in Known
      /\ ResultInv(d, registered, misfits) /\ d.pc = "collecting" /\ d.at \notin DOMAIN d.input
      /\ UNCHANGED <<registered, misfits, requests>> /\ Step(i, c)
  BY CallFacts DEF Collected
<1>2. d.input \in Seq(EventSchema) /\ d.at \in Nat \ {0} /\ d.given \in Seq(EventSchema)
  BY <1>1 DEF Call
<1>3. /\ c \in Call /\ c.pc = "reading" /\ c.result = d.result /\ c.given = d.given
      /\ c.input = d.input /\ c.atRead = registered /\ c.known = d.known /\ c.at = 1
  <2>1. d \in Call /\ registered \in Known /\ 1 \in Nat \ {0}
    BY <1>1
  <2> HIDE DEF d
  <2> QED
    BY <2>1 DEF Call
<1> HIDE DEF c
<1>4. CollectInv(c)
  <2>1. \A k \in DOMAIN d.input : k < d.at
    BY <1>1, <1>2
  <2> QED
    BY <1>1, <1>3, <2>1 DEF CollectInv, IsCollected
<1>5. KnownInv(c, registered)
  BY <1>1, <1>3 DEF KnownInv
<1>6. LoopInv(c, registered, misfits)
  <2>1. \A k \in DOMAIN d.given : ~(k < 1)
    BY <1>2
  <2> QED
    BY <1>3, <2>1 DEF LoopInv
<1>7. ResultInv(c, registered, misfits)
  BY <1>1, <1>3 DEF ResultInv
<1>8. CallInv(c, registered, misfits)
  BY <1>4, <1>5, <1>6, <1>7 DEF CallInv
<1> QED
  BY <1>1, <1>3, <1>8, QuietStep

\* A step of a call that has collected its schemas and does not return.
LEMMA LoopStep ==
    ASSUME Inv, NEW i \in Instances, NEW c \in Call, Step(i, c),
           UNCHANGED <<registered, misfits>>,
           IsCollected(call[i]), IsCollected(c), c.pc = "reading" => c.at = 1,
           c.input = call[i].input, c.given = call[i].given, c.result = call[i].result,
           KnownInv(c, registered), LoopInv(c, registered, misfits),
           requests' \subseteq Request,
           \A r \in requests' : r \in requests \/ (r.from = i /\ Asks(r, c))
    PROVE  Inv'
<1>1. CollectInv(call[i]) /\ ResultInv(call[i], registered, misfits)
  BY CallFacts
<1>2. CollectInv(c)
  BY <1>1 DEF CollectInv, IsCollected
<1>3. ResultInv(c, registered, misfits)
  BY <1>1 DEF ResultInv, IsCollected
<1>4. CallInv(c, registered, misfits)
  BY <1>2, <1>3 DEF CallInv
<1>5. \A r \in requests : r.from = i => Asks(r, c)
  BY DEF Inv, Asks, IsCollected
<1> QED
  BY <1>4, <1>5, CallStep

\* A context that ends changes nothing a call relies on.
LEMMA EndContextKeepsInv ==
    ASSUME Inv, NEW i \in Instances, EndContext(i)
    PROVE  Inv'
<1> DEFINE d == call[i]
           c == [d EXCEPT !.ended = TRUE]
<1>1. /\ d \in Call /\ CallInv(d, registered, misfits) /\ Step(i, c)
      /\ UNCHANGED <<registered, misfits, requests>>
  BY DEF EndContext, Inv, TypeOK
<1>2. c \in Call /\ \A f \in DOMAIN d : f # "ended" => c[f] = d[f]
  <2> HIDE DEF d
  <2> QED
    BY <1>1 DEF Call
<1>3. /\ c.pc = d.pc /\ c.result = d.result /\ c.given = d.given /\ c.reply = d.reply
      /\ c.input = d.input /\ c.atRead = d.atRead /\ c.known = d.known /\ c.at = d.at
  <2> HIDE DEF d
  <2> QED
    BY <1>1 DEF Call
<1> HIDE DEF c
<1>4. CallInv(c, registered, misfits)
  BY <1>1, <1>3 DEF CallInv, CollectInv, KnownInv, LoopInv, ResultInv, IsCollected
<1>5. \A r \in requests : r.from = i => Asks(r, c)
  BY <1>3 DEF Inv, Asks
<1> QED
  BY <1>1, <1>2, <1>4, <1>5, CallStep DEF Inv, TypeOK

\* readRegisteredSchemas: what was read is still so, and a schema that is still
\* missing after a conflict was refused for an event that is stored.
LEMMA ReadKeepsInv ==
    ASSUME Inv, NEW i \in Instances, ReadSchemas(i) \/ ReadFails(i)
    PROVE  Inv'
<1> DEFINE d == call[i]
<1>1. /\ d \in Call /\ CollectInv(d) /\ KnownInv(d, registered) /\ registered \in Known
      /\ LoopInv(d, registered, misfits) /\ d.pc \in {"reading", "readingAgain"}
      /\ UNCHANGED <<registered, misfits, requests>>
  BY CallFacts DEF ReadSchemas, ReadFails
<1>2. /\ d.given \in Seq(EventSchema) /\ d.atRead \in Known
      /\ \A k \in DOMAIN d.given : d.given[k].type \in Types
  <2>1. d.given \in Seq(EventSchema) /\ d.atRead \in Known
    BY <1>1 DEF Call
  <2>2. \A k \in DOMAIN d.given : d.given[k] \in EventSchema
    BY <2>1
  <2> QED
    BY <2>1, <2>2 DEF EventSchema
<1>3. CASE ReadFails(i)
  <2>1. Return(i, "context") \/ Return(i, "database")
    BY <1>3 DEF ReadFails
  <2> QED
    BY <1>1, <2>1, ReturnStep DEF Results
<1>4. CASE ReadSchemas(i)
  <2>1. PICK known \in {k \in Known : \A t \in Types : k[t] \in {d.atRead[t], registered[t]}} :
           IF d.pc = "readingAgain" /\ known[Current(i).type] = NoSchema
           THEN Return(i, "refused")
           ELSE Step(i, [d EXCEPT !.pc = "loop", !.known = known])
    BY <1>4 DEF ReadSchemas, Known
  <2>2. \A t \in Types : known[t] # NoSchema => registered[t] = known[t]
    BY <1>1 DEF KnownInv
  <2>3. CASE d.pc = "readingAgain" /\ known[Current(i).type] = NoSchema
    <3>1. d.at \in DOMAIN d.given /\ Current(i) = d.given[d.at] /\ Current(i).type \in Types
      BY <1>1, <1>2, <2>3 DEF LoopInv, Current
    <3>2. d.atRead[Current(i).type] = NoSchema
      BY <1>1, <2>1, <2>3, <3>1 DEF KnownInv
    <3>3. IsMisfit(Current(i), misfits)
      BY <1>1, <2>3, <3>1, <3>2 DEF LoopInv
    <3>4. Covers(d.input, Current(i))
      BY <1>1, <3>1 DEF CollectInv
    <3>5. \E k \in DOMAIN d.input : IsMisfit(d.input[k], misfits)
      BY <3>3, <3>4 DEF Covers, IsMisfit
    <3> QED
      BY <1>1, <2>1, <2>3, <3>5, ReturnStep DEF Results
  <2>4. CASE ~(d.pc = "readingAgain" /\ known[Current(i).type] = NoSchema)
    <3> DEFINE c == [d EXCEPT !.pc = "loop", !.known = known]
    <3>1. /\ c \in Call /\ c.pc = "loop" /\ c.result = d.result /\ c.given = d.given
          /\ c.input = d.input /\ c.atRead = d.atRead /\ c.known = known /\ c.at = d.at
      <4> HIDE DEF d
      <4> QED
        BY <1>1 DEF Call
    <3>2. Step(i, c)
      BY <2>1, <2>4
    <3> HIDE DEF c
    <3>3. KnownInv(c, registered)
      BY <1>1, <2>2, <3>1 DEF KnownInv
    <3>4. LoopInv(c, registered, misfits)
      BY <1>1, <3>1 DEF LoopInv, IsCollected
    <3> QED
      BY <1>1, <3>1, <3>2, <3>3, <3>4, LoopStep DEF IsCollected, Inv, TypeOK
  <2> QED
    BY <2>3, <2>4
<1> QED
  BY <1>3, <1>4

LEMMA LoopFacts ==
    ASSUME Inv, NEW i \in Instances, call[i].pc \in {"loop", "registering"}
    PROVE  /\ call[i] \in Call /\ registered \in Known /\ IsCollected(call[i])
           /\ CollectInv(call[i]) /\ KnownInv(call[i], registered)
           /\ LoopInv(call[i], registered, misfits)
           /\ call[i].given \in Seq(EventSchema) /\ call[i].at \in Nat \ {0}
           /\ call[i].known \in Known /\ call[i].input \in Seq(EventSchema)
           /\ \A k \in DOMAIN call[i].given :
                 call[i].given[k] \in EventSchema /\ call[i].given[k].type \in Types
<1>1. call[i] \in Call
  BY CallFacts
<1>2. /\ call[i].given \in Seq(EventSchema) /\ call[i].at \in Nat \ {0}
      /\ call[i].known \in Known /\ call[i].input \in Seq(EventSchema)
  BY <1>1 DEF Call
<1>3. \A k \in DOMAIN call[i].given : call[i].given[k] \in EventSchema
  BY <1>2
<1>4. \A g \in EventSchema : g.type \in Types
  BY DEF EventSchema
<1> QED
  BY <1>1, <1>2, <1>3, <1>4, CallFacts DEF IsCollected

\* On to the next schema, after the current one is known to be registered.
LEMMA AdvanceStep ==
    ASSUME Inv, NEW i \in Instances, call[i].pc \in {"loop", "registering"},
           call[i].at \in DOMAIN call[i].given, IsRegistered(Current(i), registered),
           Step(i, [call[i] EXCEPT !.pc = "loop", !.at = call[i].at + 1]),
           UNCHANGED <<registered, misfits, requests>>
    PROVE  Inv'
<1> DEFINE d == call[i]
           c == [d EXCEPT !.pc = "loop", !.at = d.at + 1]
<1>1. /\ d \in Call /\ IsCollected(d) /\ KnownInv(d, registered) /\ LoopInv(d, registered, misfits)
      /\ d.at \in Nat \ {0} /\ d.given \in Seq(EventSchema)
  BY LoopFacts
<1>2. /\ c \in Call /\ c.pc = "loop" /\ c.result = d.result /\ c.given = d.given
      /\ c.input = d.input /\ c.atRead = d.atRead /\ c.known = d.known /\ c.at = d.at + 1
  <2>1. d \in Call /\ d.at + 1 \in Nat \ {0}
    BY <1>1
  <2> HIDE DEF d
  <2> QED
    BY <2>1 DEF Call
<1>3. Step(i, c)
  OBVIOUS
<1> HIDE DEF c
<1>4. KnownInv(c, registered)
  BY <1>1, <1>2 DEF KnownInv
<1>5. LoopInv(c, registered, misfits)
  <2>1. ASSUME NEW k \in DOMAIN d.given, k < d.at + 1
        PROVE  IsRegistered(d.given[k], registered)
    <3>1. k = d.at \/ k < d.at
      BY <1>1, <2>1
    <3> QED
      BY <1>1, <3>1 DEF LoopInv, Current
  <2> QED
    BY <1>2, <2>1 DEF LoopInv
<1> QED
  BY <1>1, <1>2, <1>3, <1>4, <1>5, LoopStep DEF IsCollected, Inv, TypeOK

LEMMA DoneKeepsInv ==
    ASSUME Inv, NEW i \in Instances, Done(i)
    PROVE  Inv'
<1> DEFINE d == call[i]
<1>1. /\ d.pc = "loop" /\ d.at \notin DOMAIN d.given /\ Return(i, "ok")
      /\ UNCHANGED <<registered, misfits, requests>>
  BY DEF Done
<1>2. /\ IsCollected(d) /\ CollectInv(d) /\ LoopInv(d, registered, misfits)
      /\ d.given \in Seq(EventSchema) /\ d.at \in Nat \ {0}
  BY <1>1, LoopFacts
<1>3. \A k \in DOMAIN d.given : k < d.at
  BY <1>1, <1>2
<1>4. \A k \in DOMAIN d.given : IsRegistered(d.given[k], registered) /\ d.given[k].schema # NoSchema
  BY <1>2, <1>3 DEF LoopInv, CollectInv
<1>5. \A k \in DOMAIN d.input : Covers(d.given, d.input[k])
  BY <1>2 DEF CollectInv
<1>6. \A k \in DOMAIN d.input : d.input[k].schema # NoSchema /\ IsRegistered(d.input[k], registered)
  BY <1>4, <1>5 DEF Covers, IsRegistered
<1> QED
  BY <1>1, <1>6, ReturnStep DEF Results

LEMMA CheckKeepsInv ==
    ASSUME Inv, NEW i \in Instances, checkRegisteredSchema(i)
    PROVE  Inv'
<1> DEFINE d == call[i]
           g == Current(i)
<1>1. /\ d.pc = "loop" /\ d.at \in DOMAIN d.given /\ g = d.given[d.at] /\ d.known[g.type] # NoSchema
      /\ UNCHANGED <<registered, misfits, requests>>
  BY DEF checkRegisteredSchema, IsAt, Current
<1>2. /\ d \in Call /\ CollectInv(d) /\ KnownInv(d, registered) /\ g.type \in Types
  BY <1>1, LoopFacts
<1>3. registered[g.type] = d.known[g.type] /\ registered[g.type] # NoSchema
  BY <1>1, <1>2 DEF KnownInv
<1>4. CASE isSameSchema(g.schema, d.known[g.type])
  <2>1. IsRegistered(g, registered)
    BY <1>3, <1>4 DEF IsRegistered, isSameSchema
  <2>2. Step(i, [d EXCEPT !.at = d.at + 1])
    BY <1>4 DEF checkRegisteredSchema
  <2>3. [d EXCEPT !.at = d.at + 1] = [d EXCEPT !.pc = "loop", !.at = d.at + 1]
    <3> HIDE DEF d
    <3> QED
      BY <1>1, <1>2 DEF Call
  <2> QED
    BY <1>1, <2>1, <2>2, <2>3, AdvanceStep
<1>5. CASE ~isSameSchema(g.schema, d.known[g.type])
  <2>1. Return(i, "differs")
    BY <1>5 DEF checkRegisteredSchema
  <2>2. Differs(g, registered)
    BY <1>3, <1>5 DEF Differs, isSameSchema
  <2>3. Covers(d.input, g)
    BY <1>1, <1>2 DEF CollectInv
  <2>4. \E k \in DOMAIN d.input : Differs(d.input[k], registered)
    BY <2>2, <2>3 DEF Covers, Differs
  <2> QED
    BY <1>1, <2>1, <2>4, ReturnStep DEF Results
<1> QED
  BY <1>4, <1>5

\* A registration that begins asks for the current schema, if it has a JSON
\* form, and waits for the answer.
LEMMA BeginRegistrationKeepsInv ==
    ASSUME Inv, NEW i \in Instances, BeginRegistration(i)
    PROVE  Inv'
<1> DEFINE d == call[i]
           g == Current(i)
           c == [d EXCEPT !.pc = "registering", !.reply = "none"]
           ask == [from |-> i, at |-> d.at, ask |-> g]
<1>1. /\ d.pc = "loop" /\ d.at \in DOMAIN d.given /\ g = d.given[d.at]
      /\ UNCHANGED <<registered, misfits>>
  BY DEF BeginRegistration, IsAt, Current
<1>2. /\ d \in Call /\ IsCollected(d) /\ CollectInv(d) /\ KnownInv(d, registered)
      /\ LoopInv(d, registered, misfits) /\ g \in EventSchema /\ d.at \in Nat \ {0}
  BY <1>1, LoopFacts
<1>3. CASE d.ended
  <2>1. Return(i, "context") /\ UNCHANGED requests
    BY <1>3 DEF BeginRegistration
  <2> QED
    BY <1>1, <2>1, ReturnStep DEF Results
<1>4. CASE ~d.ended
  <2>1. Step(i, c)
    BY <1>4 DEF BeginRegistration
  <2>2. requests' = IF g.schema \in Unencodable THEN requests ELSE requests \cup {ask}
    BY <1>4 DEF BeginRegistration
  <2>3. /\ c \in Call /\ c.pc = "registering" /\ c.result = d.result /\ c.given = d.given
        /\ c.input = d.input /\ c.atRead = d.atRead /\ c.known = d.known /\ c.at = d.at
        /\ c.reply = "none"
    <3>1. d \in Call
      BY <1>2
    <3> HIDE DEF d
    <3> QED
      BY <3>1 DEF Call
  <2> HIDE DEF c
  <2>4. ask \in Request
    BY <1>2 DEF Request
  <2>5. g.schema \notin Unencodable => Asks(ask, c)
    <3>1. g.schema # NoSchema
      BY <1>1, <1>2 DEF CollectInv
    <3>2. g.schema \notin Unencodable => g.schema \in JSONSchemas
      BY <1>2, <3>1 DEF EventSchema
    <3> QED
      BY <1>1, <2>3, <3>2 DEF Asks
  <2>6. \A r \in requests' : r \in requests \/ (r.from = i /\ Asks(r, c))
    BY <2>2, <2>5
  <2>7. requests' \subseteq Request
    BY <2>2, <2>4 DEF Inv, TypeOK
  <2>8. KnownInv(c, registered)
    BY <1>2, <2>3 DEF KnownInv
  <2>9. LoopInv(c, registered, misfits)
    BY <1>1, <1>2, <2>3 DEF LoopInv, IsCollected
  <2>10. IsCollected(c)
    BY <2>3 DEF IsCollected
  <2> QED
    BY <1>1, <1>2, <2>1, <2>3, <2>6, <2>7, <2>8, <2>9, <2>10, LoopStep
<1> QED
  BY <1>3, <1>4

\* The answers: a success is a schema that is registered, and after a conflict
\* the schemas are read again.
LEMMA AnswerKeepsInv ==
    ASSUME Inv, NEW i \in Instances,
           RegistrationSucceeds(i) \/ RegistrationConflicts(i) \/ RegistrationFails(i)
    PROVE  Inv'
<1> DEFINE d == call[i]
<1>1. d.pc = "registering" /\ UNCHANGED <<registered, misfits, requests>>
  BY DEF RegistrationSucceeds, RegistrationConflicts, RegistrationFails
<1>2. /\ d \in Call /\ IsCollected(d) /\ registered \in Known /\ KnownInv(d, registered)
      /\ LoopInv(d, registered, misfits) /\ d.at \in DOMAIN d.given
  BY <1>1, LoopFacts DEF LoopInv
<1>3. CASE RegistrationSucceeds(i)
  <2>1. d.reply = "ok" /\ Step(i, [d EXCEPT !.pc = "loop", !.at = d.at + 1])
    BY <1>3 DEF RegistrationSucceeds
  <2>2. IsRegistered(Current(i), registered)
    BY <1>1, <1>2, <2>1 DEF LoopInv, Current
  <2> QED
    BY <1>1, <1>2, <2>1, <2>2, AdvanceStep
<1>4. CASE RegistrationConflicts(i)
  <2> DEFINE c == [d EXCEPT !.pc = "readingAgain", !.atRead = registered]
  <2>1. d.reply = "conflict" /\ Step(i, c)
    BY <1>4 DEF RegistrationConflicts
  <2>2. /\ c \in Call /\ c.pc = "readingAgain" /\ c.result = d.result /\ c.given = d.given
        /\ c.input = d.input /\ c.atRead = registered /\ c.known = d.known /\ c.at = d.at
    <3>1. d \in Call /\ registered \in Known
      BY <1>2
    <3> HIDE DEF d
    <3> QED
      BY <3>1 DEF Call
  <2> HIDE DEF c
  <2>3. KnownInv(c, registered)
    BY <1>2, <2>2 DEF KnownInv
  <2>4. LoopInv(c, registered, misfits)
    BY <1>1, <1>2, <2>1, <2>2 DEF LoopInv, IsCollected
  <2>5. IsCollected(c)
    BY <2>2 DEF IsCollected
  <2> QED
    BY <1>1, <1>2, <2>1, <2>2, <2>3, <2>4, <2>5, LoopStep DEF Inv, TypeOK
<1>5. CASE RegistrationFails(i)
  <2>1. Return(i, "database")
    BY <1>5 DEF RegistrationFails
  <2> QED
    BY <1>1, <2>1, ReturnStep DEF Results
<1> QED
  BY <1>3, <1>4, <1>5

-----------------------------------------------------------------------------
(***************************************************************************)
(* The steps of the database.                                              *)
(***************************************************************************)
LEMMA DatabaseKeepsInv ==
    ASSUME Inv, NEW r \in requests, RegisterEventSchema(r)
    PROVE  Inv'
<1> DEFINE d == call[r.from]
           isRefused == registered[r.ask.type] # NoSchema \/ <<r.ask.type, r.ask.schema>> \in misfits
           isAwaited == d.pc = "registering" /\ d.at = r.at
           reply == IF isRefused THEN "conflict" ELSE "ok"
           c == [d EXCEPT !.reply = reply]
<1>1. /\ r \in Request /\ Asks(r, d) /\ registered \in Known /\ call \in [Instances -> Call]
      /\ \A j \in Instances : CallInv(call[j], registered, misfits)
      /\ requests \subseteq Request /\ \A q \in requests : Asks(q, call[q.from])
  BY DEF Inv, TypeOK
<1>2. r.from \in Instances /\ r.ask.type \in Types /\ r.ask.schema \in JSONSchemas
  BY <1>1 DEF Request, Asks, EventSchema
<1>3. /\ requests' = requests \ {r} /\ misfits' = misfits
      /\ registered' = IF isRefused THEN registered
                       ELSE [registered EXCEPT ![r.ask.type] = r.ask.schema]
      /\ call' = IF isAwaited THEN [call EXCEPT ![r.from] = c] ELSE call
  BY DEF RegisterEventSchema, Step
<1>4. /\ registered' \in Known
      /\ \A t \in Types : registered[t] # NoSchema => registered'[t] = registered[t]
      /\ ~isRefused => registered'[r.ask.type] = r.ask.schema
      /\ isRefused => registered' = registered
  BY <1>1, <1>2, <1>3 DEF Known
<1>5. \A j \in Instances : CallInv(call[j], registered', misfits')
  BY <1>1, <1>3, <1>4, CallInvStays
<1>6. /\ c \in Call /\ c.pc = d.pc /\ c.result = d.result /\ c.given = d.given /\ c.reply = reply
      /\ c.input = d.input /\ c.atRead = d.atRead /\ c.known = d.known /\ c.at = d.at
  <2>1. d \in Call /\ reply \in {"none", "ok", "conflict"}
    BY <1>1, <1>2
  <2> HIDE DEF d, reply
  <2> QED
    BY <2>1 DEF Call
<1>7. ASSUME isAwaited
      PROVE  CallInv(c, registered', misfits')
  <2>1. /\ d.given[d.at] = r.ask /\ d.at \in DOMAIN d.given /\ CallInv(d, registered', misfits')
        /\ d.pc = "registering"
    BY <1>1, <1>2, <1>5, <1>7 DEF Asks
  <2>2. isRefused => registered'[r.ask.type] # NoSchema \/ IsMisfit(r.ask, misfits')
    BY <1>3, <1>4 DEF IsMisfit
  <2>3. ~isRefused => IsRegistered(r.ask, registered')
    BY <1>4 DEF IsRegistered
  <2>4. (reply = "ok" => ~isRefused) /\ (reply = "conflict" => isRefused)
    OBVIOUS
  <2> HIDE DEF c, d, isRefused, reply
  <2>5. LoopInv(c, registered', misfits')
    BY <1>6, <2>1, <2>2, <2>3, <2>4 DEF CallInv, LoopInv, IsCollected
  <2> QED
    BY <1>6, <2>1, <2>5 DEF CallInv, CollectInv, KnownInv, ResultInv, IsCollected
<1> HIDE DEF c, isRefused
<1>8. call' \in [Instances -> Call]
  BY <1>1, <1>2, <1>3, <1>6
<1>9. \A j \in Instances : CallInv(call'[j], registered', misfits')
  BY <1>1, <1>2, <1>3, <1>5, <1>7
<1>10. \A q \in requests' : Asks(q, call'[q.from])
  <2>1. \A q \in requests : q.from \in Instances
    BY <1>1 DEF Request
  <2>2. \A q \in requests : q.from = r.from => Asks(q, c)
    BY <1>1, <1>6 DEF Asks
  <2> QED
    BY <1>1, <1>2, <1>3, <2>1, <2>2
<1> QED
  BY <1>1, <1>3, <1>4, <1>8, <1>9, <1>10 DEF Inv, TypeOK

LEMMA StoreEventKeepsInv ==
    ASSUME Inv, NEW m \in Misfits, StoreEvent(m)
    PROVE  Inv'
<1>1. \A j \in Instances : CallInv(call'[j], registered', misfits')
  BY CallInvStays DEF StoreEvent, Inv, TypeOK
<1> QED
  BY <1>1 DEF StoreEvent, Inv, TypeOK

-----------------------------------------------------------------------------
\* The inductive invariant: at every time, whatever the instances do at once
\* (RegisterSchemas), a call has made sure of the schemas before the one its
\* loop is at, and what it has read or was answered is still so.
THEOREM SchemasInv == Spec => []Inv
<1>1. ASSUME Inv, Next
      PROVE  Inv'
  <2>1. ASSUME NEW i \in Instances, NEW input \in Inputs, RegisterSchemas(i, input)
        PROVE  Inv'
    BY <1>1, <2>1, BeginKeepsInv
  <2>2. ASSUME NEW i \in Instances, Register(i)
        PROVE  Inv'
    BY <1>1, <2>2, CollectKeepsInv, CollectedKeepsInv, ReadKeepsInv, DoneKeepsInv, CheckKeepsInv,
       BeginRegistrationKeepsInv, AnswerKeepsInv DEF Register
  <2> QED
    BY <1>1, <2>1, <2>2, EndContextKeepsInv, DatabaseKeepsInv, StoreEventKeepsInv DEF Next
<1>2. Inv /\ UNCHANGED vars => Inv'
  BY DEF vars, Inv, TypeOK
<1> QED
  BY <1>1, <1>2, InvInit, PTL DEF Spec

\* An instance whose RegisterSchemas returned no error may write events of all
\* its types: the database holds exactly its schemas, also where another
\* instance was faster, for every number of instances, types and schemas.
THEOREM SuccessRegisters == Spec => []SuccessMeansRegistered
BY SchemasInv, InvImplies, PTL

\* RegisterSchemas fails for good only for a reason that stays: an event that
\* does not match is stored, another schema is registered, or the schema has no
\* JSON form.  Losing a race against an instance with the same schema is none.
THEOREM PermanentIsHopeless == Spec => []PermanentMeansHopeless
BY SchemasInv, InvImplies, PTL
=============================================================================
