------------------------ MODULE ReadYourWritesProofs ------------------------
(***************************************************************************)
(* Proofs about ReadYourWrites, for every number of callers, instances,    *)
(* queries, events, days and restarts.  The inductive invariant follows a  *)
(* revision on its way: a view holds all changes of its revision (ViewOK), *)
(* what a request has found in the view is still in it, since the request  *)
(* ends with the view at a restart (RequestOK), and a tag that a caller    *)
(* holds belongs to an answer with all of its revision, given on the day   *)
(* of the tag or later, and not after today (HeldOK).  So a tag of today   *)
(* that equals the held one was made on the day of the held answer.        *)
(***************************************************************************)
EXTENDS ReadYourWrites, TLAPS

Tags == {NoTag} \cup (Nat \X Queries \X Nat)

Errors == {"nil", "canceled", "deadline", "other"}

Phases == {"idle", "look", "compare", "select", "returned", "revision", "tag", "answer"}

Request ==
    [pc : Phases, kind : {"written", "query"}, at : Instances, query : Queries,
     tags : SUBSET Tags, any : BOOLEAN, wanted : Revisions, seen : Revisions, channel : Nat,
     err : Errors, ctx : Errors, waiting : Errors, shown : Revisions, tag : Tags]

Given ==
    [status : {"none", "caught up", "ended", "timeout", "failed", "ok", "unchanged"},
     query : Queries, shown : Revisions, tag : Tags, changes : Nat, day : Nat, any : BOOLEAN,
     reached : Revisions]

Typed ==
    /\ stored \in Nat /\ day \in Nat
    /\ position \in [Instances -> Nat] /\ changes \in [Instances -> Nat]
    /\ revision \in [Instances -> Revisions] /\ channel \in [Instances -> Nat]
    /\ written \in [Callers -> Seq(Nat)]
    /\ req \in [Callers -> Request]
    /\ held \in [Callers -> Given] /\ got \in [Callers -> Given]

\* A view at revision rev has seen the event with ID id.
Reaches(rev, id) == rev # NoRevision /\ id <= rev

\* A view with these changes holds all of its revision.
ViewOK(rev, chg) == rev # NoRevision => chg >= Complete(rev)

\* tag is the tag of an answer with that revision to that query, given on day
\* d or earlier.
IsTagOf(tag, shown, query, d) ==
    /\ shown # NoRevision
    /\ tag[1] = shown /\ tag[2] = query
    /\ query \in Varies => tag[3] <= d

\* r is a request of a caller that holds the answer h and has written the
\* events w, to a view at revision rev, on day d.
RequestOK(rev, h, w, d, r) ==
    /\ r.pc # "idle" =>
          /\ r.tags \subseteq {h.tag} \ {NoTag}
          /\ r.kind = "written" => r.wanted # NoRevision
          /\ r.wanted # NoRevision => \A k \in DOMAIN w : w[k] <= r.wanted
    /\ r.pc \notin {"tag", "answer"} => r.shown = NoRevision
    /\ r.pc # "answer" => r.tag = NoTag
    /\ r.pc = "compare" => (r.seen # NoRevision => Reaches(rev, r.seen))
    /\ r.pc \in {"returned", "revision", "tag", "answer"} =>
          (r.err = "nil" /\ r.wanted # NoRevision => Reaches(rev, r.wanted))
    /\ r.pc \in {"tag", "answer"} => (r.shown # NoRevision => Reaches(rev, r.shown))
    /\ r.pc = "tag" => (r.err = "nil" /\ r.wanted # NoRevision => Reaches(r.shown, r.wanted))
    /\ r.pc = "answer" => (r.tag # NoTag => IsTagOf(r.tag, r.shown, r.query, d))

\* h is an answer that a caller holds on day d.
HeldOK(h, d) ==
    h.tag # NoTag =>
        /\ IsTagOf(h.tag, h.shown, h.query, h.day)
        /\ h.day <= d
        /\ h.changes >= Complete(h.shown)

\* g is the answer that a caller got which holds h and has written w.
GotOK(g, h, w) ==
    /\ g.status = "ok" /\ g.shown # NoRevision => g.changes >= Complete(g.shown)
    /\ g.status = "unchanged" /\ ~g.any =>
          /\ h.query = g.query
          /\ h.changes >= Complete(g.shown)
          /\ g.query \in Varies => h.day = g.day
    /\ (g.status = "caught up" \/ g.reached # NoRevision) /\ ~g.any =>
          \A k \in DOMAIN w :
              (IF g.status = "unchanged" THEN h.changes ELSE g.changes) >= Complete(w[k])

\* The events of one command ascend.
IsAscending(w) == \A j, k \in DOMAIN w : j <= k => w[j] <= w[k]

CallerOK(c) ==
    /\ IsAscending(written[c])
    /\ RequestOK(revision[req[c].at], held[c], written[c], day, req[c])
    /\ HeldOK(held[c], day)
    /\ GotOK(got[c], held[c], written[c])

Inv ==
    /\ Typed
    /\ \A i \in Instances : ViewOK(revision[i], changes[i])
    /\ \A c \in Callers : CallerOK(c)

-----------------------------------------------------------------------------
(***************************************************************************)
(* Operators.                                                              *)
(***************************************************************************)
LEMMA CompleteGrows ==
    ASSUME NEW a \in Nat, NEW b \in Nat, a <= b
    PROVE  Complete(a) <= Complete(b) /\ Complete(a) \in Nat /\ Complete(b) \in Nat
BY RevisionsAssumption DEF Complete

\* The revision of ascending events is the last of them.
LEMMA RevisionOfAll ==
    ASSUME NEW w \in Seq(Nat), w # <<>>, IsAscending(w)
    PROVE  RevisionOf(w) \in Nat /\ \A k \in DOMAIN w : w[k] <= RevisionOf(w)
<1> DEFINE IsHighest(k) == \A j \in DOMAIN w : CompareRevisions(w[j], w[k]) <= 0
<1>1. \A j, k \in DOMAIN w : /\ w[j] \in Nat /\ w[k] \in Nat
                             /\ CompareRevisions(w[j], w[k]) = w[j] - w[k]
  BY RevisionsAssumption DEF CompareRevisions
<1>2. Len(w) \in DOMAIN w /\ \A j \in DOMAIN w : j <= Len(w)
  OBVIOUS
<1>3. IsHighest(Len(w))
  BY <1>1, <1>2 DEF IsAscending
<1>4. PICK k \in DOMAIN w : k = (CHOOSE n \in DOMAIN w : IsHighest(n)) /\ IsHighest(k)
  BY <1>2, <1>3
<1>5. RevisionOf(w) = w[k]
  BY <1>4 DEF RevisionOf
<1> QED
  BY <1>1, <1>4, <1>5

LEMMA IdleType ==
    /\ Idle \in Request /\ NoAnswer \in Given
    /\ Idle.pc = "idle" /\ Idle.shown = NoRevision /\ Idle.tag = NoTag
<1>1. (CHOOSE i \in Instances : TRUE) \in Instances /\ (CHOOSE q \in Queries : TRUE) \in Queries
  BY RevisionsAssumption
<1>2. NoRevision \in Revisions /\ NoTag \in Tags
  BY DEF Revisions, Tags
<1>3. Idle \in Request /\ Idle.query \in Queries /\ Idle.pc = "idle"
      /\ Idle.shown = NoRevision /\ Idle.tag = NoTag
  BY <1>1, <1>2 DEF Idle, Request, Phases, Errors
<1> QED
  BY <1>2, <1>3 DEF NoAnswer, Given

\* Nothing is said of a caller that asks nothing.
LEMMA IdleOK ==
    ASSUME NEW rev, NEW h, NEW w, NEW d
    PROVE  RequestOK(rev, h, w, d, Idle)
BY IdleType DEF RequestOK

LEMMA NoAnswerOK ==
    ASSUME NEW g, g.status \notin {"ok", "unchanged", "caught up"}, g.reached = NoRevision,
           NEW h, NEW w
    PROVE  GotOK(g, h, w)
BY DEF GotOK

-----------------------------------------------------------------------------
(***************************************************************************)
(* Steps of a view and of the clock: a request finds what it has found     *)
(* before, since a view only advances.                                     *)
(***************************************************************************)
LEMMA ViewAdvances ==
    ASSUME Inv, UNCHANGED <<written, req, held, got>>, Typed',
           \A i \in Instances : ViewOK(revision'[i], changes'[i]),
           \A i \in Instances : \A id \in Nat :
              Reaches(revision[i], id) => Reaches(revision'[i], id),
           day <= day'
    PROVE  Inv'
<1> SUFFICES ASSUME NEW c \in Callers PROVE CallerOK(c)'
  BY DEF Inv
<1> DEFINE r == req[c]
           h == held[c]
<1>1. /\ r \in Request /\ h \in Given /\ day \in Nat /\ day' \in Nat /\ CallerOK(c)
  BY DEF Inv, Typed
<1>2. \A id \in Revisions : id # NoRevision =>
        (Reaches(revision[r.at], id) => Reaches(revision'[r.at], id))
  BY <1>1 DEF Request, Revisions
<1>3. /\ r.wanted \in Revisions /\ r.seen \in Revisions /\ r.shown \in Revisions
      /\ r.tag \in Tags /\ h.tag \in Tags /\ h.day \in Nat
  BY <1>1 DEF Request, Given
<1>4. RequestOK(revision[r.at], h, written[c], day, r) /\ HeldOK(h, day)
  BY <1>1 DEF CallerOK
<1>5. \A t \in Tags : \A s, q : t # NoTag /\ IsTagOf(t, s, q, day) => IsTagOf(t, s, q, day')
  BY <1>1 DEF IsTagOf, Tags
<1>6. RequestOK(revision'[r.at], h, written[c], day', r)
  <2> HIDE DEF r, h
  <2> QED
    BY <1>2, <1>3, <1>4, <1>5 DEF RequestOK
<1>7. HeldOK(h, day')
  BY <1>1, <1>3, <1>4 DEF HeldOK
<1> QED
  BY <1>1, <1>6, <1>7 DEF CallerOK

LEMMA ViewSteps ==
    ASSUME Inv, NEW i \in Instances, ApplyChange(i) \/ Seen(i) \/ StartAgain(i)
    PROVE  Inv'
<1>0. /\ position[i] \in Nat /\ changes[i] \in Nat /\ revision[i] \in Revisions
      /\ channel[i] \in Nat /\ day \in Nat
      /\ revision \in [Instances -> Revisions] /\ changes \in [Instances -> Nat]
      /\ \A j \in Instances : ViewOK(revision[j], changes[j])
  BY DEF Inv, Typed
<1>1. CASE ApplyChange(i)
  <2>1. Typed'
    BY <1>0, <1>1 DEF ApplyChange, Inv, Typed
  <2>2. \A j \in Instances : ViewOK(revision'[j], changes'[j])
    <3> SUFFICES ASSUME NEW j \in Instances, revision[j] # NoRevision
                 PROVE  changes'[j] >= Complete(revision[j])
      BY <1>1 DEF ApplyChange, ViewOK
    <3>1. /\ changes[j] \in Nat /\ Complete(revision[j]) \in Nat
          /\ changes[j] >= Complete(revision[j]) /\ changes'[j] >= changes[j]
      BY <1>0, <1>1, CompleteGrows DEF ApplyChange, ViewOK, Revisions
    <3>2. changes'[j] \in Nat
      BY <2>1 DEF Typed
    <3> QED
      BY <3>1, <3>2
  <2> QED
    BY <1>0, <1>1, <2>1, <2>2, ViewAdvances DEF ApplyChange
<1>2. CASE StartAgain(i)
  <2>1. /\ position' = [position EXCEPT ![i] = 0]
        /\ UNCHANGED <<stored, day, changes, revision, channel, written, req, held, got>>
    BY <1>2 DEF StartAgain
  <2>2. Typed'
    BY <1>0, <2>1 DEF Inv, Typed
  <2> QED
    BY <1>0, <2>1, <2>2, ViewAdvances
<1>3. CASE Seen(i)
  <2>1. \/ UNCHANGED <<revision, channel>>
        \/ /\ CompareRevisions(position[i], revision[i]) > 0
           /\ revision' = [revision EXCEPT ![i] = position[i]]
           /\ channel' = [channel EXCEPT ![i] = @ + 1]
    <3>1. CompareRevisions(position[i], revision[i]) \in Int
      BY <1>0, RevisionsAssumption DEF CompareRevisions, Revisions
    <3> QED
      BY <1>3, <3>1 DEF Seen, SeenBy
  <2>2. revision' \in [Instances -> Revisions] /\ channel' \in [Instances -> Nat]
    <3>1. channel \in [Instances -> Nat] /\ channel[i] + 1 \in Nat /\ position[i] \in Revisions
      BY <1>0 DEF Inv, Typed, Revisions
    <3> QED
      BY <1>0, <2>1, <3>1
  <2>3. Typed'
    <3>1. /\ position' = [position EXCEPT ![i] = @ + 1] /\ position[i] + 1 \in Nat
          /\ UNCHANGED <<stored, day, changes, written, req, held, got>>
      BY <1>0, <1>3 DEF Seen
    <3>2. position' \in [Instances -> Nat]
      BY <3>1 DEF Inv, Typed
    <3> QED
      BY <2>2, <3>1, <3>2 DEF Inv, Typed
  <2>4. \A j \in Instances : ViewOK(revision'[j], changes'[j])
    BY <1>0, <1>3, <2>1 DEF Seen, ViewOK
  <2>5. ASSUME NEW j \in Instances, NEW id \in Nat, Reaches(revision[j], id)
        PROVE  Reaches(revision'[j], id)
    <3>1. CASE j # i \/ UNCHANGED revision
      BY <1>0, <2>1, <2>5, <3>1
    <3>2. CASE j = i /\ ~UNCHANGED revision
      <4>1. /\ revision[i] \in Nat /\ revision'[i] = position[i]
            /\ CompareRevisions(position[i], revision[i]) > 0
        BY <1>0, <2>1, <2>5, <3>2 DEF Reaches, Revisions
      <4>2. position[i] > revision[i]
        BY <1>0, <4>1, RevisionsAssumption DEF CompareRevisions
      <4> QED
        BY <1>0, <2>5, <3>2, <4>1, <4>2, RevisionsAssumption DEF Reaches
    <3> QED
      BY <3>1, <3>2
  <2> QED
    BY <1>0, <1>3, <2>3, <2>4, <2>5, ViewAdvances DEF Seen
<1> QED
  BY <1>1, <1>2, <1>3

LEMMA NextDayStep ==
    ASSUME Inv, NextDay
    PROVE  Inv'
<1>1. Typed' /\ day <= day'
  BY DEF Inv, Typed, NextDay, view
<1>2. UNCHANGED <<written, req, held, got, revision, changes>>
  BY DEF NextDay, view
<1> QED
  BY <1>1, <1>2, ViewAdvances DEF Inv

LEMMA RestartStep ==
    ASSUME Inv, NEW i \in Instances, Restart(i)
    PROVE  Inv'
<1>1. Typed'
  <2>1. req' \in [Callers -> Request] /\ got' \in [Callers -> Given]
    BY IdleType DEF Restart, Inv, Typed
  <2>2. /\ position' \in [Instances -> Nat] /\ changes' \in [Instances -> Nat]
        /\ revision' \in [Instances -> Revisions] /\ channel' \in [Instances -> Nat]
    BY DEF Restart, Inv, Typed, Revisions
  <2> QED
    BY <2>1, <2>2 DEF Restart, Inv, Typed
<1>2. ASSUME NEW j \in Instances PROVE ViewOK(revision'[j], changes'[j])
  BY DEF Restart, Inv, Typed, ViewOK
<1>3. ASSUME NEW c \in Callers PROVE CallerOK(c)'
  <2>0. CallerOK(c) /\ UNCHANGED <<written, held, day>>
    BY DEF Inv, Restart
  <2>1. RequestOK(revision'[req'[c].at], held[c], written[c], day, req'[c])
    <3>1. CASE req[c].at = i
      <4>1. req'[c] = Idle
        BY <3>1 DEF Restart
      <4> QED
        BY <4>1, IdleOK
    <3>2. CASE req[c].at # i
      <4>1. req'[c] = req[c] /\ revision'[req[c].at] = revision[req[c].at]
        BY <3>2 DEF Restart, Inv, Typed, Request
      <4> QED
        BY <2>0, <4>1 DEF CallerOK
    <3> QED
      BY <3>1, <3>2
  <2>2. GotOK(got'[c], held[c], written[c])
    <3>1. GotOK(NoAnswer, held[c], written[c])
      BY NoAnswerOK DEF NoAnswer
    <3>2. got'[c] = NoAnswer \/ got'[c] = got[c]
      BY DEF Restart
    <3> QED
      BY <2>0, <3>1, <3>2 DEF CallerOK
  <2> QED
    BY <2>0, <2>1, <2>2 DEF CallerOK
<1> QED
  BY <1>1, <1>2, <1>3 DEF Inv

-----------------------------------------------------------------------------
(***************************************************************************)
(* Steps of a caller, which change what belongs to it, and not the views.  *)
(***************************************************************************)
LEMMA CallerStep ==
    ASSUME Inv, NEW c \in Callers, NEW r \in Request, NEW h \in Given, NEW g \in Given,
           req' = [req EXCEPT ![c] = r], held' = [held EXCEPT ![c] = h],
           got' = [got EXCEPT ![c] = g], UNCHANGED <<view, stored, day, written>>,
           RequestOK(revision[r.at], h, written[c], day, r), HeldOK(h, day),
           GotOK(g, h, written[c])
    PROVE  Inv'
<1>1. UNCHANGED <<position, changes, revision, channel, stored, day, written>>
  BY DEF view
<1>2. Typed'
  BY <1>1 DEF Inv, Typed
<1>3. ASSUME NEW b \in Callers PROVE CallerOK(b)'
  <2>0. CallerOK(b) /\ CallerOK(c)
    BY DEF Inv
  <2>1. CASE b = c
    BY <1>1, <2>0, <2>1 DEF CallerOK, Inv, Typed
  <2>2. CASE b # c
    BY <1>1, <2>0, <2>2 DEF CallerOK, Inv, Typed
  <2> QED
    BY <2>1, <2>2
<1> QED
  BY <1>1, <1>2, <1>3 DEF Inv

LEMMA ContinueStep ==
    ASSUME Inv, NEW c \in Callers, NEW r \in Request, Continue(c, r),
           RequestOK(revision[r.at], held[c], written[c], day, r)
    PROVE  Inv'
<1>1. /\ held[c] \in Given /\ got[c] \in Given /\ HeldOK(held[c], day)
      /\ GotOK(got[c], held[c], written[c])
      /\ held' = [held EXCEPT ![c] = held[c]] /\ got' = [got EXCEPT ![c] = got[c]]
      /\ req' = [req EXCEPT ![c] = r] /\ UNCHANGED <<view, stored, day, written>>
  BY DEF Continue, Inv, Typed, CallerOK
<1> QED
  BY <1>1, CallerStep

\* A request begins, or a caller gets an answer without one.
LEMMA BeginStep ==
    ASSUME Inv, NEW c \in Callers, NEW r \in Request, NEW g \in Given,
           req' = [req EXCEPT ![c] = r], got' = [got EXCEPT ![c] = g],
           UNCHANGED <<view, stored, day, written, held>>,
           RequestOK(revision[r.at], held[c], written[c], day, r),
           GotOK(g, held[c], written[c])
    PROVE  Inv'
<1>1. /\ held[c] \in Given /\ HeldOK(held[c], day) /\ held' = [held EXCEPT ![c] = held[c]]
      /\ UNCHANGED <<view, stored, day, written>>
  BY DEF Inv, Typed, CallerOK
<1> QED
  BY <1>1, CallerStep

LEMMA AnsweredStep ==
    ASSUME Inv, NEW c \in Callers, NEW a \in Given, Answered(c, a),
           a.status = "ok" => HeldOK(a, day),
           GotOK(a, IF a.status = "ok" /\ a.tag # NoTag THEN a ELSE held[c], written[c])
    PROVE  Inv'
<1> DEFINE h == IF a.status = "ok" /\ a.tag # NoTag THEN a ELSE held[c]
<1>1. /\ req' = [req EXCEPT ![c] = Idle] /\ held' = [held EXCEPT ![c] = h]
      /\ got' = [got EXCEPT ![c] = a] /\ UNCHANGED <<view, stored, day, written>>
  BY DEF Answered
<1>2. h \in Given /\ HeldOK(h, day)
  BY DEF Inv, Typed, CallerOK
<1>3. GotOK(a, h, written[c])
  OBVIOUS
<1>4. RequestOK(revision[Idle.at], h, written[c], day, Idle)
  BY IdleOK
<1> HIDE DEF h
<1> QED
  BY <1>1, <1>2, <1>3, <1>4, IdleType, CallerStep

LEMMA CommandStep ==
    ASSUME Inv, NEW c \in Callers, Command(c)
    PROVE  Inv'
<1>1. PICK n \in 0..2 :
        /\ req[c].pc = "idle"
        /\ stored' = stored + n
        /\ written' = [written EXCEPT ![c] = [k \in 1..n |-> stored + k - 1]]
        /\ got' = [got EXCEPT ![c] = NoAnswer]
        /\ UNCHANGED <<position, changes, revision, channel, day, req, held>>
  BY DEF Command, view
<1> DEFINE w == [k \in 1..n |-> stored + k - 1]
<1>2. w \in Seq(Nat) /\ IsAscending(w) /\ stored' \in Nat
  <2>1. stored \in Nat /\ n \in Nat
    BY DEF Inv, Typed
  <2>2. \A k \in 1..n : stored + k - 1 \in Nat
    BY <2>1
  <2> QED
    BY <1>1, <2>1, <2>2 DEF IsAscending
<1> HIDE DEF w
<1>3. written' = [written EXCEPT ![c] = w]
  BY <1>1 DEF w
<1>4. Typed'
  BY <1>1, <1>2, <1>3, IdleType DEF Inv, Typed
<1>5. ASSUME NEW b \in Callers PROVE CallerOK(b)'
  <2>0. CallerOK(b) /\ CallerOK(c)
    BY DEF Inv
  <2>1. CASE b # c
    BY <1>1, <1>3, <2>0, <2>1 DEF CallerOK, Inv, Typed
  <2>2. CASE b = c
    <3>1. RequestOK(revision[req[c].at], held[c], w, day, req[c])
      BY <1>1, <2>0 DEF CallerOK, RequestOK
    <3>2. GotOK(NoAnswer, held[c], w)
      BY NoAnswerOK DEF NoAnswer
    <3> QED
      BY <1>1, <1>2, <1>3, <2>0, <2>2, <3>1, <3>2 DEF CallerOK, Inv, Typed
  <2> QED
    BY <2>1, <2>2
<1> QED
  BY <1>1, <1>4, <1>5 DEF Inv

\* The steps of a wait.
LEMMA WaitSteps ==
    ASSUME Inv, NEW c \in Callers,
           Look(c) \/ Compare(c) \/ Wake(c) \/ EndWait(c) \/ ViewFails(c)
           \/ TimeRunsOut(c) \/ EndContext(c)
    PROVE  Inv'
<1> DEFINE o == req[c]
           rev == revision[o.at]
<1>0. /\ o \in Request /\ rev \in Revisions /\ channel[o.at] \in Nat
      /\ RequestOK(rev, held[c], written[c], day, o)
  BY DEF Inv, Typed, CallerOK, Request
<1>1. CASE Look(c)
  <2> DEFINE r == [o EXCEPT !.pc = "compare", !.seen = rev, !.channel = channel[o.at]]
  <2>1. /\ r \in Request /\ r.pc = "compare" /\ r.seen = rev /\ r.at = o.at
        /\ r.tags = o.tags /\ r.kind = o.kind /\ r.wanted = o.wanted
        /\ r.shown = o.shown /\ r.tag = o.tag
    BY <1>0 DEF Request, Phases
  <2>2. Reaches(rev, rev) \/ rev = NoRevision
    BY <1>0 DEF Reaches, Revisions
  <2>3. Continue(c, r) /\ o.pc = "look"
    BY <1>1 DEF Look
  <2> HIDE DEF r, o, rev
  <2>4. RequestOK(rev, held[c], written[c], day, r)
    BY <1>0, <2>1, <2>2, <2>3 DEF RequestOK
  <2> QED
    BY <2>1, <2>3, <2>4, ContinueStep DEF o, rev
<1>2. CASE Compare(c)
  <2>1. PICK phase \in {"returned", "select"} :
          /\ o.pc = "compare"
          /\ phase = "returned" => CompareRevisions(o.seen, o.wanted) >= 0
          /\ \/ Continue(c, [o EXCEPT !.pc = phase, !.err = "nil"]) /\ phase = "returned"
             \/ Continue(c, [o EXCEPT !.pc = phase]) /\ phase = "select"
    BY <1>2 DEF Compare
  <2>2. CASE phase = "returned"
    <3> DEFINE r == [o EXCEPT !.pc = "returned", !.err = "nil"]
    <3>1. /\ r \in Request /\ r.pc = "returned" /\ r.at = o.at
          /\ r.tags = o.tags /\ r.kind = o.kind /\ r.wanted = o.wanted
          /\ r.shown = o.shown /\ r.tag = o.tag
      BY <1>0 DEF Request, Phases, Errors
    <3>2. Continue(c, r)
      BY <2>1, <2>2
    <3>3. o.wanted # NoRevision => Reaches(rev, o.wanted)
      <4>1. o.seen \in Revisions /\ o.wanted \in Revisions
            /\ (o.seen # NoRevision => Reaches(rev, o.seen))
        BY <1>0, <2>1 DEF Request, RequestOK
      <4>2. o.wanted # NoRevision => o.seen # NoRevision /\ o.wanted <= o.seen
        BY <2>1, <2>2, <4>1 DEF CompareRevisions, Revisions
      <4> QED
        BY <1>0, <4>1, <4>2 DEF Reaches, Revisions
    <3> HIDE DEF r, o, rev
    <3>4. RequestOK(rev, held[c], written[c], day, r)
      BY <1>0, <2>1, <3>1, <3>3 DEF RequestOK
    <3> QED
      BY <3>1, <3>2, <3>4, ContinueStep DEF o, rev
  <2>3. CASE phase = "select"
    <3> DEFINE r == [o EXCEPT !.pc = "select"]
    <3>1. /\ r \in Request /\ r.pc = "select" /\ r.at = o.at
          /\ r.tags = o.tags /\ r.kind = o.kind /\ r.wanted = o.wanted
          /\ r.shown = o.shown /\ r.tag = o.tag
      BY <1>0 DEF Request, Phases
    <3>2. Continue(c, r)
      BY <2>1, <2>3
    <3> HIDE DEF r, o, rev
    <3>4. RequestOK(rev, held[c], written[c], day, r)
      BY <1>0, <2>1, <3>1 DEF RequestOK
    <3> QED
      BY <3>1, <3>2, <3>4, ContinueStep DEF o, rev
  <2> QED
    BY <2>2, <2>3
<1>3. CASE Wake(c)
  <2> DEFINE r == [o EXCEPT !.pc = "look"]
  <2>1. /\ r \in Request /\ r.pc = "look" /\ r.at = o.at
        /\ r.tags = o.tags /\ r.kind = o.kind /\ r.wanted = o.wanted
        /\ r.shown = o.shown /\ r.tag = o.tag
    BY <1>0 DEF Request, Phases
  <2>2. Continue(c, r) /\ o.pc = "select"
    BY <1>3 DEF Wake
  <2> HIDE DEF r, o, rev
  <2>3. RequestOK(rev, held[c], written[c], day, r)
    BY <1>0, <2>1, <2>2 DEF RequestOK
  <2> QED
    BY <2>1, <2>2, <2>3, ContinueStep DEF o, rev
<1>4. ASSUME EndWait(c) \/ ViewFails(c)
      PROVE  Inv'
  <2>1. PICK err \in Errors : /\ o.pc \in {"look", "select"} /\ err # "nil"
                              /\ Continue(c, [o EXCEPT !.pc = "returned", !.err = err])
    BY <1>0, <1>4 DEF EndWait, ViewFails, Request, Errors
  <2> DEFINE r == [o EXCEPT !.pc = "returned", !.err = err]
  <2>2. /\ r \in Request /\ r.pc = "returned" /\ r.at = o.at /\ r.err = err
        /\ r.tags = o.tags /\ r.kind = o.kind /\ r.wanted = o.wanted
        /\ r.shown = o.shown /\ r.tag = o.tag
    BY <1>0 DEF Request, Phases
  <2>3. Continue(c, r)
    BY <2>1
  <2> HIDE DEF r, o, rev
  <2>4. RequestOK(rev, held[c], written[c], day, r)
    BY <1>0, <2>1, <2>2 DEF RequestOK
  <2> QED
    BY <2>2, <2>3, <2>4, ContinueStep DEF o, rev
<1>5. ASSUME TimeRunsOut(c) \/ EndContext(c)
      PROVE  Inv'
  <2>1. PICK ended \in Errors, waiting \in Errors :
          Continue(c, [o EXCEPT !.ctx = ended, !.waiting = waiting])
    <3>1. o.ctx \in Errors /\ o.waiting \in Errors
          /\ o = [o EXCEPT !.ctx = o.ctx]
      BY <1>0 DEF Request
    <3>2. CASE TimeRunsOut(c)
      BY <3>1, <3>2 DEF TimeRunsOut, Errors
    <3>3. CASE EndContext(c)
      BY <3>1, <3>3 DEF EndContext, Errors
    <3> QED
      BY <1>5, <3>2, <3>3
  <2> DEFINE r == [o EXCEPT !.ctx = ended, !.waiting = waiting]
  <2>2. /\ r \in Request /\ r.pc = o.pc /\ r.at = o.at /\ r.err = o.err /\ r.seen = o.seen
        /\ r.tags = o.tags /\ r.kind = o.kind /\ r.wanted = o.wanted /\ r.shown = o.shown
        /\ r.tag = o.tag /\ r.query = o.query
    BY <1>0 DEF Request
  <2> HIDE DEF r, o, rev
  <2>3. RequestOK(rev, held[c], written[c], day, r)
    BY <1>0, <2>2 DEF RequestOK
  <2> QED
    BY <2>1, <2>2, <2>3, ContinueStep DEF o, rev, r
<1> QED
  BY <1>1, <1>2, <1>3, <1>4, <1>5

\* A view holds all changes of an event it has seen, and of those before.
LEMMA SeenIsHeld ==
    ASSUME NEW rev \in Revisions, NEW chg \in Nat, ViewOK(rev, chg),
           NEW id \in Nat, Reaches(rev, id)
    PROVE  \A k \in Nat : k <= id => chg >= Complete(k)
<1>1. rev \in Nat /\ id <= rev /\ chg >= Complete(rev)
  BY DEF Reaches, Revisions, ViewOK
<1> SUFFICES ASSUME NEW k \in Nat, k <= id PROVE chg >= Complete(k)
  OBVIOUS
<1>2. k <= rev
  BY <1>1
<1>3. Complete(k) <= Complete(rev) /\ Complete(k) \in Nat /\ Complete(rev) \in Nat
  BY <1>1, <1>2, CompleteGrows
<1> QED
  BY <1>1, <1>3

LEMMA StartSteps ==
    ASSUME Inv, NEW c \in Callers, NEW i \in Instances, NEW q \in Queries,
           WaitForWritten(c, i) \/ Query(c, i, q) \/ QueryRefused(c, i, q)
    PROVE  Inv'
<1>0. /\ written[c] \in Seq(Nat) /\ IsAscending(written[c]) /\ req[c] \in Request
      /\ held[c] \in Given /\ held[c].tag \in Tags
      /\ RequestOK(revision[req[c].at], held[c], written[c], day, req[c])
      /\ req = [req EXCEPT ![c] = req[c]]
  BY DEF Inv, Typed, CallerOK, Given
<1>1. /\ NoAnswer \in Given /\ GotOK(NoAnswer, held[c], written[c])
      /\ Idle \in Request /\ Idle.tags = {} /\ Idle.kind = "written"
      /\ Idle.wanted = NoRevision /\ Idle.shown = NoRevision /\ Idle.tag = NoTag
  BY IdleType, NoAnswerOK DEF NoAnswer, Idle
<1>2. ASSUME NEW r \in Request, Begin(c, r),
             RequestOK(revision[r.at], held[c], written[c], day, r)
      PROVE  Inv'
  BY <1>1, <1>2, BeginStep DEF Begin
<1>3. ASSUME NEW g \in Given, GotOK(g, held[c], written[c]), got' = [got EXCEPT ![c] = g],
             UNCHANGED <<view, stored, day, written, held, req>>
      PROVE  Inv'
  <2>1. req' = [req EXCEPT ![c] = req[c]] /\ UNCHANGED <<view, stored, day, written, held>>
    BY <1>0, <1>3
  <2> QED
    BY <1>0, <1>3, <2>1, BeginStep
<1>4. written[c] # <<>> =>
        /\ RevisionOf(written[c]) \in Nat
        /\ \A k \in DOMAIN written[c] : written[c][k] <= RevisionOf(written[c])
  BY <1>0, RevisionOfAll
<1>5. CASE WaitForWritten(c, i)
  <2>1. CASE written[c] = <<>>
    <3> DEFINE g == [NoAnswer EXCEPT !.status = "caught up"]
    <3>1. g \in Given /\ g.status = "caught up" /\ g.shown = NoRevision
      BY <1>1 DEF Given, NoAnswer
    <3>2. /\ got' = [got EXCEPT ![c] = g]
          /\ UNCHANGED <<view, stored, day, written, held, req>>
      BY <1>5, <2>1 DEF WaitForWritten
    <3> HIDE DEF g
    <3>3. GotOK(g, held[c], written[c])
      <4>1. DOMAIN written[c] = {}
        BY <2>1
      <4> QED
        BY <3>1, <4>1, Zenon DEF GotOK
    <3> QED
      BY <1>3, <3>1, <3>2, <3>3
  <2>2. CASE written[c] # <<>>
    <3> DEFINE wanted == RevisionOf(written[c])
               r == [Idle EXCEPT !.pc = "look", !.at = i, !.wanted = wanted]
    <3>1. wanted \in Revisions /\ wanted # NoRevision
      BY <1>4, <2>2, RevisionsAssumption DEF Revisions
    <3>2. Begin(c, r)
      BY <1>5, <2>2 DEF WaitForWritten
    <3>3. \A k \in DOMAIN written[c] : written[c][k] <= wanted
      BY <1>4, <2>2
    <3> HIDE DEF wanted
    <3>4. /\ r \in Request /\ r.pc = "look" /\ r.wanted = wanted /\ r.tags = {}
          /\ r.shown = NoRevision /\ r.tag = NoTag
      BY <1>1, <3>1 DEF Request, Phases
    <3> HIDE DEF r
    <3>5. RequestOK(revision[r.at], held[c], written[c], day, r)
      BY <3>1, <3>3, <3>4 DEF RequestOK
    <3> QED
      BY <1>2, <3>2, <3>4, <3>5
  <2> QED
    BY <2>1, <2>2
<1>6. CASE Query(c, i, q)
  <2>1. PICK tags \in {{}, {held[c].tag} \ {NoTag}}, any \in BOOLEAN :
          LET request == [Idle EXCEPT !.kind = "query", !.at = i, !.query = q,
                                      !.tags = tags, !.any = any]
          IN  \/ Begin(c, [request EXCEPT !.pc = AfterWait(q)])
              \/ /\ written[c] # <<>>
                 /\ Begin(c, [request EXCEPT !.pc = "look",
                                             !.wanted = RevisionOf(written[c])])
    BY <1>6 DEF Query
  <2> DEFINE request == [Idle EXCEPT !.kind = "query", !.at = i, !.query = q,
                                     !.tags = tags, !.any = any]
  <2>2. tags \in SUBSET Tags /\ tags \subseteq {held[c].tag} \ {NoTag}
    BY <1>0
  <2>3. /\ request \in Request /\ request.kind = "query" /\ request.tags = tags
        /\ request.wanted = NoRevision /\ request.shown = NoRevision /\ request.tag = NoTag
    BY <1>1, <2>2 DEF Request
  <2>4. \/ Begin(c, [request EXCEPT !.pc = AfterWait(q)])
        \/ /\ written[c] # <<>>
           /\ Begin(c, [request EXCEPT !.pc = "look", !.wanted = RevisionOf(written[c])])
    BY <2>1
  <2> HIDE DEF request
  <2>5. CASE Begin(c, [request EXCEPT !.pc = AfterWait(q)])
    <3> DEFINE r == [request EXCEPT !.pc = AfterWait(q)]
    <3>1. AfterWait(q) \in {"revision", "answer"}
      BY DEF AfterWait
    <3>2. /\ r \in Request /\ r.pc \in {"revision", "answer"} /\ r.kind = "query"
          /\ r.tags = tags /\ r.wanted = NoRevision /\ r.shown = NoRevision /\ r.tag = NoTag
      BY <2>3, <3>1 DEF Request, Phases
    <3> HIDE DEF r
    <3>3. RequestOK(revision[r.at], held[c], written[c], day, r)
      BY <2>2, <3>2 DEF RequestOK
    <3> QED
      BY <1>2, <2>5, <3>2, <3>3 DEF r
  <2>6. CASE written[c] # <<>>
             /\ Begin(c, [request EXCEPT !.pc = "look", !.wanted = RevisionOf(written[c])])
    <3> DEFINE wanted == RevisionOf(written[c])
               r == [request EXCEPT !.pc = "look", !.wanted = wanted]
    <3>1. wanted \in Revisions /\ \A k \in DOMAIN written[c] : written[c][k] <= wanted
      BY <1>4, <2>6 DEF Revisions
    <3>2. Begin(c, r)
      BY <2>6
    <3> HIDE DEF wanted
    <3>3. /\ r \in Request /\ r.pc = "look" /\ r.kind = "query" /\ r.tags = tags
          /\ r.wanted = wanted /\ r.shown = NoRevision /\ r.tag = NoTag
      BY <2>3, <3>1 DEF Request, Phases
    <3> HIDE DEF r
    <3>4. RequestOK(revision[r.at], held[c], written[c], day, r)
      BY <2>2, <3>1, <3>3 DEF RequestOK
    <3> QED
      BY <1>2, <3>2, <3>3, <3>4
  <2> QED
    BY <2>4, <2>5, <2>6
<1>7. CASE QueryRefused(c, i, q)
  <2> DEFINE g == [NoAnswer EXCEPT !.status = "failed", !.query = q]
  <2>1. g \in Given /\ g.status = "failed" /\ g.reached = NoRevision
    BY <1>1 DEF Given, NoAnswer
  <2>2. /\ got' = [got EXCEPT ![c] = g]
        /\ UNCHANGED <<view, stored, day, written, held, req>>
    BY <1>7 DEF QueryRefused
  <2> HIDE DEF g
  <2> QED
    BY <1>3, <2>1, <2>2, NoAnswerOK
<1> QED
  BY <1>5, <1>6, <1>7

LEMMA FailedStep ==
    ASSUME Inv, NEW c \in Callers, Failed(c)
    PROVE  Inv'
<1> DEFINE g == [NoAnswer EXCEPT !.status = "failed", !.query = req[c].query]
<1>1. req[c].query \in Queries
  BY DEF Inv, Typed, Request
<1>2. g \in Given /\ g.status = "failed" /\ g.reached = NoRevision
  BY <1>1, IdleType DEF Given, NoAnswer
<1>3. Answered(c, g)
  BY DEF Failed
<1> HIDE DEF g
<1>4. GotOK(g, held[c], written[c])
  BY <1>2, NoAnswerOK
<1> QED
  BY <1>2, <1>3, <1>4, AnsweredStep

\* What a request has waited for, the view holds, and with it all events that
\* the caller has written.
LEMMA ReachedIsHeld ==
    ASSUME Inv, NEW c \in Callers,
           req[c].pc \in {"returned", "revision", "tag", "answer"},
           Reached(req[c]) # NoRevision
    PROVE  \A k \in DOMAIN written[c] : changes[req[c].at] >= Complete(written[c][k])
<1> DEFINE o == req[c]
           i == o.at
           w == written[c]
<1>1. /\ o \in Request /\ i \in Instances /\ o.wanted \in Revisions
      /\ revision[i] \in Revisions /\ changes[i] \in Nat /\ w \in Seq(Nat)
      /\ ViewOK(revision[i], changes[i]) /\ RequestOK(revision[i], held[c], w, day, o)
  BY DEF Inv, Typed, Request, CallerOK
<1>2. o.err = "nil" /\ o.wanted # NoRevision /\ o.wanted \in Nat
  BY <1>1 DEF Reached, Revisions
<1>3. Reaches(revision[i], o.wanted) /\ \A k \in DOMAIN w : w[k] <= o.wanted
  BY <1>1, <1>2 DEF RequestOK
<1>4. \A n \in Nat : n <= o.wanted => changes[i] >= Complete(n)
  BY <1>1, <1>2, <1>3, SeenIsHeld
<1> QED
  BY <1>1, <1>3, <1>4

LEMMA ReturnStep ==
    ASSUME Inv, NEW c \in Callers, WaitForWrittenReturns(c)
    PROVE  Inv'
<1> DEFINE g == [NoAnswer EXCEPT !.status = Verdict(req[c]), !.changes = changes[req[c].at],
                                 !.reached = Reached(req[c])]
<1>0. /\ req[c] \in Request /\ changes[req[c].at] \in Nat
      /\ RequestOK(revision[req[c].at], held[c], written[c], day, req[c])
      /\ req[c].pc = "returned" /\ req[c].kind = "written"
  BY DEF Inv, Typed, Request, CallerOK, WaitForWrittenReturns
<1>1. /\ Verdict(req[c]) \in {"caught up", "ended", "timeout", "failed"}
      /\ Reached(req[c]) \in Revisions
      /\ Verdict(req[c]) = "caught up" => Reached(req[c]) # NoRevision
  <2>1. req[c].wanted \in Revisions /\ req[c].wanted # NoRevision
    BY <1>0 DEF Request, RequestOK
  <2>2. Verdict(req[c]) \in {"caught up", "ended", "timeout", "failed"}
    BY DEF Verdict
  <2>3. Verdict(req[c]) = "caught up" => req[c].err = "nil"
    BY DEF Verdict
  <2> QED
    BY <2>1, <2>2, <2>3 DEF Reached, Revisions
<1>2. /\ g \in Given /\ g.status = Verdict(req[c]) /\ g.changes = changes[req[c].at]
      /\ g.reached = Reached(req[c])
  <2> DEFINE v == Verdict(req[c])
             m == changes[req[c].at]
             n == Reached(req[c])
  <2>1. v \in {"caught up", "ended", "timeout", "failed"} /\ m \in Nat /\ n \in Revisions
    BY <1>0, <1>1
  <2>2. g = [NoAnswer EXCEPT !.status = v, !.changes = m, !.reached = n]
    OBVIOUS
  <2> HIDE DEF v, m, n, g
  <2>3. /\ g \in Given /\ g.status = v /\ g.changes = m /\ g.reached = n
    BY <2>1, <2>2, IdleType DEF Given
  <2> QED
    BY <2>3 DEF v, m, n
<1>3. Answered(c, g)
  BY DEF WaitForWrittenReturns
<1> HIDE DEF g
<1>4. g.reached # NoRevision => \A k \in DOMAIN written[c] : g.changes >= Complete(written[c][k])
  BY <1>0, <1>2, ReachedIsHeld
<1>5. GotOK(g, held[c], written[c])
  BY <1>1, <1>2, <1>4 DEF GotOK
<1> QED
  BY <1>1, <1>2, <1>3, <1>5, AnsweredStep

LEMMA AwaitedStep ==
    ASSUME Inv, NEW c \in Callers, Awaited(c)
    PROVE  Inv'
<1>1. CASE Failed(c)
  BY <1>1, FailedStep
<1>2. CASE Continue(c, [req[c] EXCEPT !.pc = AfterWait(req[c].query)])
  <2> DEFINE o == req[c]
             rev == revision[o.at]
             phase == AfterWait(o.query)
             r == [o EXCEPT !.pc = phase]
  <2>0. o \in Request /\ o.pc = "returned" /\ o.kind = "query"
        /\ RequestOK(rev, held[c], written[c], day, o)
    BY DEF Inv, Typed, CallerOK, Awaited
  <2>1. phase \in {"revision", "answer"}
    BY DEF AfterWait
  <2>2. Continue(c, r)
    BY <1>2
  <2> HIDE DEF phase
  <2>3. /\ r \in Request /\ r.pc = phase /\ r.at = o.at /\ r.err = o.err
        /\ r.tags = o.tags /\ r.kind = o.kind /\ r.wanted = o.wanted
        /\ r.shown = o.shown /\ r.tag = o.tag
    BY <2>0, <2>1 DEF Request, Phases
  <2> HIDE DEF r, o, rev
  <2>4. RequestOK(rev, held[c], written[c], day, r)
    BY <2>0, <2>1, <2>3 DEF RequestOK
  <2> QED
    BY <2>2, <2>3, <2>4, ContinueStep DEF o, rev
<1> QED
  BY <1>1, <1>2 DEF Awaited

LEMMA ReadRevisionStep ==
    ASSUME Inv, NEW c \in Callers, ReadRevision(c)
    PROVE  Inv'
<1>1. CASE Failed(c)
  BY <1>1, FailedStep
<1>2. CASE Continue(c, [req[c] EXCEPT !.pc = "tag", !.shown = revision[req[c].at]])
  <2> DEFINE o == req[c]
             rev == revision[o.at]
             r == [o EXCEPT !.pc = "tag", !.shown = rev]
  <2>0. /\ o \in Request /\ o.pc = "revision" /\ rev \in Revisions
        /\ RequestOK(rev, held[c], written[c], day, o)
    BY DEF Inv, Typed, CallerOK, ReadRevision, Request
  <2>1. Continue(c, r)
    BY <1>2
  <2>2. Reaches(rev, rev) \/ rev = NoRevision
    BY <2>0 DEF Reaches, Revisions
  <2> HIDE DEF rev
  <2>3. /\ r \in Request /\ r.pc = "tag" /\ r.at = o.at /\ r.err = o.err
        /\ r.tags = o.tags /\ r.kind = o.kind /\ r.wanted = o.wanted
        /\ r.shown = rev /\ r.tag = o.tag
    BY <2>0 DEF Request, Phases
  <2> HIDE DEF r, o
  <2>4. RequestOK(rev, held[c], written[c], day, r)
    BY <2>0, <2>2, <2>3 DEF RequestOK
  <2> QED
    BY <2>1, <2>3, <2>4, ContinueStep DEF o, rev
<1> QED
  BY <1>1, <1>2 DEF ReadRevision

\* A tag that is not NoTag names the revision, the query and, if it matters,
\* the day.
LEMMA TagOf ==
    ASSUME NEW shown \in Revisions, NEW query \in Queries, day \in Nat
    PROVE  LET tag == etagOf(shown, query)
           IN  /\ tag \in Tags
               /\ tag # NoTag => /\ IsTagOf(tag, shown, query, day)
                                 /\ query \in Varies => tag[3] = day
BY DEF etagOf, IsTagOf, Tags, Revisions

LEMMA TagStep ==
    ASSUME Inv, NEW c \in Callers, Tag(c)
    PROVE  Inv'
<1> DEFINE o == req[c]
           rev == revision[o.at]
           h == held[c]
           w == written[c]
           tag == etagOf(o.shown, o.query)
<1>0. /\ o \in Request /\ o.pc = "tag" /\ h \in Given /\ day \in Nat /\ w \in Seq(Nat)
      /\ RequestOK(rev, h, w, day, o) /\ HeldOK(h, day)
  BY DEF Inv, Typed, CallerOK, Tag
<1>1. /\ o.shown \in Revisions /\ o.query \in Queries /\ o.tags \subseteq {h.tag} \ {NoTag}
      /\ o.any \in BOOLEAN /\ h.tag \in Tags /\ h.changes \in Nat /\ h.day \in Nat
      /\ Reached(o) \in Revisions
  BY <1>0 DEF Request, Given, RequestOK, Reached, Revisions
<1>2. /\ tag \in Tags
      /\ tag # NoTag => /\ IsTagOf(tag, o.shown, o.query, day)
                        /\ o.query \in Varies => tag[3] = day
  BY <1>0, <1>1, TagOf
<1>3. CASE tag # NoTag /\ holdsTag(o, tag)
  <2> DEFINE g == [NoAnswer EXCEPT !.status = "unchanged", !.query = o.query,
                                   !.shown = o.shown, !.tag = tag, !.day = day,
                                   !.any = o.any, !.reached = Reached(o)]
  <2>1. Answered(c, g)
    BY <1>3 DEF Tag
  <2>2. /\ g \in Given /\ g.status = "unchanged" /\ g.query = o.query /\ g.shown = o.shown
        /\ g.day = day /\ g.any = o.any /\ g.reached = Reached(o)
    <3> DEFINE n == Reached(o)
    <3>1. n \in Revisions
      BY <1>1
    <3> HIDE DEF tag, n, o
    <3> QED
      BY <1>0, <1>1, <1>2, <3>1, IdleType DEF Given, n
  <2>3. ASSUME ~o.any
        PROVE  /\ h.query = o.query /\ h.shown = o.shown /\ o.shown # NoRevision
               /\ h.changes >= Complete(o.shown)
               /\ o.query \in Varies => h.day = day
    <3>1. h.tag = tag
      BY <1>1, <1>3, <2>3 DEF holdsTag
    <3> HIDE DEF tag, o, h
    <3>2. /\ IsTagOf(tag, o.shown, o.query, day) /\ (o.query \in Varies => tag[3] = day)
          /\ IsTagOf(tag, h.shown, h.query, h.day)
          /\ h.day <= day /\ h.changes >= Complete(h.shown)
      BY <1>0, <1>2, <1>3, <3>1 DEF HeldOK
    <3>3. h.shown = o.shown /\ h.query = o.query /\ o.shown # NoRevision
      BY <3>2 DEF IsTagOf
    <3>4. o.query \in Varies => tag[3] = day /\ tag[3] <= h.day
      BY <3>2, <3>3 DEF IsTagOf
    <3> QED
      BY <1>0, <1>1, <3>2, <3>3, <3>4
  <2>4. ASSUME ~o.any, Reached(o) # NoRevision
        PROVE  \A k \in DOMAIN w : h.changes >= Complete(w[k])
    <3> SUFFICES ASSUME NEW k \in DOMAIN w PROVE h.changes >= Complete(w[k])
      OBVIOUS
    <3>1. o.err = "nil" /\ o.wanted # NoRevision /\ o.wanted \in Nat
      BY <1>0, <2>4 DEF Reached, Request, Revisions
    <3>2. Reaches(o.shown, o.wanted) /\ w[k] <= o.wanted
      BY <1>0, <3>1 DEF RequestOK
    <3>3. w[k] \in Nat /\ o.shown \in Nat /\ w[k] <= o.shown
      BY <1>0, <1>1, <3>1, <3>2 DEF Reaches, Revisions
    <3>4. /\ Complete(w[k]) <= Complete(o.shown) /\ Complete(w[k]) \in Nat
          /\ Complete(o.shown) \in Nat
      BY <3>3, CompleteGrows
    <3>5. h.changes >= Complete(o.shown)
      BY <2>3, <2>4
    <3> QED
      BY <1>1, <3>4, <3>5
  <2> HIDE DEF g, tag, o, h, w, rev
  <2>5. GotOK(g, h, w)
    BY <2>2, <2>3, <2>4 DEF GotOK
  <2> QED
    BY <2>1, <2>2, <2>5, AnsweredStep DEF h, w
<1>4. CASE ~(tag # NoTag /\ holdsTag(o, tag))
  <2> DEFINE r == [o EXCEPT !.pc = "answer", !.tag = tag]
  <2>1. Continue(c, r)
    BY <1>4 DEF Tag
  <2> HIDE DEF tag
  <2>2. /\ r \in Request /\ r.pc = "answer" /\ r.at = o.at /\ r.err = o.err
        /\ r.tags = o.tags /\ r.kind = o.kind /\ r.wanted = o.wanted
        /\ r.shown = o.shown /\ r.tag = tag /\ r.query = o.query
    BY <1>0, <1>2 DEF Request, Phases
  <2> HIDE DEF r, o, rev, h, w
  <2>3. RequestOK(rev, h, w, day, r)
    BY <1>0, <1>2, <2>2 DEF RequestOK
  <2> QED
    BY <2>1, <2>2, <2>3, ContinueStep DEF o, rev, h, w
<1> QED
  BY <1>3, <1>4

LEMMA AnswerStep ==
    ASSUME Inv, NEW c \in Callers, Answer(c)
    PROVE  Inv'
<1> DEFINE o == req[c]
           i == o.at
           w == written[c]
           n == Reached(o)
           m == changes[i]
           g == [NoAnswer EXCEPT !.status = "ok", !.query = o.query, !.shown = o.shown,
                                 !.tag = o.tag, !.changes = m, !.day = day, !.reached = n]
<1>0. /\ o \in Request /\ o.pc = "answer" /\ day \in Nat /\ revision[i] \in Revisions
      /\ m \in Nat /\ ViewOK(revision[i], m)
      /\ RequestOK(revision[i], held[c], w, day, o)
  BY DEF Inv, Typed, CallerOK, Answer, Request
<1>1. n \in Revisions /\ o.query \in Queries /\ o.shown \in Revisions /\ o.tag \in Tags
  BY <1>0 DEF Request, Reached, Revisions
<1>2. CASE Failed(c)
  BY <1>2, FailedStep
<1>3. CASE Answered(c, g)
  <2>1. o.shown # NoRevision => m >= Complete(o.shown)
    <3> SUFFICES ASSUME o.shown # NoRevision PROVE m >= Complete(o.shown)
      OBVIOUS
    <3>1. Reaches(revision[i], o.shown) /\ o.shown \in Nat
      BY <1>0, <1>1 DEF RequestOK, Revisions
    <3> QED
      BY <1>0, <3>1, SeenIsHeld
  <2>2. n # NoRevision => \A k \in DOMAIN w : m >= Complete(w[k])
    BY <1>0, ReachedIsHeld
  <2>3. o.tag # NoTag => IsTagOf(o.tag, o.shown, o.query, day)
    BY <1>0 DEF RequestOK
  <2> HIDE DEF n, m, o, w
  <2>4. /\ g \in Given /\ g.status = "ok" /\ g.query = o.query /\ g.shown = o.shown
        /\ g.tag = o.tag /\ g.changes = m /\ g.day = day /\ g.reached = n
    BY <1>0, <1>1, IdleType DEF Given
  <2> HIDE DEF g
  <2>5. HeldOK(g, day)
    BY <1>0, <2>1, <2>3, <2>4 DEF HeldOK, IsTagOf
  <2>6. ASSUME NEW h PROVE GotOK(g, h, w)
    BY <2>1, <2>2, <2>4 DEF GotOK
  <2> QED
    BY <1>3, <2>4, <2>5, <2>6, AnsweredStep DEF w
<1> QED
  BY <1>2, <1>3 DEF Answer

-----------------------------------------------------------------------------
LEMMA InitInv == Init => Inv
<1> SUFFICES ASSUME Init PROVE Inv
  OBVIOUS
<1>1. Typed
  BY IdleType DEF Init, Typed, Revisions
<1>2. ASSUME NEW c \in Callers PROVE CallerOK(c)
  <2>1. IsAscending(written[c])
    BY DEF Init, IsAscending
  <2>2. RequestOK(revision[req[c].at], held[c], written[c], day, req[c])
    BY IdleOK DEF Init
  <2>3. HeldOK(NoAnswer, day)
    BY DEF HeldOK, NoAnswer
  <2>4. GotOK(NoAnswer, held[c], written[c])
    BY NoAnswerOK DEF NoAnswer
  <2> QED
    BY <2>1, <2>2, <2>3, <2>4 DEF CallerOK, Init
<1> QED
  BY <1>1, <1>2 DEF Init, Inv, ViewOK

LEMMA InvStep == Inv /\ [Next]_vars => Inv'
<1> SUFFICES ASSUME Inv, [Next]_vars PROVE Inv'
  OBVIOUS
<1>1. CASE UNCHANGED vars
  BY <1>1 DEF vars, Inv, Typed, CallerOK
<1>2. ASSUME NEW i \in Instances, ApplyChange(i) \/ Seen(i) \/ StartAgain(i) \/ Restart(i)
      PROVE  Inv'
  BY <1>2, ViewSteps, RestartStep
<1>3. ASSUME NEW c \in Callers,
             \/ Command(c) \/ Wait(c) \/ Serve(c)
             \/ ViewFails(c) \/ TimeRunsOut(c) \/ EndContext(c)
      PROVE  Inv'
  BY <1>3, CommandStep, WaitSteps, ReturnStep, AwaitedStep, ReadRevisionStep, TagStep,
     AnswerStep DEF Wait, Serve
<1>4. ASSUME NEW c \in Callers, NEW i \in Instances, WaitForWritten(c, i)
      PROVE  Inv'
  <2>1. PICK q \in Queries : TRUE
    BY RevisionsAssumption
  <2> QED
    BY <1>4, <2>1, StartSteps
<1>5. ASSUME NEW c \in Callers, NEW i \in Instances, NEW q \in Queries,
             Query(c, i, q) \/ QueryRefused(c, i, q)
      PROVE  Inv'
  BY <1>5, StartSteps
<1> QED
  BY <1>1, <1>2, <1>3, <1>4, <1>5, NextDayStep DEF Next

\* The inductive invariant holds throughout: views, requests, held answers and
\* the answers that callers got fit together at every step of waitFor,
\* answerRevisioned and the projections.
THEOREM ReadYourWritesInv == Spec => []Inv
BY InitInv, InvStep, PTL DEF Spec

\* An answer with a revision holds all of that revision, however the projection
\* moves on and restarts while the query is answered (answerRevisioned,
\* trackedProjection.Apply).
THEOREM AnswersHoldRevision == Spec => []AnswerHoldsRevision
<1>1. Inv => AnswerHoldsRevision
  BY DEF Inv, CallerOK, GotOK, AnswerHoldsRevision
<1> QED
  BY <1>1, ReadYourWritesInv, PTL

\* A wait that succeeds shows the caller everything it has written, with the
\* answer of the query after it as well, also as a 304 with an answer that came
\* from another instance, for every number of restarts (WaitFor,
\* WaitForWritten, RevisionOf).
THEOREM WaitsTellTruth == Spec => []WaitTellsTruth
<1>1. Inv => WaitTellsTruth
  BY DEF Inv, CallerOK, GotOK, WaitTellsTruth, Visible
<1> QED
  BY <1>1, ReadYourWritesInv, PTL

\* A 304 is the truth: a caller that named the tag holds an answer to the same
\* query, with all of the revision, and of this very day where the day matters,
\* also if the day changed between the tag and the answer it came with
\* (etagOf, holdsTag, serveUnchanged).
THEOREM NotModifiedTellsTruth == Spec => []NotModifiedIsTrue
<1>1. Inv => NotModifiedIsTrue
  BY DEF Inv, CallerOK, GotOK, NotModifiedIsTrue
<1> QED
  BY <1>1, ReadYourWritesInv, PTL
=============================================================================
