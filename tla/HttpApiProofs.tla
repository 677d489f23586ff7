---------------------------- MODULE HttpApiProofs ----------------------------
(***************************************************************************)
(* What the HTTP API tells the caller of a command is true, for every      *)
(* wiring of a route, every failure of the database, and errors of the     *)
(* application that wrap any number of others.                             *)
(*                                                                         *)
(* The invariant follows an error from where it comes up to the answer: by *)
(* the time a request is responded to, RespondInv says what the error may  *)
(* hold, depending on whether the command has begun, is stored, or may be. *)
(* The lemmas on StatusFor turn that into the status.                      *)
(***************************************************************************)
EXTENDS HttpApi, SequenceTheorems, TLAPS

Pcs ==
    {"none", "wired", "notWired", "user", "body", "convert", "execute", "ask", "wait",
     "adding", "respond", "answered", "aborted"}

AllMarks == Marks \cup {"error", "notRun", "panic"}

Request ==
    [pc : Pcs, isForeign : BOOLEAN, method : Methods, err : SUBSET AllMarks,
     ran : BOOLEAN, isDecided : BOOLEAN, written : BOOLEAN, isHopeless : BOOLEAN,
     isUnknown : BOOLEAN, isMistake : BOOLEAN, times : Nat]

TypeOK ==
    /\ wiring \in Wirings
    /\ req \in Request
    /\ ctx \in {"live", "Canceled", "DeadlineExceeded"}

\* What StatusFor looks for before the errors about a write.
FirstMarks ==
    {"Unauthorized", "Forbidden", "TooLarge", "UnsupportedMediaType", "Malformed", "NotFound",
     "NoItems", "Domain"}

AboutWrite == {"OutcomeUnknown", "NotCaughtUp"}

Retried == {409, 499, 503}

-----------------------------------------------------------------------------
(***************************************************************************)
(* The parts of the inductive invariant, for a request r on a wiring w.    *)
(***************************************************************************)
Commands(w) == w.kind \in {"Route", "own"}

\* Nothing has happened yet.
IsFresh(r) ==
    /\ r.err = nil /\ ~r.ran /\ ~r.isDecided /\ ~r.written
    /\ ~r.isHopeless /\ ~r.isUnknown /\ ~r.isMistake

PhaseInv(w, r) ==
    /\ r.pc \in {"none", "wired", "notWired", "user", "body", "convert", "execute", "ask"} => IsFresh(r)
    /\ r.pc = "execute" => Commands(w)
    /\ r.pc = "ask" => ~Commands(w)
    /\ r.pc \in {"wait", "adding"} =>
          /\ Commands(w) /\ r.ran /\ r.err = nil /\ (r.written <=> r.isDecided)
          /\ ~r.isHopeless /\ ~r.isUnknown /\ ~r.isMistake
    /\ r.written => r.ran /\ Commands(w)
    /\ r.times = IF r.written THEN 1 ELSE 0

\* Whatever method a request has that reaches a handler, the check of the origin
\* looks at it.
ForeignInv(w, r) ==
    /\ r.pc = "wired" => w.method \notin {"", "GET", "HEAD", "OPTIONS"}
    /\ r.pc \notin {"none", "notWired", "wired"} => r.method \notin {"GET", "HEAD", "OPTIONS"}
    /\ r.isForeign => r.pc \in {"user", "body", "respond", "answered", "aborted"} /\ ~r.ran

RespondInv(w, r) ==
    r.pc = "respond" =>
        /\ r.err = nil => ~r.isUnknown /\ ~r.isHopeless /\ ~r.isMistake
        /\ r.err = nil /\ Commands(w) => r.ran /\ (r.written <=> r.isDecided)
        /\ r.isUnknown => r.err = Err({"OutcomeUnknown"})
        /\ r.isHopeless => r.err = Err({"Permanent"})
        /\ r.isMistake => r.err \in {Err({}), panicked}
        /\ "OutcomeUnknown" \in r.err /\ "notRun" \notin r.err => r.isUnknown
        /\ "NotCaughtUp" \in r.err /\ "notRun" \notin r.err => r.written
        /\ r.written => \/ r.err = nil \/ r.isUnknown \/ r.isMistake
                        \/ /\ "NotCaughtUp" \in r.err /\ "notRun" \notin r.err
                           /\ r.err \cap FirstMarks = {}

AnswerInv(w, r, a) ==
    r.pc = "answered" =>
        /\ a.status \in Retried => ~r.isUnknown /\ ~r.isHopeless /\ ~r.written
        /\ a.status = 200 /\ Commands(w) => r.ran /\ (r.written <=> r.isDecided)
        /\ a.message = "may have succeeded" <=> r.isUnknown
        /\ a.message = "succeeded" => r.ran /\ r.written
        /\ r.written => \/ a.message \in {"result", "succeeded", "may have succeeded"}
                        \/ r.isMistake

RequestInv(w, r) == PhaseInv(w, r) /\ ForeignInv(w, r) /\ RespondInv(w, r)

Inv == TypeOK /\ RequestInv(wiring, req) /\ AnswerInv(wiring, req, answer)

-----------------------------------------------------------------------------
LEMMA InvImplies ==
    ASSUME Inv
    PROVE  AnswerIsTrue /\ NoForeignCommand
<1>1. req.times <= 1
  BY DEF Inv, RequestInv, PhaseInv
<1>2. AnswerIsTrue
  <2>1. req.written \in BOOLEAN /\ req.isDecided \in BOOLEAN
    BY DEF Inv, TypeOK, Request
  <2>2. (req.written <=> req.isDecided) => req.written = req.isDecided
    BY <2>1
  <2> QED
    BY <1>1, <2>2 DEF Inv, AnswerInv, AnswerIsTrue, IsCommand, Commands, Retried
<1>3. NoForeignCommand
  BY DEF Inv, RequestInv, PhaseInv, ForeignInv, NoForeignCommand
<1> QED
  BY <1>2, <1>3

LEMMA InvInit ==
    ASSUME Init
    PROVE  Inv
<1>1. TypeOK
  BY DEF Init, TypeOK, NoRequest, Request, Pcs, Methods, nil
<1>2. RequestInv(wiring, req)
  BY DEF Init, NoRequest, RequestInv, PhaseInv, IsFresh, ForeignInv, RespondInv
<1> QED
  BY <1>1, <1>2 DEF Init, Inv, NoRequest, AnswerInv

-----------------------------------------------------------------------------
(***************************************************************************)
(* StatusFor: the first row that an error hits decides.                    *)
(***************************************************************************)
Rows == FirstRows \o RowsOfWrites \o RowsOfCategories

RowType == [marks : SUBSET Marks, status : Nat]

LEMMA RowsTyped ==
    /\ FirstRows \in Seq(RowType) /\ Len(FirstRows) = 7
    /\ RowsOfWrites \in Seq(RowType) /\ Len(RowsOfWrites) = 2
    /\ RowsOfCategories \in Seq(RowType) /\ Len(RowsOfCategories) = 6
<1>1. FirstRows \in Seq(RowType)
  <2>1. /\ Row({"Unauthorized"}, 401) \in RowType /\ Row({"Forbidden"}, 403) \in RowType
        /\ Row({"TooLarge"}, 413) \in RowType /\ Row({"UnsupportedMediaType"}, 415) \in RowType
        /\ Row({"Malformed"}, 400) \in RowType /\ Row({"NotFound", "NoItems"}, 404) \in RowType
        /\ Row({"Domain"}, 422) \in RowType
    BY DEF Row, RowType, Marks
  <2> QED
    BY <2>1 DEF FirstRows
<1>2. RowsOfWrites \in Seq(RowType)
  <2>1. Row({"OutcomeUnknown"}, 500) \in RowType /\ Row({"NotCaughtUp"}, 500) \in RowType
    BY DEF Row, RowType, Marks
  <2> QED
    BY <2>1 DEF RowsOfWrites
<1>3. RowsOfCategories \in Seq(RowType)
  <2>1. /\ Row({"Conflict"}, 409) \in RowType /\ Row({"Transient"}, 503) \in RowType
        /\ Row({"Canceled"}, 499) \in RowType /\ Row({"DeadlineExceeded"}, 503) \in RowType
        /\ Row({"Permanent"}, 500) \in RowType /\ Row({"NotARevision", "EmptyRange"}, 400) \in RowType
    BY DEF Row, RowType, Marks
  <2> QED
    BY <2>1 DEF RowsOfCategories
<1>4. Len(FirstRows) = 7
  BY DEF FirstRows
<1>5. Len(RowsOfWrites) = 2
  BY DEF RowsOfWrites
<1>6. Len(RowsOfCategories) = 6
  BY DEF RowsOfCategories
<1> QED
  BY <1>1, <1>2, <1>3, <1>4, <1>5, <1>6

LEMMA RowsAre ==
    /\ DOMAIN Rows = 1 .. 15
    /\ \A i \in 1 .. 7 : Rows[i] = FirstRows[i]
    /\ Rows[8] = RowsOfWrites[1] /\ Rows[9] = RowsOfWrites[2]
    /\ \A i \in 10 .. 15 : Rows[i] = RowsOfCategories[i - 9]
<1>1. PICK A : A = FirstRows \o RowsOfWrites
  OBVIOUS
<1>2. /\ A \in Seq(RowType) /\ Len(A) = 9
      /\ \A i \in 1 .. 9 : A[i] = IF i <= 7 THEN FirstRows[i] ELSE RowsOfWrites[i - 7]
  <2>1. /\ A \in Seq(RowType) /\ Len(A) = Len(FirstRows) + Len(RowsOfWrites)
        /\ \A i \in 1 .. Len(FirstRows) + Len(RowsOfWrites) :
              A[i] = IF i <= Len(FirstRows) THEN FirstRows[i] ELSE RowsOfWrites[i - Len(FirstRows)]
    BY <1>1, RowsTyped, ConcatProperties, Zenon
  <2> QED
    BY <2>1, RowsTyped
<1>3. PICK B : B = A \o RowsOfCategories
  OBVIOUS
<1>4. /\ B \in Seq(RowType) /\ Len(B) = 15
      /\ \A i \in 1 .. 15 : B[i] = IF i <= 9 THEN A[i] ELSE RowsOfCategories[i - 9]
  <2>1. /\ B \in Seq(RowType) /\ Len(B) = Len(A) + Len(RowsOfCategories)
        /\ \A i \in 1 .. Len(A) + Len(RowsOfCategories) :
              B[i] = IF i <= Len(A) THEN A[i] ELSE RowsOfCategories[i - Len(A)]
    BY <1>2, <1>3, RowsTyped, ConcatProperties, Zenon
  <2> QED
    BY <1>2, <2>1, RowsTyped
<1>5. Rows = B
  BY <1>1, <1>3 DEF Rows
<1>6. DOMAIN B = 1 .. 15
  BY <1>4
<1>7. /\ \A i \in 1 .. 7 : B[i] = FirstRows[i]
      /\ B[8] = RowsOfWrites[1] /\ B[9] = RowsOfWrites[2]
      /\ \A i \in 10 .. 15 : B[i] = RowsOfCategories[i - 9]
  BY <1>2, <1>4
<1> QED
  BY <1>5, <1>6, <1>7

LEMMA RowValues ==
    /\ \A i \in 1 .. 7 : Rows[i].status \notin Retried \cup {200} /\ Rows[i].marks \subseteq FirstMarks
    /\ Rows[8].marks = {"OutcomeUnknown"} /\ Rows[8].status = 500
    /\ Rows[9].marks = {"NotCaughtUp"} /\ Rows[9].status = 500
    /\ \A i \in 10 .. 15 :
          /\ Rows[i].status # 200
          /\ i # 14 => "Permanent" \notin Rows[i].marks
    /\ Rows[14].marks = {"Permanent"} /\ Rows[14].status = 500
    /\ \A i \in 1 .. 15 : "error" \notin Rows[i].marks /\ "panic" \notin Rows[i].marks
<1>1. \A i \in 1 .. 7 : i = 1 \/ i = 2 \/ i = 3 \/ i = 4 \/ i = 5 \/ i = 6 \/ i = 7
  OBVIOUS
<1>2. \A i \in 10 .. 15 : i = 10 \/ i = 11 \/ i = 12 \/ i = 13 \/ i = 14 \/ i = 15
  OBVIOUS
<1>3. \A i \in 1 .. 7 : /\ Rows[i].status \notin Retried \cup {200}
                        /\ Rows[i].marks \subseteq FirstMarks
  BY <1>1, RowsAre DEF FirstRows, Row, Retried, FirstMarks
<1>4. /\ Rows[8].marks = {"OutcomeUnknown"} /\ Rows[8].status = 500
      /\ Rows[9].marks = {"NotCaughtUp"} /\ Rows[9].status = 500
  BY RowsAre DEF RowsOfWrites, Row
<1>5. /\ Rows[10] = Row({"Conflict"}, 409) /\ Rows[11] = Row({"Transient"}, 503)
      /\ Rows[12] = Row({"Canceled"}, 499) /\ Rows[13] = Row({"DeadlineExceeded"}, 503)
      /\ Rows[14] = Row({"Permanent"}, 500) /\ Rows[15] = Row({"NotARevision", "EmptyRange"}, 400)
  BY RowsAre DEF RowsOfCategories
<1>6. \A i \in 10 .. 15 : /\ Rows[i].status # 200
                          /\ i # 14 => "Permanent" \notin Rows[i].marks
                          /\ "error" \notin Rows[i].marks /\ "panic" \notin Rows[i].marks
  BY <1>2, <1>5 DEF Row
<1>7. Rows[14].marks = {"Permanent"} /\ Rows[14].status = 500
  BY <1>5 DEF Row
<1>8. \A i \in 1 .. 15 : "error" \notin Rows[i].marks /\ "panic" \notin Rows[i].marks
  <2>1. \A i \in 1 .. 15 : i \in 1 .. 7 \/ i = 8 \/ i = 9 \/ i \in 10 .. 15
    OBVIOUS
  <2> QED
    BY <2>1, <1>3, <1>4, <1>6 DEF FirstMarks
<1> QED
  BY <1>3, <1>4, <1>6, <1>7, <1>8

LEMMA HasFirst ==
    ASSUME NEW T \in SUBSET (1 .. 15), T # {}
    PROVE  Min(T) \in T /\ \A i \in T : Min(T) <= i
<1>1. \E x \in T : \A y \in T : x <= y
  <2> SUFFICES ASSUME \A x \in T : \E y \in T : y < x
               PROVE  FALSE
    OBVIOUS
  <2>1. \A n \in 1 .. 15 : n \in T => \E y \in T : y \in 1 .. n - 1
    OBVIOUS
  <2>2. T \cap (1 .. 3) = {}
    BY <2>1
  <2>3. T \cap (1 .. 6) = {}
    BY <2>1, <2>2
  <2>4. T \cap (1 .. 9) = {}
    BY <2>1, <2>3
  <2>5. T \cap (1 .. 12) = {}
    BY <2>1, <2>4
  <2>6. T \cap (1 .. 15) = {}
    BY <2>1, <2>5
  <2> QED
    BY <2>6
<1> QED
  BY <1>1 DEF Min

Hits(err) == {i \in 1 .. 15 : Rows[i].marks \cap err # {}}

LEMMA StatusIs ==
    ASSUME NEW err, err # nil
    PROVE  /\ Hits(err) = {} => StatusFor(err) = 500
           /\ Hits(err) # {} =>
                 \E i \in Hits(err) : /\ \A j \in Hits(err) : i <= j
                                      /\ StatusFor(err) = Rows[i].status
<1>1. DOMAIN Rows = 1 .. 15
  BY RowsAre
<1>2. StatusFor(err) = IF Hits(err) = {} THEN 500 ELSE Rows[Min(Hits(err))].status
  <2>1. StatusFor(err) = StatusByRows(Rows, err)
    BY DEF StatusFor, Rows
  <2>2. {i \in DOMAIN Rows : Rows[i].marks \cap err # {}} = Hits(err)
    BY <1>1 DEF Hits
  <2> HIDE DEF Rows
  <2> QED
    BY <2>1, <2>2 DEF StatusByRows
<1>3. Hits(err) \in SUBSET (1 .. 15)
  BY DEF Hits
<1> QED
  BY <1>2, <1>3, HasFirst

\* An error is not answered as a success.
LEMMA ErrorIsNoSuccess ==
    ASSUME NEW err, err # nil
    PROVE  StatusFor(err) # 200
<1>1. \A i \in 1 .. 15 : i \in 1 .. 7 \/ i = 8 \/ i = 9 \/ i \in 10 .. 15
  OBVIOUS
<1>2. \A i \in 1 .. 15 : Rows[i].status # 200
  BY <1>1, RowValues
<1> QED
  BY <1>2, StatusIs DEF Hits

\* A status that invites the caller to try again is not about a write.
LEMMA RetriedIsNotWritten ==
    ASSUME NEW err, err # nil, StatusFor(err) \in Retried
    PROVE  AboutWrite \cap err = {}
<1>1. Hits(err) # {}
  BY StatusIs DEF Retried
<1>2. PICK i \in Hits(err) : (\A j \in Hits(err) : i <= j) /\ StatusFor(err) = Rows[i].status
  BY <1>1, StatusIs
<1>3. i \in 1 .. 15 /\ i \notin 1 .. 7 /\ i # 8 /\ i # 9
  BY <1>2, RowValues DEF Hits, Retried
<1>4. 8 \notin Hits(err) /\ 9 \notin Hits(err)
  BY <1>2, <1>3
<1>5. Rows[8].marks \cap err = {} /\ Rows[9].marks \cap err = {}
  BY <1>4 DEF Hits
<1> QED
  BY <1>5, RowValues DEF AboutWrite

\* An error about a write is answered as one, unless something comes first.
LEMMA WriteIsInternal ==
    ASSUME NEW err, err # nil, AboutWrite \cap err # {}, FirstMarks \cap err = {}
    PROVE  StatusFor(err) = 500
<1>1. 8 \in Hits(err) \/ 9 \in Hits(err)
  BY RowValues DEF Hits, AboutWrite
<1>2. PICK i \in Hits(err) : (\A j \in Hits(err) : i <= j) /\ StatusFor(err) = Rows[i].status
  BY <1>1, StatusIs
<1>3. i \notin 1 .. 7
  BY RowValues DEF Hits
<1>4. i \in 1 .. 15 /\ (i <= 8 \/ i <= 9)
  BY <1>1, <1>2 DEF Hits
<1>5. i = 8 \/ i = 9
  BY <1>3, <1>4
<1> QED
  BY <1>2, <1>5, RowValues

\* Nor is one that the database refuses for good, or a mistake.
LEMMA OthersAreInternal ==
    /\ StatusFor(Err({"Permanent"})) = 500
    /\ StatusFor(Err({})) = 500
    /\ StatusFor(panicked) = 500
<1>1. Err({"Permanent"}) # nil /\ Err({}) # nil /\ panicked # nil
  BY DEF Err, nil, panicked
<1>2. Hits(Err({})) = {} /\ Hits(panicked) = {}
  BY RowValues DEF Hits, Err, panicked
<1>3. Hits(Err({"Permanent"})) = {14}
  <2>1. \A i \in 1 .. 15 : i \in 1 .. 7 \/ i = 8 \/ i = 9 \/ i \in 10 .. 15
    OBVIOUS
  <2>2. \A i \in 1 .. 15 : i # 14 => "Permanent" \notin Rows[i].marks
    BY <2>1, RowValues DEF FirstMarks
  <2> QED
    BY <2>2, RowValues DEF Hits, Err
<1> QED
  BY <1>1, <1>2, <1>3, StatusIs, RowValues

-----------------------------------------------------------------------------
(***************************************************************************)
(* Where errors come from.  A harmless one does not speak of a write,      *)
(* unless it is marked as coming from before the command ran.              *)
(***************************************************************************)
Harmless(err) ==
    /\ err \in SUBSET AllMarks /\ err # nil
    /\ AboutWrite \cap err # {} => "notRun" \in err

LEMMA AppErrorsTyped ==
    ASSUME NEW err \in AppErrors
    PROVE  err \in SUBSET AllMarks /\ err # nil
<1>1. PICK marks \in SUBSET Marks :
         err = Err(marks \cup (IF "Conflict" \in marks THEN {"Transient"} ELSE {}))
  BY DEF AppErrors, kSubset
<1>2. {"Transient"} \subseteq Marks
  BY DEF Marks
<1> QED
  BY <1>1, <1>2 DEF Err, AllMarks, nil

LEMMA OwnErrorsHarmless ==
    ASSUME NEW err \in OwnErrors
    PROVE  Harmless(err)
BY AppErrorsTyped DEF OwnErrors, Harmless, AboutWrite

LEMMA MarkedHarmless ==
    ASSUME NEW err \in AppErrors
    PROVE  /\ hasCategory(err) => Harmless(beforeRunning(err))
           /\ ~hasCategory(err) => Harmless(err \cup {"Unauthorized"}) /\ Harmless(err \cup {"Malformed"})
<1>1. err \in SUBSET AllMarks /\ err # nil
  BY AppErrorsTyped
<1>2. {"notRun", "Unauthorized", "Malformed"} \subseteq AllMarks
  BY DEF AllMarks, Marks
<1>3. Harmless(beforeRunning(err))
  BY <1>1, <1>2 DEF beforeRunning, Harmless, AboutWrite, nil
<1>4. ~hasCategory(err) => AboutWrite \cap err = {}
  BY DEF hasCategory, AboutWrite
<1> QED
  BY <1>1, <1>2, <1>3, <1>4 DEF Harmless, AboutWrite, nil

LEMMA KnownHarmless ==
    /\ Harmless(panicked) /\ Harmless(Err({}))
    /\ \A mark \in Marks \ AboutWrite : Harmless(Err({mark}))
    /\ Harmless(Err({"Conflict", "Transient"}))
BY DEF Harmless, panicked, Err, AllMarks, Marks, AboutWrite, nil

\* A failure of the database keeps nothing of what it looked like.
LEMMA DatabaseErrors ==
    ASSUME NEW failure \in Failures
    PROVE  /\ causeOf(failure) = {}
           /\ databaseFailure(failure) \in {Err({"Permanent"}), Err({"Transient"}), Err({"Conflict", "Transient"})}
           /\ IsHopeless(failure) => databaseFailure(failure) = Err({"Permanent"})
<1>1. causeOf(failure) = {}
  BY DEF causeOf, MarksOf
<1>2. /\ failure.status \in {0, 200, 400, 401, 408, 409, 429, 500}
      /\ failure.code \in {"", "precondition-violated", "transient", "other"}
  BY DEF Failures
<1> DEFINE Sorted(mark) ==
              Err({mark} \cup causeOf(failure) \cup (IF mark = "Conflict" THEN {"Transient"} ELSE {}))
<1>3. /\ Sorted("Permanent") = Err({"Permanent"})
      /\ Sorted("Transient") = Err({"Transient"})
      /\ Sorted("Conflict") = Err({"Conflict", "Transient"})
  BY <1>1 DEF Err
<1>4. databaseFailure(failure) =
         IF failure.isIncompatible THEN Sorted("Permanent")
         ELSE IF failure.code # ""
         THEN Sorted(CASE failure.code = "precondition-violated" -> "Conflict"
                       [] failure.code = "transient" -> "Transient"
                       [] OTHER -> "Permanent")
         ELSE IF failure.status \in {0, 200, 408, 429} \/ failure.status >= 500 THEN Sorted("Transient")
         ELSE Sorted(IF failure.status = 409 /\ ~failure.isSchema THEN "Conflict" ELSE "Permanent")
  BY DEF databaseFailure
<1> HIDE DEF Sorted
<1>5. /\ failure.code = "precondition-violated" =>
            (CASE failure.code = "precondition-violated" -> "Conflict"
               [] failure.code = "transient" -> "Transient"
               [] OTHER -> "Permanent") = "Conflict"
      /\ failure.code = "transient" =>
            (CASE failure.code = "precondition-violated" -> "Conflict"
               [] failure.code = "transient" -> "Transient"
               [] OTHER -> "Permanent") = "Transient"
      /\ failure.code = "other" =>
            (CASE failure.code = "precondition-violated" -> "Conflict"
               [] failure.code = "transient" -> "Transient"
               [] OTHER -> "Permanent") = "Permanent"
  OBVIOUS
<1>6. /\ failure.isIncompatible => databaseFailure(failure) = Sorted("Permanent")
      /\ ~failure.isIncompatible /\ failure.code = "other" =>
            databaseFailure(failure) = Sorted("Permanent")
      /\ ~failure.isIncompatible /\ failure.code = "transient" =>
            databaseFailure(failure) = Sorted("Transient")
      /\ ~failure.isIncompatible /\ failure.code = "precondition-violated" =>
            databaseFailure(failure) = Sorted("Conflict")
  BY <1>4, <1>5
<1>7. ASSUME ~failure.isIncompatible, failure.code = ""
      PROVE  /\ failure.status \in {0, 200, 408, 429, 500} => databaseFailure(failure) = Sorted("Transient")
             /\ failure.status \in {400, 401} => databaseFailure(failure) = Sorted("Permanent")
             /\ failure.status = 409 /\ failure.isSchema => databaseFailure(failure) = Sorted("Permanent")
             /\ failure.status = 409 /\ ~failure.isSchema => databaseFailure(failure) = Sorted("Conflict")
  <2> DEFINE isForNow == failure.status \in {0, 200, 408, 429} \/ failure.status >= 500
  <2>1. databaseFailure(failure) =
          IF isForNow THEN Sorted("Transient")
          ELSE Sorted(IF failure.status = 409 /\ ~failure.isSchema THEN "Conflict" ELSE "Permanent")
    BY <1>4, <1>7, Zenon
  <2>2. /\ isForNow => databaseFailure(failure) = Sorted("Transient")
        /\ ~isForNow /\ failure.status = 409 /\ ~failure.isSchema =>
              databaseFailure(failure) = Sorted("Conflict")
        /\ ~isForNow /\ ~(failure.status = 409 /\ ~failure.isSchema) =>
              databaseFailure(failure) = Sorted("Permanent")
    <3> HIDE DEF isForNow
    <3> QED
      BY <2>1
  <2>3. /\ failure.status \in {0, 200, 408, 429, 500} => isForNow
        /\ failure.status \in {400, 401, 409} => ~isForNow
    OBVIOUS
  <2>4. failure.status \in {400, 401} => failure.status # 409
    OBVIOUS
  <2> HIDE DEF isForNow
  <2> QED
    BY <2>2, <2>3, <2>4
<1>8. databaseFailure(failure) \in {Sorted("Permanent"), Sorted("Transient"), Sorted("Conflict")}
  <2>1. CASE failure.isIncompatible \/ failure.code # ""
    BY <1>2, <1>6, <2>1
  <2>2. CASE ~failure.isIncompatible /\ failure.code = ""
    <3>1. \/ failure.status \in {0, 200, 408, 429, 500} \/ failure.status \in {400, 401}
          \/ failure.status = 409
      BY <1>2
    <3> QED
      BY <1>7, <2>2, <3>1
  <2> QED
    BY <2>1, <2>2
<1>9. IsHopeless(failure) => databaseFailure(failure) = Sorted("Permanent")
  BY <1>6, <1>7 DEF IsHopeless
<1> QED
  BY <1>1, <1>3, <1>8, <1>9

-----------------------------------------------------------------------------
(***************************************************************************)
(* The steps before an answer.                                             *)
(***************************************************************************)
LEMMA RequestStep ==
    ASSUME Inv, NEW r \in Request, req' = r, UNCHANGED <<wiring, ctx, answer>>,
           r.pc # "answered", RequestInv(wiring, r)
    PROVE  Inv'
BY DEF Inv, TypeOK, AnswerInv

LEMMA ReqTyped ==
    ASSUME Inv
    PROVE  req \in Request /\ wiring \in Wirings /\ ctx \in {"live", "Canceled", "DeadlineExceeded"}
           /\ PhaseInv(wiring, req) /\ ForeignInv(wiring, req) /\ RespondInv(wiring, req)
BY DEF Inv, TypeOK, RequestInv

LEMMA ContinueFields ==
    ASSUME NEW r \in Request, NEW pc \in Pcs
    PROVE  LET q == [r EXCEPT !.pc = pc]
           IN  /\ q \in Request /\ q.pc = pc /\ q.isForeign = r.isForeign
               /\ q.method = r.method /\ q.err = r.err
               /\ q.ran = r.ran /\ q.isDecided = r.isDecided /\ q.written = r.written
               /\ q.isHopeless = r.isHopeless /\ q.isUnknown = r.isUnknown
               /\ q.isMistake = r.isMistake /\ q.times = r.times
BY DEF Request

LEMMA FailFields ==
    ASSUME NEW r \in Request, NEW err \in SUBSET AllMarks
    PROVE  LET q == [r EXCEPT !.pc = "respond", !.err = err]
           IN  /\ q \in Request /\ q.pc = "respond" /\ q.isForeign = r.isForeign
               /\ q.method = r.method /\ q.err = err
               /\ q.ran = r.ran /\ q.isDecided = r.isDecided /\ q.written = r.written
               /\ q.isHopeless = r.isHopeless /\ q.isUnknown = r.isUnknown
               /\ q.isMistake = r.isMistake /\ q.times = r.times
<1>1. "respond" \in Pcs
  BY DEF Pcs
<1> QED
  BY <1>1 DEF Request

LEMMA RanFields ==
    ASSUME NEW r \in Request
    PROVE  LET q == [r EXCEPT !.ran = TRUE]
           IN  /\ q \in Request /\ q.pc = r.pc /\ q.isForeign = r.isForeign
               /\ q.method = r.method /\ q.err = r.err
               /\ q.ran /\ q.isDecided = r.isDecided /\ q.written = r.written
               /\ q.isHopeless = r.isHopeless /\ q.isUnknown = r.isUnknown
               /\ q.isMistake = r.isMistake /\ q.times = r.times
BY DEF Request

\* The phases before the command or the query.
Early == {"user", "body", "convert", "execute", "ask"}

\* A step to an error before anything was written.
LEMMA FailStep ==
    ASSUME Inv, NEW err, Harmless(err), req.pc \in Early, FailWith(err)
    PROVE  Inv'
<1> DEFINE r == [req EXCEPT !.pc = "respond", !.err = err]
<1>1. req' = r /\ UNCHANGED <<wiring, ctx, answer>>
  BY DEF FailWith
<1>2. /\ r \in Request /\ r.pc = "respond" /\ r.isForeign = req.isForeign
      /\ r.method = req.method /\ r.err = err
      /\ r.ran = req.ran /\ r.isDecided = req.isDecided /\ r.written = req.written
      /\ r.isHopeless = req.isHopeless /\ r.isUnknown = req.isUnknown
      /\ r.isMistake = req.isMistake /\ r.times = req.times
  BY ReqTyped, FailFields DEF Harmless
<1> HIDE DEF r
<1>3. IsFresh(req)
  BY ReqTyped DEF PhaseInv, Early
<1>4. PhaseInv(wiring, r)
  BY <1>2, <1>3, ReqTyped DEF PhaseInv, IsFresh
<1>5. ForeignInv(wiring, r)
  BY <1>2, ReqTyped DEF ForeignInv, Early
<1>6. RespondInv(wiring, r)
  BY <1>2, <1>3 DEF RespondInv, IsFresh, Harmless, AboutWrite
<1> QED
  BY <1>1, <1>2, <1>4, <1>5, <1>6, RequestStep DEF RequestInv

\* A step to a phase in which nothing more is claimed, or the response ends.
LEMMA AbortStep ==
    ASSUME Inv, req.pc \in Early \cup {"adding"}, Continue("aborted")
    PROVE  Inv'
<1> DEFINE r == [req EXCEPT !.pc = "aborted"]
<1>1. req' = r /\ UNCHANGED <<wiring, ctx, answer>>
  BY DEF Continue
<1>2. /\ r \in Request /\ r.pc = "aborted" /\ r.isForeign = req.isForeign
      /\ r.method = req.method /\ r.ran = req.ran
      /\ r.written = req.written /\ r.times = req.times
  BY ReqTyped, ContinueFields DEF Pcs
<1> HIDE DEF r
<1>3. PhaseInv(wiring, r)
  BY <1>2, ReqTyped DEF PhaseInv
<1>4. ForeignInv(wiring, r)
  BY <1>2, ReqTyped DEF ForeignInv, Early
<1>5. RespondInv(wiring, r)
  BY <1>2 DEF RespondInv
<1> QED
  BY <1>1, <1>2, <1>3, <1>4, <1>5, RequestStep DEF RequestInv

LEMMA PanicStep ==
    ASSUME Inv, req.pc \in Early, Panic
    PROVE  Inv'
BY FailStep, AbortStep, KnownHarmless DEF Panic

\* On to the next of the phases before the command or the query.
LEMMA EarlyStep ==
    ASSUME Inv, NEW pc \in {"wired", "notWired", "body", "convert", "execute", "ask"}, Continue(pc),
           req.pc \in {"none", "user", "body", "convert"},
           pc = "execute" => Commands(wiring), pc = "ask" => ~Commands(wiring),
           pc = "wired" => wiring.method \notin {"", "GET", "HEAD", "OPTIONS"},
           pc \in {"wired", "notWired"} <=> req.pc = "none",
           req.isForeign => pc = "body"
    PROVE  Inv'
<1> DEFINE r == [req EXCEPT !.pc = pc]
<1>1. req' = r /\ UNCHANGED <<wiring, ctx, answer>>
  BY DEF Continue
<1>2. /\ r \in Request /\ r.pc = pc /\ r.isForeign = req.isForeign
      /\ r.method = req.method /\ r.err = req.err
      /\ r.ran = req.ran /\ r.isDecided = req.isDecided /\ r.written = req.written
      /\ r.isHopeless = req.isHopeless /\ r.isUnknown = req.isUnknown
      /\ r.isMistake = req.isMistake /\ r.times = req.times
  <2>1. pc \in Pcs /\ req \in Request
    BY ReqTyped DEF Pcs
  <2> QED
    BY <2>1, ContinueFields
<1> HIDE DEF r
<1>3. IsFresh(req)
  BY ReqTyped DEF PhaseInv
<1>4. PhaseInv(wiring, r)
  BY <1>2, <1>3, ReqTyped DEF PhaseInv, IsFresh
<1>5. ForeignInv(wiring, r)
  BY <1>2, ReqTyped DEF ForeignInv
<1>6. RespondInv(wiring, r)
  BY <1>2 DEF RespondInv
<1> QED
  BY <1>1, <1>2, <1>4, <1>5, <1>6, RequestStep DEF RequestInv

\* A route is wired only for a method that the check of the origin looks at.
LEMMA WireKeepsInv ==
    ASSUME Inv, Wire
    PROVE  Inv'
<1>1. wiring \in Wirings /\ ~req.isForeign /\ req.pc = "none"
  BY ReqTyped DEF Wire, ForeignInv
<1>2. IsWired(wiring) => wiring.method \notin {"", "GET", "HEAD", "OPTIONS"}
  <2>1. wiring.kind = "Route" \/ wiring.kind = "Query" \/ wiring.method = "POST"
    BY <1>1 DEF Wirings
  <2> QED
    BY <2>1 DEF IsWired, Route, Query
<1> QED
  BY <1>1, <1>2, EarlyStep DEF Wire

LEMMA ReceiveKeepsInv ==
    ASSUME Inv, Receive
    PROVE  Inv'
<1>1. PICK isForeign \in BOOLEAN, method \in MethodsOf(wiring.method) :
         req' = [req EXCEPT !.pc = "user", !.isForeign = isForeign, !.method = method]
  BY DEF Receive
<1> DEFINE r == [req EXCEPT !.pc = "user", !.isForeign = isForeign, !.method = method]
<1>2. method \in Methods /\ method \notin {"GET", "HEAD", "OPTIONS"}
  <2>1. wiring.method \in Methods
    BY ReqTyped DEF Wirings, Methods
  <2>2. wiring.method \notin {"", "GET", "HEAD", "OPTIONS"}
    BY ReqTyped DEF Receive, ForeignInv
  <2> QED
    BY <2>1, <2>2 DEF MethodsOf
<1>3. /\ r \in Request /\ r.pc = "user" /\ r.method = method /\ r.err = req.err
      /\ r.ran = req.ran /\ r.isDecided = req.isDecided /\ r.written = req.written
      /\ r.isHopeless = req.isHopeless /\ r.isUnknown = req.isUnknown
      /\ r.isMistake = req.isMistake /\ r.times = req.times
  <2>1. req \in Request /\ "user" \in Pcs
    BY ReqTyped DEF Pcs
  <2> QED
    BY <1>2, <2>1 DEF Request
<1>4. req' = r /\ UNCHANGED <<wiring, ctx, answer>> /\ req.pc = "wired"
  BY <1>1 DEF Receive
<1> HIDE DEF r
<1>5. IsFresh(req)
  BY <1>4, ReqTyped DEF PhaseInv
<1>6. PhaseInv(wiring, r)
  BY <1>3, <1>5, ReqTyped DEF PhaseInv, IsFresh
<1>7. ForeignInv(wiring, r)
  BY <1>2, <1>3, <1>4, <1>5, ReqTyped DEF ForeignInv, IsFresh
<1>8. RespondInv(wiring, r)
  BY <1>3 DEF RespondInv
<1> QED
  BY <1>3, <1>4, <1>6, <1>7, <1>8, RequestStep DEF RequestInv

LEMMA EndContextKeepsInv ==
    ASSUME Inv, EndContext
    PROVE  Inv'
BY DEF Inv, TypeOK, EndContext

LEMMA UserOfKeepsInv ==
    ASSUME Inv, UserOf
    PROVE  Inv'
<1>1. req.pc = "user" /\ req.pc \in Early
  BY DEF UserOf, Early
<1>2. CASE Continue("body")
  BY <1>1, <1>2, EarlyStep, ReqTyped DEF ForeignInv
<1>3. CASE Panic
  BY <1>1, <1>3, PanicStep
<1>4. ASSUME NEW err \in AppErrors,
             FailWith(IF hasCategory(err) THEN beforeRunning(err) ELSE err \cup {"Unauthorized"})
      PROVE  Inv'
  <2>1. Harmless(IF hasCategory(err) THEN beforeRunning(err) ELSE err \cup {"Unauthorized"})
    BY MarkedHarmless
  <2> QED
    BY <1>1, <1>4, <2>1, FailStep
<1> QED
  BY <1>2, <1>3, <1>4 DEF UserOf

\* A request that a browser sends for another site is refused, with or without
\* a body.
LEMMA BodyOfKeepsInv ==
    ASSUME Inv, BodyOf
    PROVE  Inv'
<1>1. req.pc = "body" /\ req.pc \in Early
  BY DEF BodyOf, Early
<1>2. req.method \notin {"GET", "HEAD", "OPTIONS"}
  BY <1>1, ReqTyped DEF ForeignInv
<1>3. PICK body \in {"empty", "{}", "null", "fits", "odd", "too large", "broken"},
           isJSON \in IF req.isForeign THEN {FALSE} ELSE BOOLEAN :
         LET refusal == IF ~wiring.takesBody THEN requireNoBody(body)
                        ELSE IF requireJSON(isJSON) # nil THEN requireJSON(isJSON)
                        ELSE IF readBody(body) # nil THEN readBody(body)
                        ELSE IF body \in {"empty", "null", "odd"} THEN Err({"Malformed"})
                        ELSE nil
         IN  IF refusal = nil THEN Continue("convert") ELSE FailWith(refusal)
  BY DEF BodyOf
<1> DEFINE refusal == IF ~wiring.takesBody THEN requireNoBody(body)
                      ELSE IF requireJSON(isJSON) # nil THEN requireJSON(isJSON)
                      ELSE IF readBody(body) # nil THEN readBody(body)
                      ELSE IF body \in {"empty", "null", "odd"} THEN Err({"Malformed"})
                      ELSE nil
<1>4. \A mark \in Marks : Err({mark}) # nil
  BY DEF Err, nil
<1>5. {"TooLarge", "Malformed", "Forbidden", "UnsupportedMediaType"} \subseteq Marks \ AboutWrite
  BY DEF Marks, AboutWrite
<1>6. readBody(body) \in {Err({"TooLarge"}), Err({"Malformed"}), nil}
  BY DEF readBody
<1>7. requireNoBody(body) \in {Err({"Forbidden"}), Err({"TooLarge"}), Err({"Malformed"}), nil}
  BY <1>6 DEF requireNoBody
<1>8. requireJSON(isJSON) \in {Err({"UnsupportedMediaType"}), nil}
  BY DEF requireJSON
<1>9. refusal \in {Err({"Forbidden"}), Err({"TooLarge"}), Err({"Malformed"}),
                    Err({"UnsupportedMediaType"}), nil}
  BY <1>6, <1>7, <1>8
<1>10. req.isForeign => refusal # nil
  <2>1. req.isForeign => requireNoBody(body) = Err({"Forbidden"})
    BY <1>2 DEF requireNoBody, crossOriginCheck
  <2>2. req.isForeign => requireJSON(isJSON) = Err({"UnsupportedMediaType"})
    BY <1>3 DEF requireJSON
  <2>3. Err({"Forbidden"}) # nil /\ Err({"UnsupportedMediaType"}) # nil
    BY DEF Err, nil
  <2> QED
    BY <2>1, <2>2, <2>3
<1>11. IF refusal = nil THEN Continue("convert") ELSE FailWith(refusal)
  BY <1>3
<1> HIDE DEF refusal
<1>12. CASE refusal = nil
  BY <1>1, <1>2, <1>10, <1>11, <1>12, EarlyStep
<1>13. CASE refusal # nil
  <2>1. Harmless(refusal)
    BY <1>5, <1>9, <1>13, KnownHarmless
  <2> QED
    BY <1>1, <1>11, <1>13, <2>1, FailStep
<1> QED
  BY <1>12, <1>13

LEMMA ConvertKeepsInv ==
    ASSUME Inv, Convert
    PROVE  Inv'
<1>1. req.pc = "convert" /\ req.pc \in Early
  BY DEF Convert, Early
<1>2. ~req.isForeign
  BY <1>1, ReqTyped DEF ForeignInv
<1>3. CASE Continue(IF wiring.kind = "Query" THEN "ask" ELSE "execute")
  <2>1. wiring.kind # "Query" <=> Commands(wiring)
    BY ReqTyped DEF Wirings, Commands
  <2> QED
    BY <1>1, <1>2, <1>3, <2>1, EarlyStep
<1>4. CASE Panic
  BY <1>1, <1>4, PanicStep
<1>5. ASSUME NEW err \in AppErrors, FailWith(categorise(err))
      PROVE  Inv'
  <2>1. Harmless(categorise(err))
    BY MarkedHarmless DEF categorise
  <2> QED
    BY <1>1, <1>5, <2>1, FailStep
<1> QED
  BY <1>3, <1>4, <1>5 DEF Convert

-----------------------------------------------------------------------------
(***************************************************************************)
(* The command, by its outcomes.                                           *)
(***************************************************************************)
Outcome(r) ==
    /\ r.pc \in {"wait", "adding", "respond", "aborted"}
    /\ ~r.isForeign /\ r.method \notin {"GET", "HEAD", "OPTIONS"}
    /\ r.times = IF r.written THEN 1 ELSE 0
    /\ ~r.isMistake
    /\ r.pc \in {"wait", "adding"} =>
          r.err = nil /\ (r.written <=> r.isDecided) /\ ~r.isHopeless /\ ~r.isUnknown
    /\ r.pc = "respond" =>
          /\ r.err # nil
          /\ r.isUnknown => r.err = Err({"OutcomeUnknown"})
          /\ r.isHopeless => r.err = Err({"Permanent"})
          /\ "OutcomeUnknown" \in r.err /\ "notRun" \notin r.err => r.isUnknown
          /\ "NotCaughtUp" \in r.err /\ "notRun" \notin r.err => r.written
          /\ r.written => r.isUnknown

LEMMA OutcomeStep ==
    ASSUME Inv, req.pc = "execute", NEW r \in Request, Outcome(r), Ran(r)
    PROVE  Inv'
<1> DEFINE q == [r EXCEPT !.ran = TRUE]
<1>1. req' = q /\ UNCHANGED <<wiring, ctx, answer>>
  BY DEF Ran
<1>2. /\ q \in Request /\ q.pc = r.pc /\ q.isForeign = r.isForeign
      /\ q.method = r.method /\ q.err = r.err
      /\ q.ran /\ q.isDecided = r.isDecided /\ q.written = r.written
      /\ q.isHopeless = r.isHopeless /\ q.isUnknown = r.isUnknown
      /\ q.isMistake = r.isMistake /\ q.times = r.times
  BY RanFields
<1> HIDE DEF q
<1>3. Commands(wiring)
  BY ReqTyped DEF PhaseInv, ForeignInv
<1>4. PhaseInv(wiring, q)
  BY <1>2, <1>3 DEF PhaseInv, Outcome
<1>5. ForeignInv(wiring, q)
  BY <1>2, <1>3 DEF ForeignInv, Outcome
<1>6. RespondInv(wiring, q)
  BY <1>2 DEF RespondInv, Outcome
<1>7. q.pc # "answered"
  BY <1>2 DEF Outcome
<1> QED
  BY <1>1, <1>2, <1>4, <1>5, <1>6, <1>7, RequestStep DEF RequestInv

LEMMA ExecuteFacts ==
    ASSUME Inv, req.pc = "execute"
    PROVE  req \in Request /\ IsFresh(req) /\ ~req.isForeign /\ req.times = 0 /\ req.pc \in Early
           /\ req.method \notin {"GET", "HEAD", "OPTIONS"}
           /\ AfterCommand \in {"wait", "adding"}
BY ReqTyped DEF PhaseInv, IsFresh, ForeignInv, Early, AfterCommand

LEMMA RanIntoStep ==
    ASSUME Inv, req.pc = "execute", NEW err, Harmless(err), RanInto(err)
    PROVE  Inv'
<1> DEFINE r == [req EXCEPT !.pc = "respond", !.err = err]
<1>1. Ran(r)
  BY DEF RanInto
<1>2. /\ r \in Request /\ r.pc = "respond" /\ r.isForeign = req.isForeign
      /\ r.method = req.method /\ r.err = err
      /\ r.written = req.written /\ r.isHopeless = req.isHopeless /\ r.isUnknown = req.isUnknown
      /\ r.isMistake = req.isMistake /\ r.times = req.times
  <2>1. req \in Request /\ err \in SUBSET AllMarks
    BY ExecuteFacts DEF Harmless
  <2> QED
    BY <2>1, FailFields
<1> HIDE DEF r
<1>3. Outcome(r)
  BY <1>2, ExecuteFacts DEF Outcome, IsFresh, Harmless, AboutWrite
<1> QED
  BY <1>1, <1>2, <1>3, OutcomeStep

LEMMA ReadFailureHarmless ==
    ASSUME Inv, NEW failure \in Failures
    PROVE  Harmless(readFailure(failure))
<1>1. ctx # "live" => Harmless(contextEnded)
  <2>1. ctx # "live" => ctx \in Marks \ AboutWrite
    BY ReqTyped DEF Marks, AboutWrite
  <2> QED
    BY <2>1, KnownHarmless DEF contextEnded
<1>2. Harmless(Err({"Permanent"} \cup causeOf(failure)))
  <2>1. {"Permanent"} \cup causeOf(failure) = {"Permanent"} /\ "Permanent" \in Marks \ AboutWrite
    BY DatabaseErrors DEF Marks, AboutWrite
  <2> QED
    BY <2>1, KnownHarmless
<1>3. Harmless(databaseFailure(failure))
  <2>1. "Permanent" \in Marks \ AboutWrite /\ "Transient" \in Marks \ AboutWrite
    BY DEF Marks, AboutWrite
  <2> QED
    BY <2>1, DatabaseErrors, KnownHarmless
<1> QED
  BY <1>1, <1>2, <1>3 DEF readFailure

LEMMA ExecuteFailsKeepsInv ==
    ASSUME Inv, ExecuteFails
    PROVE  Inv'
<1>1. req.pc = "execute"
  BY DEF ExecuteFails
<1>2. ASSUME NEW err \in OwnErrors \cup {panicked}, RanInto(err)
      PROVE  Inv'
  BY <1>1, <1>2, RanIntoStep, OwnErrorsHarmless, KnownHarmless
<1>3. CASE Ran([req EXCEPT !.pc = "aborted"])
  <2> DEFINE r == [req EXCEPT !.pc = "aborted"]
  <2>1. /\ r \in Request /\ r.pc = "aborted" /\ r.isForeign = req.isForeign
        /\ r.method = req.method
        /\ r.written = req.written /\ r.isMistake = req.isMistake /\ r.times = req.times
    BY <1>1, ExecuteFacts, ContinueFields DEF Pcs
  <2>2. Ran(r)
    BY <1>3
  <2> HIDE DEF r
  <2>3. Outcome(r)
    BY <1>1, <2>1, ExecuteFacts DEF Outcome, IsFresh
  <2> QED
    BY <1>1, <2>1, <2>2, <2>3, OutcomeStep
<1>4. CASE ctx # "live" /\ RanInto(contextEnded)
  <2>1. ctx \in Marks \ AboutWrite
    BY <1>4, ReqTyped DEF Marks, AboutWrite
  <2> QED
    BY <1>1, <1>4, <2>1, RanIntoStep, KnownHarmless DEF contextEnded
<1>5. ASSUME NEW failure \in Failures, RanInto(readFailure(failure))
      PROVE  Inv'
  BY <1>1, <1>5, RanIntoStep, ReadFailureHarmless
<1> QED
  BY <1>2, <1>3, <1>4, <1>5 DEF ExecuteFails

LEMMA ExecuteDecidesNothingKeepsInv ==
    ASSUME Inv, ExecuteDecidesNothing
    PROVE  Inv'
<1> DEFINE r == [req EXCEPT !.pc = AfterCommand]
<1>1. req.pc = "execute" /\ Ran(r)
  BY DEF ExecuteDecidesNothing
<1>2. req \in Request /\ AfterCommand \in Pcs /\ AfterCommand \in {"wait", "adding"}
  BY <1>1, ExecuteFacts DEF Pcs
<1>3. /\ r \in Request /\ r.pc = AfterCommand /\ r.isForeign = req.isForeign
      /\ r.method = req.method /\ r.err = req.err
      /\ r.isDecided = req.isDecided /\ r.written = req.written
      /\ r.isHopeless = req.isHopeless /\ r.isUnknown = req.isUnknown
      /\ r.isMistake = req.isMistake /\ r.times = req.times
  BY <1>2, ContinueFields
<1> HIDE DEF r
<1>4. Outcome(r)
  BY <1>1, <1>2, <1>3, ExecuteFacts DEF Outcome, IsFresh
<1> QED
  BY <1>1, <1>3, <1>4, OutcomeStep

LEMMA WrittenFields ==
    ASSUME NEW r \in Request, NEW pc \in Pcs, NEW n \in Nat
    PROVE  LET q == [r EXCEPT !.pc = pc, !.isDecided = TRUE, !.written = TRUE, !.times = n]
           IN  /\ q \in Request /\ q.pc = pc /\ q.isForeign = r.isForeign
               /\ q.method = r.method /\ q.err = r.err
               /\ q.isDecided /\ q.written
               /\ q.isHopeless = r.isHopeless /\ q.isUnknown = r.isUnknown
               /\ q.isMistake = r.isMistake /\ q.times = n
BY DEF Request

LEMMA ExecuteWritesKeepsInv ==
    ASSUME Inv, ExecuteWrites
    PROVE  Inv'
<1> DEFINE n == req.times + 1
           r == [req EXCEPT !.pc = AfterCommand, !.isDecided = TRUE, !.written = TRUE, !.times = n]
<1>1. req.pc = "execute" /\ Ran(r)
  BY DEF ExecuteWrites
<1>2. /\ req \in Request /\ AfterCommand \in Pcs /\ AfterCommand \in {"wait", "adding"}
      /\ n = 1 /\ n \in Nat
  BY <1>1, ExecuteFacts DEF Pcs
<1> HIDE DEF n
<1>3. /\ r \in Request /\ r.pc = AfterCommand /\ r.isForeign = req.isForeign
      /\ r.method = req.method /\ r.err = req.err
      /\ r.isDecided /\ r.written
      /\ r.isHopeless = req.isHopeless /\ r.isUnknown = req.isUnknown
      /\ r.isMistake = req.isMistake /\ r.times = n
  BY <1>2, WrittenFields, Zenon
<1> HIDE DEF r
<1>4. Outcome(r)
  BY <1>1, <1>2, <1>3, ExecuteFacts DEF Outcome, IsFresh
<1> QED
  BY <1>1, <1>3, <1>4, OutcomeStep

LEMMA WriteFailureIs ==
    ASSUME NEW failure \in Failures
    PROVE  /\ failure.isUnknown => writeFailure(failure) = Err({"OutcomeUnknown"})
           /\ ~failure.isUnknown => Harmless(writeFailure(failure))
           /\ ~failure.isUnknown /\ IsHopeless(failure) => writeFailure(failure) = Err({"Permanent"})
           /\ writeFailure(failure) \in SUBSET AllMarks /\ writeFailure(failure) # nil
<1>1. {"OutcomeUnknown"} \cup causeOf(failure) = {"OutcomeUnknown"}
  BY DatabaseErrors
<1>2. failure.isUnknown => writeFailure(failure) = Err({"OutcomeUnknown"})
  BY <1>1 DEF writeFailure
<1>3. ~failure.isUnknown => writeFailure(failure) = databaseFailure(failure)
  BY DEF writeFailure
<1>4. Harmless(databaseFailure(failure))
  <2>1. "Permanent" \in Marks \ AboutWrite /\ "Transient" \in Marks \ AboutWrite
    BY DEF Marks, AboutWrite
  <2> QED
    BY <2>1, DatabaseErrors, KnownHarmless
<1>5. Err({"OutcomeUnknown"}) \in SUBSET AllMarks /\ Err({"OutcomeUnknown"}) # nil
  BY DEF Err, AllMarks, Marks, nil
<1> QED
  BY <1>2, <1>3, <1>4, <1>5, DatabaseErrors DEF Harmless

LEMMA ExecuteWriteFailsKeepsInv ==
    ASSUME Inv, ExecuteWriteFails
    PROVE  Inv'
<1>1. req.pc = "execute"
  BY DEF ExecuteWriteFails
<1>2. PICK failure \in Failures, written \in BOOLEAN :
         /\ written => failure.isUnknown
         /\ Ran([req EXCEPT !.pc = "respond", !.err = writeFailure(failure), !.isDecided = TRUE,
                            !.written = written, !.times = IF written THEN req.times + 1 ELSE req.times,
                            !.isUnknown = failure.isUnknown,
                            !.isHopeless = ~failure.isUnknown /\ IsHopeless(failure)])
  BY DEF ExecuteWriteFails
<1> DEFINE n == IF written THEN req.times + 1 ELSE req.times
           u == failure.isUnknown
           h == ~failure.isUnknown /\ IsHopeless(failure)
           err == writeFailure(failure)
           r == [req EXCEPT !.pc = "respond", !.err = err, !.isDecided = TRUE, !.written = written,
                            !.times = n, !.isUnknown = u, !.isHopeless = h]
<1>3. /\ n = IF written THEN 1 ELSE 0
      /\ n \in Nat
  BY <1>1, ExecuteFacts
<1>4. u \in BOOLEAN /\ h \in BOOLEAN
  <2>1. u \in BOOLEAN
    BY DEF Failures
  <2>2. h \in BOOLEAN
    OBVIOUS
  <2> QED
    BY <2>1, <2>2
<1>5. Ran(r)
  BY <1>2
<1>6. /\ (u => err = Err({"OutcomeUnknown"})) /\ (~u => Harmless(err)) /\ (h => err = Err({"Permanent"}))
      /\ (h => ~u) /\ (written => u) /\ err \in SUBSET AllMarks /\ err # nil
  BY <1>2, WriteFailureIs
<1> HIDE DEF n, u, h, err
<1>7. /\ r \in Request /\ r.pc = "respond" /\ r.isForeign = req.isForeign
      /\ r.method = req.method /\ r.err = err
      /\ r.isDecided /\ r.written = written /\ r.isHopeless = h /\ r.isUnknown = u
      /\ r.isMistake = req.isMistake /\ r.times = n
  <2>1. req \in Request
    BY <1>1, ExecuteFacts
  <2>2. n \in Nat
    BY <1>3
  <2>3. err \in SUBSET AllMarks
    BY <1>6
  <2>4. u \in BOOLEAN
    BY <1>4
  <2>5. h \in BOOLEAN
    BY <1>4
  <2>6. "respond" \in Pcs
    BY DEF Pcs
  <2> QED
    BY <2>1, <2>2, <2>3, <2>4, <2>5, <2>6 DEF Request
<1> HIDE DEF r
<1>8. "NotCaughtUp" \notin Err({"OutcomeUnknown"})
  BY DEF Err
<1>9. Outcome(r)
  BY <1>1, <1>3, <1>6, <1>7, <1>8, ExecuteFacts DEF Outcome, IsFresh, Harmless, AboutWrite
<1> QED
  BY <1>1, <1>5, <1>7, <1>9, OutcomeStep

-----------------------------------------------------------------------------
(***************************************************************************)
(* What follows the command, and the query.                                *)
(***************************************************************************)
LEMMA LateFacts ==
    ASSUME Inv, req.pc \in {"wait", "adding"}
    PROVE  /\ req \in Request /\ Commands(wiring) /\ req.ran /\ req.err = nil
           /\ (req.written <=> req.isDecided) /\ ~req.isHopeless /\ ~req.isUnknown
           /\ ~req.isMistake /\ ~req.isForeign /\ req.method \notin {"GET", "HEAD", "OPTIONS"}
           /\ req.times = IF req.written THEN 1 ELSE 0
BY ReqTyped DEF PhaseInv, ForeignInv

LEMMA RespondStep ==
    ASSUME Inv, req.pc \in {"wait", "adding", "ask"}, Continue("respond")
    PROVE  Inv'
<1> DEFINE r == [req EXCEPT !.pc = "respond"]
<1>1. req' = r /\ UNCHANGED <<wiring, ctx, answer>>
  BY DEF Continue
<1>2. /\ r \in Request /\ r.pc = "respond" /\ r.isForeign = req.isForeign
      /\ r.method = req.method /\ r.err = req.err
      /\ r.ran = req.ran /\ r.isDecided = req.isDecided /\ r.written = req.written
      /\ r.isHopeless = req.isHopeless /\ r.isUnknown = req.isUnknown
      /\ r.isMistake = req.isMistake /\ r.times = req.times
  BY ReqTyped, ContinueFields DEF Pcs
<1> HIDE DEF r
<1>3. PhaseInv(wiring, r)
  BY <1>2, ReqTyped DEF PhaseInv
<1>4. ForeignInv(wiring, r)
  BY <1>2, ReqTyped DEF ForeignInv
<1>5. RespondInv(wiring, r)
  <2>1. r.err = {} /\ ~r.isHopeless /\ ~r.isUnknown /\ ~r.isMistake
        /\ (Commands(wiring) => r.ran /\ (r.written <=> r.isDecided))
    BY <1>2, ReqTyped DEF PhaseInv, IsFresh, nil
  <2> QED
    BY <2>1 DEF RespondInv, nil
<1> QED
  BY <1>1, <1>2, <1>3, <1>4, <1>5, RequestStep DEF RequestInv

LEMMA NotCaughtUpStep ==
    ASSUME Inv, req.pc = "wait", req.isDecided, NEW err \in SUBSET AllMarks, FailWith(err),
           "NotCaughtUp" \in err, "OutcomeUnknown" \notin err, "notRun" \notin err,
           err \cap FirstMarks = {}
    PROVE  Inv'
<1> DEFINE r == [req EXCEPT !.pc = "respond", !.err = err]
<1>1. req' = r /\ UNCHANGED <<wiring, ctx, answer>>
  BY DEF FailWith
<1>2. /\ r \in Request /\ r.pc = "respond" /\ r.isForeign = req.isForeign
      /\ r.method = req.method /\ r.err = err
      /\ r.ran = req.ran /\ r.isDecided = req.isDecided /\ r.written = req.written
      /\ r.isHopeless = req.isHopeless /\ r.isUnknown = req.isUnknown
      /\ r.isMistake = req.isMistake /\ r.times = req.times
  BY LateFacts, FailFields
<1> HIDE DEF r
<1>3. PhaseInv(wiring, r)
  BY <1>2, LateFacts DEF PhaseInv
<1>4. ForeignInv(wiring, r)
  BY <1>2, LateFacts DEF ForeignInv
<1>5. RespondInv(wiring, r)
  <2>1. err # nil
    BY DEF nil
  <2> QED
    BY <1>2, <2>1, LateFacts DEF RespondInv
<1> QED
  BY <1>1, <1>2, <1>3, <1>4, <1>5, RequestStep DEF RequestInv

LEMMA WaitForWrittenKeepsInv ==
    ASSUME Inv, WaitForWritten
    PROVE  Inv'
<1>1. req.pc = "wait"
  BY DEF WaitForWritten
<1>2. ASSUME req.isDecided, NEW err \in ViewErrors, FailWith({"NotCaughtUp"} \cup err)
      PROVE  Inv'
  <2>1. /\ {"NotCaughtUp"} \cup err \in SUBSET AllMarks
        /\ "OutcomeUnknown" \notin err /\ "notRun" \notin err /\ err \cap FirstMarks = {}
    BY DEF ViewErrors, Err, AllMarks, Marks, FirstMarks
  <2>2. "OutcomeUnknown" # "NotCaughtUp" /\ "notRun" # "NotCaughtUp" /\ "NotCaughtUp" \notin FirstMarks
    BY DEF FirstMarks
  <2> QED
    BY <1>1, <1>2, <2>1, <2>2, NotCaughtUpStep
<1>3. ASSUME req.isDecided, NEW marks \in {{"NotCaughtUp"}, {"NotCaughtUp", "Canceled"},
                                          {"NotCaughtUp", "DeadlineExceeded"}},
             FailWith(Err(marks))
      PROVE  Inv'
  <2>1. /\ Err(marks) \in SUBSET AllMarks /\ "NotCaughtUp" \in Err(marks)
        /\ "OutcomeUnknown" \notin Err(marks) /\ "notRun" \notin Err(marks)
        /\ Err(marks) \cap FirstMarks = {}
    BY DEF Err, AllMarks, Marks, FirstMarks
  <2> QED
    BY <1>1, <1>3, <2>1, NotCaughtUpStep
<1>4. ctx \in {"live", "Canceled", "DeadlineExceeded"}
  BY ReqTyped
<1> QED
  BY <1>1, <1>2, <1>3, <1>4, RespondStep DEF WaitForWritten

\* A function that completes the answer: its mistakes are answered as such, and
\* its failures do not make the command one.
LEMMA AddingStep ==
    ASSUME Inv, req.pc = "adding", NEW err, NEW m \in BOOLEAN,
           m => err \in {Err({}), panicked}, ~m => err = nil,
           req' = [req EXCEPT !.pc = "respond", !.err = err, !.isMistake = m],
           UNCHANGED <<wiring, ctx, answer>>
    PROVE  Inv'
<1> DEFINE r == [req EXCEPT !.pc = "respond", !.err = err, !.isMistake = m]
<1>1. err \in SUBSET AllMarks
  BY KnownHarmless DEF Harmless, nil
<1>2. /\ r \in Request /\ r.pc = "respond" /\ r.isForeign = req.isForeign
      /\ r.method = req.method /\ r.err = err
      /\ r.ran = req.ran /\ r.isDecided = req.isDecided /\ r.written = req.written
      /\ r.isHopeless = req.isHopeless /\ r.isUnknown = req.isUnknown
      /\ r.isMistake = m /\ r.times = req.times
  <2>1. req \in Request /\ "respond" \in Pcs
    BY ReqTyped DEF Pcs
  <2> QED
    BY <1>1, <2>1 DEF Request
<1>3. req' = r
  OBVIOUS
<1> HIDE DEF r
<1>4. PhaseInv(wiring, r)
  BY <1>2, LateFacts DEF PhaseInv
<1>5. ForeignInv(wiring, r)
  BY <1>2, LateFacts DEF ForeignInv
<1>6. RespondInv(wiring, r)
  <2>1. err = nil => ~m
    BY DEF Err, panicked, nil
  <2>2. "OutcomeUnknown" \notin err /\ "NotCaughtUp" \notin err
    BY DEF Err, panicked, nil
  <2> QED
    BY <1>2, <2>1, <2>2, LateFacts DEF RespondInv
<1> QED
  BY <1>2, <1>3, <1>4, <1>5, <1>6, RequestStep DEF RequestInv

LEMMA AddingKeepsInv ==
    ASSUME Inv, Adding
    PROVE  Inv'
<1>1. req.pc = "adding"
  BY DEF Adding
<1>2. CASE Continue("respond")
  BY <1>1, <1>2, RespondStep
<1>3. CASE Continue("aborted")
  BY <1>1, <1>3, AbortStep
<1>4. CASE /\ req' = [req EXCEPT !.pc = "respond", !.err = panicked, !.isMistake = TRUE]
           /\ UNCHANGED <<wiring, ctx, answer>>
  BY <1>1, <1>4, AddingStep
<1>5. ASSUME NEW value \in {"object", "null", "not an object", "revision", "unencodable", "panics"},
             NEW failure \in AppErrors \cup {nil},
             req' = [req EXCEPT !.pc = "respond", !.err = fieldsFor(value, failure),
                                !.isMistake = failure = nil /\ fieldsOf(value) # nil],
             UNCHANGED <<wiring, ctx, answer>>
      PROVE  Inv'
  <2> DEFINE m == failure = nil /\ fieldsOf(value) # nil
  <2>1. fieldsOf(value) \in {nil, panicked, Err({})}
    BY DEF fieldsOf
  <2>2. m \in BOOLEAN /\ (m => fieldsFor(value, failure) \in {Err({}), panicked})
        /\ (~m => fieldsFor(value, failure) = nil)
    BY <2>1 DEF fieldsFor
  <2>3. req' = [req EXCEPT !.pc = "respond", !.err = fieldsFor(value, failure), !.isMistake = m]
    BY <1>5
  <2> HIDE DEF m
  <2> QED
    BY <1>1, <1>5, <2>2, <2>3, AddingStep
<1> QED
  BY <1>2, <1>3, <1>4, <1>5 DEF Adding

LEMMA AskKeepsInv ==
    ASSUME Inv, Ask
    PROVE  Inv'
<1>1. req.pc = "ask" /\ req.pc \in Early
  BY DEF Ask, Early
<1> QED
  BY <1>1, RespondStep, FailStep, PanicStep, OwnErrorsHarmless DEF Ask

LEMMA NoStoreKeepsInv ==
    ASSUME Inv, NoStore
    PROVE  Inv'
BY FailStep, KnownHarmless DEF NoStore, Early

-----------------------------------------------------------------------------
(***************************************************************************)
(* The answer.                                                             *)
(***************************************************************************)
LEMMA NoErrorIsSuccess == StatusFor(nil) = 200
BY DEF StatusFor, StatusByRows

\* explain speaks of a write for a failure of the server alone, and not for an
\* error from before the command ran.
LEMMA ExplainIs ==
    ASSUME NEW status \in Nat, NEW err
    PROVE  /\ status = 500 /\ "notRun" \notin err /\ "OutcomeUnknown" \in err
                 <=> explain(status, err) = "may have succeeded"
           /\ status = 500 /\ "notRun" \notin err /\ "NotCaughtUp" \in err =>
                 explain(status, err) \in {"may have succeeded", "succeeded"}
           /\ explain(status, err) = "succeeded" => "notRun" \notin err /\ "NotCaughtUp" \in err
BY DEF explain, isBeforeRunning

LEMMA StatusIsNat ==
    ASSUME NEW err
    PROVE  StatusFor(err) \in Nat
<1>1. CASE err = nil
  BY <1>1, NoErrorIsSuccess
<1>2. CASE err # nil
  <2>1. \A i \in 1 .. 15 : Rows[i].status \in Nat
    <3>1. \A i \in 1 .. 15 : i \in 1 .. 7 \/ i = 8 \/ i = 9 \/ (i - 9 \in 1 .. 6 /\ i \in 10 .. 15)
      OBVIOUS
    <3>2. /\ \A i \in 1 .. 7 : FirstRows[i] \in RowType
          /\ RowsOfWrites[1] \in RowType /\ RowsOfWrites[2] \in RowType
          /\ \A i \in 1 .. 6 : RowsOfCategories[i] \in RowType
      <4>1. \A s \in Seq(RowType) : \A i \in 1 .. Len(s) : s[i] \in RowType
        BY ElementOfSeq
      <4>2. 1 \in 1 .. 2 /\ 2 \in 1 .. 2
        OBVIOUS
      <4> QED
        BY <4>1, <4>2, RowsTyped, Zenon
    <3>3. \A i \in 1 .. 15 : Rows[i] \in RowType
      BY <3>1, <3>2, RowsAre
    <3> QED
      BY <3>3 DEF RowType
  <2> QED
    BY <1>2, <2>1, StatusIs DEF Hits
<1> QED
  BY <1>1, <1>2

\* What is said of a request r that ends with the error err, which is that of
\* the request, or, of a query without one, that of encoding its result.
LEMMA AnswerFits ==
    ASSUME NEW w \in Wirings, NEW r \in Request, r.pc = "respond", PhaseInv(w, r), RespondInv(w, r),
           NEW err,
           r.err # nil => err = r.err,
           r.err = nil => err = nil \/ (~Commands(w) /\ err \in {Err({}), panicked})
    PROVE  LET status  == StatusFor(err)
               message == IF err = nil THEN "result" ELSE explain(StatusFor(err), err)
           IN  /\ status \in Retried => ~r.isUnknown /\ ~r.isHopeless /\ ~r.written
               /\ status = 200 /\ Commands(w) => r.ran /\ (r.written <=> r.isDecided)
               /\ message = "may have succeeded" <=> r.isUnknown
               /\ message = "succeeded" => r.ran /\ r.written
               /\ r.written => \/ message \in {"result", "succeeded", "may have succeeded"}
                               \/ r.isMistake
<1> DEFINE status  == StatusFor(err)
           message == IF err = nil THEN "result" ELSE explain(StatusFor(err), err)
<1>1. r.written => r.ran /\ Commands(w)
  BY DEF PhaseInv
<1>2. r.isUnknown => err = Err({"OutcomeUnknown"})
  <2>1. r.isUnknown => r.err # nil
    BY DEF RespondInv
  <2> QED
    BY <2>1 DEF RespondInv
<1>3. r.isHopeless => err = Err({"Permanent"})
  <2>1. r.isHopeless => r.err # nil
    BY DEF RespondInv
  <2> QED
    BY <2>1 DEF RespondInv
<1>4. r.isMistake => err \in {Err({}), panicked}
  <2>1. r.isMistake => r.err # nil
    BY DEF RespondInv
  <2> QED
    BY <2>1 DEF RespondInv
<1>5. /\ "OutcomeUnknown" \in err /\ "notRun" \notin err => r.isUnknown
      /\ "NotCaughtUp" \in err /\ "notRun" \notin err => r.written
  <2>1. r.err = nil => AboutWrite \cap err = {}
    BY DEF nil, Err, panicked, AboutWrite
  <2> QED
    BY <2>1 DEF RespondInv, AboutWrite
<1>6. r.written => \/ err = nil \/ r.isUnknown \/ r.isMistake
                   \/ "NotCaughtUp" \in err /\ "notRun" \notin err /\ err \cap FirstMarks = {}
  BY <1>1 DEF RespondInv
<1>7. r.isUnknown => err # nil /\ "notRun" \notin err /\ "OutcomeUnknown" \in err /\ status = 500
  <2>1. LET e == Err({"OutcomeUnknown"})
        IN  /\ e # nil /\ "notRun" \notin e /\ "OutcomeUnknown" \in e
            /\ AboutWrite \cap e # {} /\ FirstMarks \cap e = {}
    BY DEF Err, nil, AboutWrite, FirstMarks
  <2> QED
    BY <1>2, <2>1, WriteIsInternal
<1>8. 500 \notin Retried /\ 200 \notin Retried
  BY DEF Retried
<1>9. status \in Retried => ~r.isUnknown /\ ~r.isHopeless /\ ~r.written
  <2> SUFFICES ASSUME status \in Retried
               PROVE  ~r.isUnknown /\ ~r.isHopeless /\ ~r.written
    OBVIOUS
  <2>1. err # nil
    BY <1>8, NoErrorIsSuccess
  <2>2. AboutWrite \cap err = {}
    BY <2>1, RetriedIsNotWritten
  <2>3. ~r.isUnknown /\ ~r.isHopeless /\ ~r.isMistake
    BY <1>3, <1>4, <1>7, <1>8, OthersAreInternal
  <2> QED
    BY <1>6, <2>1, <2>2, <2>3 DEF AboutWrite
<1>10. status = 200 /\ Commands(w) => r.ran /\ (r.written <=> r.isDecided)
  <2>1. status = 200 => err = nil
    BY ErrorIsNoSuccess
  <2>2. err = nil => r.err = nil
    OBVIOUS
  <2> QED
    BY <2>1, <2>2 DEF RespondInv
<1>11. /\ err # nil /\ status = 500 /\ "notRun" \notin err /\ "OutcomeUnknown" \in err
             <=> message = "may have succeeded"
       /\ err # nil /\ status = 500 /\ "notRun" \notin err /\ "NotCaughtUp" \in err =>
             message \in {"may have succeeded", "succeeded"}
       /\ message = "succeeded" => "notRun" \notin err /\ "NotCaughtUp" \in err
  <2>1. status \in Nat
    BY StatusIsNat
  <2> HIDE DEF status
  <2>2. message = IF err = nil THEN "result" ELSE explain(status, err)
    BY DEF status
  <2> HIDE DEF message
  <2>3. err # nil => message = explain(status, err)
    BY <2>2
  <2>4. err = nil => message = "result"
    BY <2>2
  <2>5. /\ status = 500 /\ "notRun" \notin err /\ "OutcomeUnknown" \in err
              <=> explain(status, err) = "may have succeeded"
        /\ status = 500 /\ "notRun" \notin err /\ "NotCaughtUp" \in err =>
              explain(status, err) \in {"may have succeeded", "succeeded"}
        /\ explain(status, err) = "succeeded" => "notRun" \notin err /\ "NotCaughtUp" \in err
    BY <2>1, ExplainIs, Zenon
  <2> QED
    BY <2>3, <2>4, <2>5
<1>12. message = "may have succeeded" <=> r.isUnknown
  BY <1>5, <1>7, <1>11
<1>13. message = "succeeded" => r.ran /\ r.written
  BY <1>1, <1>5, <1>11
<1>14. r.written => message \in {"result", "succeeded", "may have succeeded"} \/ r.isMistake
  <2>1. err = nil => message = "result"
    OBVIOUS
  <2>2. "NotCaughtUp" \in err /\ err \cap FirstMarks = {} => err # nil /\ status = 500
    BY WriteIsInternal DEF AboutWrite, nil
  <2> HIDE DEF status, message
  <2> QED
    BY <1>6, <1>11, <1>12, <2>1, <2>2
<1> QED
  BY <1>9, <1>10, <1>12, <1>13, <1>14

LEMMA AnsweredFields ==
    ASSUME NEW r \in Request
    PROVE  LET q == [r EXCEPT !.pc = "answered", !.err = nil]
           IN  /\ q \in Request /\ q.pc = "answered" /\ q.isForeign = r.isForeign
               /\ q.method = r.method
               /\ q.ran = r.ran /\ q.isDecided = r.isDecided /\ q.written = r.written
               /\ q.isHopeless = r.isHopeless /\ q.isUnknown = r.isUnknown
               /\ q.isMistake = r.isMistake /\ q.times = r.times
<1>1. "answered" \in Pcs /\ nil \in SUBSET AllMarks
  BY DEF Pcs, nil
<1> QED
  BY <1>1 DEF Request

LEMMA respondResultKeepsInv ==
    ASSUME Inv, respondResult
    PROVE  Inv'
<1> DEFINE r == [req EXCEPT !.pc = "answered", !.err = nil]
<1>1. req.pc = "respond" /\ req' = r /\ UNCHANGED <<wiring, ctx>>
  BY DEF respondResult
<1>2. PICK encoding \in encodeResult :
         LET err == IF req.err # nil THEN req.err ELSE encoding
         IN  answer' = [status |-> StatusFor(err),
                        message |-> IF err = nil THEN "result" ELSE explain(StatusFor(err), err)]
  BY DEF respondResult
<1> DEFINE err == IF req.err # nil THEN req.err ELSE encoding
<1>3. /\ req.err # nil => err = req.err
      /\ req.err = nil => err = nil \/ (~Commands(wiring) /\ err \in {Err({}), panicked})
  <2>1. encoding = nil \/ (wiring.kind = "Query" /\ encoding \in {Err({}), panicked})
    BY DEF encodeResult
  <2>2. wiring.kind = "Query" => ~Commands(wiring)
    BY DEF Commands
  <2> QED
    BY <2>1, <2>2
<1>4. /\ answer'.status = StatusFor(err)
      /\ answer'.message = IF err = nil THEN "result" ELSE explain(StatusFor(err), err)
  BY <1>2
<1>5. /\ r \in Request /\ r.pc = "answered" /\ r.isForeign = req.isForeign
      /\ r.method = req.method
      /\ r.ran = req.ran /\ r.isDecided = req.isDecided /\ r.written = req.written
      /\ r.isHopeless = req.isHopeless /\ r.isUnknown = req.isUnknown
      /\ r.isMistake = req.isMistake /\ r.times = req.times
  BY ReqTyped, AnsweredFields, Zenon
<1> HIDE DEF r, err
<1>6. RequestInv(wiring, r)
  <2>1. PhaseInv(wiring, r)
    BY <1>5, ReqTyped DEF PhaseInv
  <2>2. ForeignInv(wiring, r)
    BY <1>1, <1>5, ReqTyped DEF ForeignInv
  <2>3. RespondInv(wiring, r)
    BY <1>5 DEF RespondInv
  <2> QED
    BY <2>1, <2>2, <2>3 DEF RequestInv
<1>7. ASSUME NEW a, a.status = StatusFor(err),
             a.message = IF err = nil THEN "result" ELSE explain(StatusFor(err), err)
      PROVE  AnswerInv(wiring, r, a)
  <2> DEFINE status  == StatusFor(err)
             message == IF err = nil THEN "result" ELSE explain(StatusFor(err), err)
  <2>1. /\ status \in Retried => ~req.isUnknown /\ ~req.isHopeless /\ ~req.written
        /\ status = 200 /\ Commands(wiring) => req.ran /\ (req.written <=> req.isDecided)
        /\ message = "may have succeeded" <=> req.isUnknown
        /\ message = "succeeded" => req.ran /\ req.written
        /\ req.written => \/ message \in {"result", "succeeded", "may have succeeded"}
                          \/ req.isMistake
    BY <1>1, <1>3, ReqTyped, AnswerFits, Zenon
  <2>2. a.status = status /\ a.message = message
    BY <1>7
  <2> HIDE DEF status, message
  <2> QED
    BY <1>5, <2>1, <2>2 DEF AnswerInv
<1>8. AnswerInv(wiring, r, answer')
  BY <1>4, <1>7
<1> QED
  BY <1>1, <1>5, <1>6, <1>8, ReqTyped DEF Inv, TypeOK

\* A caller that is invited to try again has nothing stored.
LEMMA TryAgainKeepsInv ==
    ASSUME Inv, TryAgain
    PROVE  Inv'
<1> DEFINE r == [NoRequest EXCEPT !.pc = "user", !.isForeign = req.isForeign, !.method = req.method,
                                  !.times = req.times]
<1>1. /\ req.pc = "answered" /\ answer.status \in Retried /\ req' = r /\ ctx' = "live"
      /\ wiring' = wiring
  BY DEF TryAgain, Retried
<1>2. ~req.written /\ req.times = 0
  BY <1>1, ReqTyped DEF Inv, AnswerInv, PhaseInv
<1>3. /\ r \in Request /\ r.pc = "user" /\ r.isForeign = req.isForeign
      /\ r.method = req.method /\ r.times = 0
      /\ IsFresh(r)
  <2>1. req.isForeign \in BOOLEAN /\ req.method \in Methods
    BY ReqTyped DEF Request
  <2>2. nil \in SUBSET AllMarks /\ "user" \in Pcs
    BY DEF nil, Pcs
  <2>3. /\ r.pc = "user" /\ r.isForeign = req.isForeign
        /\ r.method = req.method /\ r.times = req.times /\ r.err = nil
        /\ r.ran = FALSE /\ r.isDecided = FALSE /\ r.written = FALSE /\ r.isHopeless = FALSE
        /\ r.isUnknown = FALSE /\ r.isMistake = FALSE
    BY DEF NoRequest
  <2>4. r \in Request
    <3>1. NoRequest \in Request
      BY <2>2 DEF NoRequest, Request, Pcs, Methods
    <3>2. ASSUME NEW q \in Request, NEW b \in BOOLEAN, NEW m \in Methods, NEW n \in Nat
          PROVE  [q EXCEPT !.pc = "user", !.isForeign = b, !.method = m, !.times = n] \in Request
      BY <2>2 DEF Request
    <3>3. req.times \in Nat
      BY <1>2
    <3> QED
      BY <2>1, <3>1, <3>2, <3>3, Zenon
  <2> QED
    BY <1>2, <2>3, <2>4 DEF IsFresh
<1> HIDE DEF r
<1>4. RequestInv(wiring, r)
  <2>1. PhaseInv(wiring, r)
    BY <1>3 DEF PhaseInv, IsFresh
  <2>2. ForeignInv(wiring, r)
    BY <1>1, <1>3, ReqTyped DEF ForeignInv, IsFresh
  <2>3. RespondInv(wiring, r)
    BY <1>3 DEF RespondInv
  <2> QED
    BY <2>1, <2>2, <2>3 DEF RequestInv
<1>5. AnswerInv(wiring, r, answer')
  BY <1>3 DEF AnswerInv
<1> QED
  BY <1>1, <1>3, <1>4, <1>5, ReqTyped DEF Inv, TypeOK

-----------------------------------------------------------------------------
(***************************************************************************)
(* The theorems.                                                           *)
(***************************************************************************)
LEMMA StepKeepsInv ==
    ASSUME Inv, [Next]_vars
    PROVE  Inv'
<1>1. CASE UNCHANGED vars
  BY <1>1 DEF vars, Inv, TypeOK
<1>2. CASE Wire \/ Receive \/ EndContext
  BY <1>2, WireKeepsInv, ReceiveKeepsInv, EndContextKeepsInv
<1>3. CASE UserOf \/ BodyOf \/ Convert
  BY <1>3, UserOfKeepsInv, BodyOfKeepsInv, ConvertKeepsInv
<1>4. CASE Execute
  BY <1>4, NoStoreKeepsInv, ExecuteFailsKeepsInv, ExecuteDecidesNothingKeepsInv,
     ExecuteWritesKeepsInv, ExecuteWriteFailsKeepsInv DEF Execute
<1>5. CASE WaitForWritten \/ Adding \/ Ask
  BY <1>5, WaitForWrittenKeepsInv, AddingKeepsInv, AskKeepsInv
<1>6. CASE respondResult \/ TryAgain
  BY <1>6, respondResultKeepsInv, TryAgainKeepsInv
<1> QED
  BY <1>1, <1>2, <1>3, <1>4, <1>5, <1>6 DEF Next

\* The invariant holds from wiring a route to the answer, and through every
\* repetition of the request: what the error of a request may hold agrees with
\* what has happened to the command (Handle, Respond, WaitForWritten, Ask).
THEOREM HttpApiInv == Spec => []Inv
<1>1. Init => Inv
  BY InvInit
<1>2. Inv /\ [Next]_vars => Inv'
  BY StepKeepsInv
<1> QED
  BY <1>1, <1>2, PTL DEF Spec

\* What the caller of a command is told is true, whatever errors the functions
\* of the application return and whatever the database answers: the order of
\* StatusFor, the marks of beforeRunning, the messages of explain and the
\* failures that withoutContextEnd hides make it so that a status that invites a
\* repetition never stores events twice, and "may have succeeded" and
\* "succeeded" are said of nothing else than a write.
THEOREM AnswersAreTrue == Spec => []AnswerIsTrue
<1>1. Inv => AnswerIsTrue
  BY InvImplies
<1> QED
  BY <1>1, HttpApiInv, PTL

\* A request that a browser sends for another site never runs a command: Route
\* panics for the methods that the check of the origin lets pass, and a body is
\* taken as JSON alone (Route, requireJSON, requireNoBody).
THEOREM NoForeignCommands == Spec => []NoForeignCommand
<1>1. Inv => NoForeignCommand
  BY InvImplies
<1> QED
  BY <1>1, HttpApiInv, PTL
=============================================================================
