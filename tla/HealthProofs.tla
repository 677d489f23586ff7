---------------------------- MODULE HealthProofs ----------------------------
(***************************************************************************)
(* What WaitCaughtUp and the health handlers answer is true, for every     *)
(* number of runs, although both look at one run after the other while the *)
(* runs go on.  The argument is the same for both: what makes a run count  *)
(* never changes back, so what was seen of the runs before still holds     *)
(* when the last one has been looked at.                                   *)
(***************************************************************************)
EXTENDS Health, TLAPS

\* What the verdict knows of the runs it has looked at.
LookInv ==
    /\ ~behind => \A r \in Runs : r < next => r \in hasCaughtUp
    /\ stopped # 0 => stopped \notin hasCaughtUp /\ stoppedWith[stopped] = "nil"
    /\ \A f \in hadFailed : f \notin hasCaughtUp /\ stoppedWith[f] = "error"
    /\ pc = "look" /\ next > 1 => \A f \in hadFailed : f >= next
    /\ pc = "select" => next = 1
    /\ result.kind \in {"error", "stopped"} => result.run \in Runs

Kinds == {"none", "Readiness", "Liveness"}
Codes == {0, 200, 503}
Probe == [kind : Kinds, next : 0 .. N + 1, isHealthyOverall : BOOLEAN,
          code : Codes, hadStopped : BOOLEAN,
          hadCaughtUp : BOOLEAN, wasAnnounced : BOOLEAN]

\* What a handler knows of the runs it has looked at.
ProbeInv ==
    /\ probe \in Probe
    /\ probe.hadCaughtUp \/ probe.wasAnnounced => hasCaughtUp = Runs
    /\ probe.hadStopped /\ probe.isHealthyOverall =>
          \E r \in HasStopped : r >= probe.next
    /\ probe.kind = "Readiness" /\ probe.isHealthyOverall =>
          \A r \in Runs : r < probe.next => r \in hasCaughtUp
    /\ ~probe.isHealthyOverall =>
          \/ HasStopped # {}
          \/ probe.kind = "Readiness" /\ ~probe.wasAnnounced /\ ~probe.hadCaughtUp

Inv == TypeOK /\ LookInv /\ VerdictIsTrue /\ ProbeInv

-----------------------------------------------------------------------------
(***************************************************************************)
(* Types.                                                                  *)
(***************************************************************************)

LEMMA TypeInit == Init => TypeOK
<1> SUFFICES ASSUME Init PROVE TypeOK
  OBVIOUS
<1>1. /\ stoppedWith \in [Runs -> {"running", "nil", "error"}]
      /\ helper \in [Runs -> {"select", "send", "ended"}]
  BY DEF Init
<1>2. result \in [kind : {"none", "nil", "error", "context", "stopped"}, run : 0 .. N]
  BY WaitAssumption DEF Init
<1>3. settled \in 0 .. N /\ next \in 1 .. N + 1 /\ stopped \in 0 .. N
  BY WaitAssumption DEF Init
<1> QED
  BY <1>1, <1>2, <1>3, Zenon DEF Init, TypeOK

LEMMA TypeStep == TypeOK /\ [Next]_vars => TypeOK'
<1> SUFFICES ASSUME TypeOK, [Next]_vars PROVE TypeOK'
  OBVIOUS
<1>1. ASSUME NEW r \in Runs, CatchUp(r) PROVE TypeOK'
  BY <1>1 DEF CatchUp, TypeOK, verdict
<1>2. ASSUME NEW r \in Runs, StopRun(r) PROVE TypeOK'
  <2>1. stoppedWith' \in [Runs -> {"running", "nil", "error"}]
    BY <1>2 DEF StopRun, TypeOK
  <2> QED
    BY <1>2, <2>1 DEF StopRun, TypeOK, verdict
<1>3. ASSUME NEW r \in Runs, Closing(r) PROVE TypeOK'
  BY <1>3 DEF Closing, CloseCaughtUp, CloseDone, TypeOK, verdict
<1>4. ASSUME NEW r \in Runs, HelperWakes(r) PROVE TypeOK'
  <2>1. helper' \in [Runs -> {"select", "send", "ended"}]
    BY <1>4 DEF HelperWakes, TypeOK
  <2> QED
    BY <1>4, <2>1 DEF HelperWakes, TypeOK, runs, verdict
<1>5. ASSUME NEW r \in Runs, HelperSends(r) PROVE TypeOK'
  <2>1. helper' \in [Runs -> {"select", "send", "ended"}]
    BY <1>5 DEF HelperSends, TypeOK
  <2>2. settled' \in 0 .. N
    BY <1>5, WaitAssumption DEF HelperSends, TypeOK
  <2> QED
    BY <1>5, <2>1, <2>2 DEF HelperSends, TypeOK, runs, verdict
<1>6. CASE EndContext
  BY <1>6 DEF EndContext, TypeOK, runs, verdict
<1>7. CASE Look
  <2>1. hadFailed' \subseteq Runs
    BY <1>7 DEF Look, TypeOK, Failed
  <2>2. next \in 1 .. N /\ next \in 0 .. N /\ next + 1 \in 1 .. N + 1
    BY <1>7, WaitAssumption DEF Look, Runs
  <2>3. CASE Returns("error", next)
    <3>1. result' \in [kind : {"none", "nil", "error", "context", "stopped"}, run : 0 .. N]
      BY <2>2, <2>3 DEF Returns
    <3> QED
      BY <1>7, <2>1, <2>3, <3>1 DEF Look, Returns, TypeOK, runs
  <2>4. CASE ~Returns("error", next)
    <3>1. /\ behind' = (behind \/ next \notin hasCaughtUp)
          /\ stopped' = IF next \notin hasCaughtUp /\ stoppedWith[next] = "nil" /\ stopped = 0
                        THEN next ELSE stopped
          /\ next' = next + 1
          /\ UNCHANGED <<pc, result>>
      BY <1>7, <2>4 DEF Look
    <3>2. behind' \in BOOLEAN
      BY <3>1
    <3>3. stopped' \in 0 .. N
      BY <2>2, <3>1 DEF TypeOK
    <3> QED
      BY <1>7, <2>1, <2>2, <3>1, <3>2, <3>3, Zenon DEF Look, TypeOK, runs
  <2> QED
    BY <2>3, <2>4
<1>8. CASE Decide
  <2>1. 0 \in 0 .. N /\ 1 \in 1 .. N + 1 /\ stopped \in 0 .. N
    BY WaitAssumption DEF TypeOK
  <2>2. CASE pc' = "select"
    <3>1. next' = 1 /\ behind' = FALSE /\ stopped' = 0 /\ UNCHANGED result
      BY <1>8, <2>2 DEF Decide, Returns
    <3> QED
      BY <1>8, <2>1, <2>2, <3>1 DEF Decide, TypeOK, runs
  <2>3. CASE pc' # "select"
    <3>1. Returns("nil", 0) \/ Returns("context", 0) \/ Returns("stopped", stopped)
      BY <1>8, <2>3 DEF Decide
    <3>2. result' \in [kind : {"none", "nil", "error", "context", "stopped"}, run : 0 .. N]
      BY <2>1, <3>1 DEF Returns
    <3>3. pc' = "returned" /\ UNCHANGED <<next, behind, stopped>>
      BY <3>1 DEF Returns
    <3> QED
      BY <1>8, <3>2, <3>3 DEF Decide, TypeOK, runs
  <2> QED
    BY <2>2, <2>3
<1>9. CASE Wake
  <2>1. settled' \in 0 .. N
    BY <1>9, WaitAssumption DEF Wake, TypeOK
  <2> QED
    BY <1>9, <2>1 DEF Wake, TypeOK, runs, verdict
<1>10. CASE UNCHANGED vars
  BY <1>10 DEF vars, TypeOK
<1> QED
  BY <1>1, <1>2, <1>3, <1>4, <1>5, <1>6, <1>7, <1>8, <1>9, <1>10
  DEF Next, Helper, Waiter

-----------------------------------------------------------------------------
(***************************************************************************)
(* The runs only move onward: a run that has caught up stays so, and one   *)
(* that has stopped neither catches up nor changes what it stopped with.   *)
(***************************************************************************)
Onward ==
    /\ hasCaughtUp \subseteq hasCaughtUp' /\ hasCaughtUp' \subseteq Runs
    /\ \A r \in Runs : stoppedWith[r] # "running" =>
          /\ stoppedWith'[r] = stoppedWith[r]
          /\ r \notin hasCaughtUp => r \notin hasCaughtUp'
    /\ ctxEnded => ctxEnded'

LEMMA StepsOnward == TypeOK /\ [Next]_vars => Onward
<1> SUFFICES ASSUME TypeOK, [Next]_vars PROVE Onward
  OBVIOUS
<1>1. ASSUME NEW r \in Runs, CatchUp(r) PROVE Onward
  BY <1>1 DEF CatchUp, TypeOK, Onward
<1>2. ASSUME NEW r \in Runs, StopRun(r) PROVE Onward
  BY <1>2 DEF StopRun, TypeOK, Onward
<1>3. CASE UNCHANGED <<hasCaughtUp, stoppedWith>> /\ (ctxEnded => ctxEnded')
  BY <1>3 DEF Onward, TypeOK
<1>4. ASSUME NEW r \in Runs, Closing(r) \/ Helper(r) PROVE Onward
  BY <1>3, <1>4 DEF Closing, CloseCaughtUp, CloseDone, Helper, HelperWakes, HelperSends, runs
<1>5. CASE EndContext \/ Waiter \/ UNCHANGED vars
  BY <1>3, <1>5 DEF EndContext, Waiter, Look, Decide, Wake, runs, vars
<1> QED
  BY <1>1, <1>2, <1>4, <1>5 DEF Next

\* What was seen of the runs, and what was answered, stays true as they move on.
LEMMA OnwardKeepsVerdict ==
    ASSUME TypeOK, LookInv, VerdictIsTrue, Onward, UNCHANGED <<verdict, pc>>
    PROVE  LookInv' /\ VerdictIsTrue'
<1>1. UNCHANGED <<next, behind, stopped, result, hadFailed, pc>>
  BY DEF verdict
<1>2. stopped # 0 => stopped \in Runs
  BY WaitAssumption DEF TypeOK, Runs
<1>3. LookInv'
  BY <1>1, <1>2 DEF LookInv, Onward, TypeOK
<1>4. result.kind \in {"error", "stopped"} => result.run \in Runs
  BY DEF LookInv
<1>5. VerdictIsTrue'
  <2>1. CASE result.kind = "nil"
    BY <1>1, <2>1 DEF VerdictIsTrue, Onward, TypeOK
  <2>2. CASE result.kind = "error"
    BY <1>1, <1>4, <2>2 DEF VerdictIsTrue, Onward
  <2>3. CASE result.kind = "stopped"
    BY <1>1, <1>4, <2>3 DEF VerdictIsTrue, Onward
  <2>4. CASE result.kind = "context"
    BY <1>1, <2>4 DEF VerdictIsTrue, Onward
  <2>5. CASE result.kind \notin {"nil", "error", "stopped", "context"}
    BY <1>1, <2>5 DEF VerdictIsTrue
  <2> QED
    BY <2>1, <2>2, <2>3, <2>4, <2>5
<1> QED
  BY <1>3, <1>5

-----------------------------------------------------------------------------
(***************************************************************************)
(* The verdict.                                                            *)
(***************************************************************************)

LEMMA LookKeepsVerdict ==
    ASSUME TypeOK, LookInv, VerdictIsTrue, Look
    PROVE  LookInv' /\ VerdictIsTrue'
<1>1. /\ pc = "look" /\ next \in Runs /\ next \in Nat /\ next >= 1
      /\ UNCHANGED <<hasCaughtUp, stoppedWith, ctxEnded>>
  BY WaitAssumption DEF Look, runs, Runs
<1>2. \A f \in hadFailed' : f \in Runs /\ f \notin hasCaughtUp /\ stoppedWith[f] = "error"
  BY DEF Look, Failed, LookInv, TypeOK
<1>3. \A f \in hadFailed' : f \in Nat /\ f >= next
  <2>1. CASE next = 1
    BY <1>2, <2>1, WaitAssumption DEF Runs
  <2>2. CASE next # 1
    BY <1>1, <1>2, <2>2 DEF Look, LookInv, Runs
  <2> QED
    BY <2>1, <2>2
<1>4. CASE next \notin hasCaughtUp /\ stoppedWith[next] = "error"
  <2>1. /\ pc' = "returned" /\ result' = [kind |-> "error", run |-> next]
        /\ UNCHANGED <<next, behind, stopped>>
    BY <1>4 DEF Look, Returns
  <2>2. result'.kind = "error" /\ result'.run = next
    BY <2>1
  <2>3. LookInv'
    BY <1>1, <1>2, <2>1, <2>2 DEF LookInv
  <2>4. VerdictIsTrue'
    BY <1>1, <1>3, <1>4, <2>1, <2>2 DEF VerdictIsTrue
  <2> QED
    BY <2>3, <2>4
<1>5. CASE ~(next \notin hasCaughtUp /\ stoppedWith[next] = "error")
  <2>1. /\ behind' = (behind \/ next \notin hasCaughtUp)
        /\ stopped' = IF next \notin hasCaughtUp /\ stoppedWith[next] = "nil" /\ stopped = 0
                      THEN next ELSE stopped
        /\ next' = next + 1
        /\ UNCHANGED <<pc, result>>
    BY <1>5 DEF Look
  <2>2. \A f \in hadFailed' : f >= next'
    <3>1. ASSUME NEW f \in hadFailed' PROVE f # next
      BY <1>2, <1>5
    <3> QED
      BY <1>1, <1>3, <2>1, <3>1
  <2>3. ~behind' => \A r \in Runs : r < next' => r \in hasCaughtUp'
    <3>1. \A r \in Runs : r < next' => r = next \/ r < next
      BY <1>1, <2>1, WaitAssumption DEF Runs
    <3> QED
      BY <1>1, <2>1, <3>1 DEF LookInv
  <2>4. stopped' # 0 => stopped' \notin hasCaughtUp' /\ stoppedWith'[stopped'] = "nil"
    BY <1>1, <2>1 DEF LookInv
  <2>5. LookInv'
    BY <1>1, <1>2, <2>1, <2>2, <2>3, <2>4 DEF LookInv
  <2>6. VerdictIsTrue'
    BY <1>1, <2>1 DEF VerdictIsTrue
  <2> QED
    BY <2>5, <2>6
<1> QED
  BY <1>4, <1>5

LEMMA DecideKeepsVerdict ==
    ASSUME TypeOK, LookInv, VerdictIsTrue, Decide
    PROVE  LookInv' /\ VerdictIsTrue'
<1>1. /\ pc = "look" /\ next = N + 1
      /\ UNCHANGED <<hadFailed, hasCaughtUp, stoppedWith, ctxEnded>>
  BY DEF Decide, runs
<1>2. hadFailed = {}
  <2>1. ASSUME NEW f \in hadFailed PROVE FALSE
    <3>1. f \in 1 .. N
      BY DEF TypeOK, Runs
    <3>2. next > 1
      BY <1>1, <3>1, WaitAssumption
    <3>3. f >= N + 1
      BY <1>1, <3>2 DEF LookInv
    <3> QED
      BY <3>1, <3>3, WaitAssumption
  <2> QED
    BY <2>1
<1>3. CASE pc' = "select"
  <2>1. next' = 1 /\ behind' = FALSE /\ stopped' = 0 /\ UNCHANGED result
    BY <1>3 DEF Decide, Returns
  <2>2. \A r \in Runs : ~(r < 1)
    BY WaitAssumption DEF Runs
  <2>3. LookInv'
    BY <1>1, <1>2, <1>3, <2>1, <2>2 DEF LookInv
  <2>4. VerdictIsTrue'
    BY <1>1, <1>3, <2>1 DEF VerdictIsTrue
  <2> QED
    BY <2>3, <2>4
<1>4. CASE pc' # "select"
  <2>1. \/ ~behind /\ Returns("nil", 0)
        \/ ctxEnded /\ Returns("context", 0)
        \/ stopped # 0 /\ Returns("stopped", stopped)
    BY <1>4 DEF Decide
  <2>2. pc' = "returned" /\ UNCHANGED <<next, behind, stopped>>
    BY <2>1 DEF Returns
  <2>3. CASE ~behind /\ Returns("nil", 0)
    <3>1. result'.kind = "nil"
      BY <2>3 DEF Returns
    <3>2. hasCaughtUp = Runs
      <4>1. \A r \in Runs : r < next
        BY <1>1, WaitAssumption DEF Runs
      <4> QED
        BY <2>3, <4>1 DEF LookInv, TypeOK
    <3> QED
      BY <1>1, <1>2, <2>2, <3>1, <3>2 DEF LookInv, VerdictIsTrue
  <2>4. CASE ctxEnded /\ Returns("context", 0)
    <3>1. result'.kind = "context"
      BY <2>4 DEF Returns
    <3> QED
      BY <1>1, <1>2, <2>2, <2>4, <3>1 DEF LookInv, VerdictIsTrue
  <2>5. CASE stopped # 0 /\ Returns("stopped", stopped)
    <3>1. result'.kind = "stopped" /\ result'.run = stopped
      BY <2>5 DEF Returns
    <3>2. stopped \in Runs
      BY <2>5, WaitAssumption DEF TypeOK, Runs
    <3> QED
      BY <1>1, <1>2, <2>2, <2>5, <3>1, <3>2 DEF LookInv, VerdictIsTrue
  <2> QED
    BY <2>1, <2>3, <2>4, <2>5
<1> QED
  BY <1>3, <1>4

LEMMA WakeKeepsVerdict ==
    ASSUME TypeOK, LookInv, VerdictIsTrue, Wake
    PROVE  LookInv' /\ VerdictIsTrue'
<1>1. /\ pc = "select" /\ pc' = "look"
      /\ UNCHANGED <<hasCaughtUp, stoppedWith, ctxEnded, next, behind, stopped, result, hadFailed>>
  BY DEF Wake, runs, verdict
<1>2. LookInv'
  BY <1>1 DEF LookInv
<1>3. VerdictIsTrue'
  BY <1>1 DEF VerdictIsTrue
<1> QED
  BY <1>2, <1>3

LEMMA NextKeepsVerdict ==
    ASSUME TypeOK, LookInv, VerdictIsTrue, [Next]_vars
    PROVE  LookInv' /\ VerdictIsTrue'
<1>1. Onward
  BY StepsOnward
<1>2. CASE UNCHANGED <<verdict, pc>>
  BY <1>1, <1>2, OnwardKeepsVerdict
<1>3. ASSUME NEW r \in Runs, CatchUp(r) \/ StopRun(r) \/ Closing(r) \/ Helper(r)
      PROVE  UNCHANGED <<verdict, pc>>
  BY <1>3 DEF CatchUp, StopRun, Closing, CloseCaughtUp, CloseDone, Helper, HelperWakes,
              HelperSends, verdict
<1>4. CASE EndContext \/ UNCHANGED vars
  BY <1>2, <1>4 DEF EndContext, vars, verdict
<1>5. CASE Waiter
  BY <1>5, LookKeepsVerdict, DecideKeepsVerdict, WakeKeepsVerdict DEF Waiter
<1> QED
  BY <1>2, <1>3, <1>4, <1>5 DEF Next

-----------------------------------------------------------------------------
(***************************************************************************)
(* The handlers.                                                           *)
(***************************************************************************)

LEMMA StoppedStays ==
    ASSUME TypeOK, Onward
    PROVE  \A r \in HasStopped : r \in HasStopped'
BY DEF HasStopped, Onward

LEMMA OnwardKeepsProbe ==
    ASSUME TypeOK, ProbeInv, Onward, UNCHANGED probe
    PROVE  ProbeInv'
<1>1. \A r \in HasStopped : r \in HasStopped'
  BY StoppedStays
<1>2. hasCaughtUp = Runs => hasCaughtUp' = Runs
  BY DEF Onward
<1>3. \A r \in Runs : r \in hasCaughtUp => r \in hasCaughtUp'
  BY DEF Onward
<1>4. HasStopped # {} => HasStopped' # {}
  BY <1>1
<1>5. probe.hadStopped /\ probe.isHealthyOverall => \E r \in HasStopped' : r >= probe.next
  BY <1>1 DEF ProbeInv
<1>6. probe.kind = "Readiness" /\ probe.isHealthyOverall =>
        \A r \in Runs : r < probe.next => r \in hasCaughtUp'
  BY <1>3 DEF ProbeInv
<1> QED
  BY <1>2, <1>4, <1>5, <1>6 DEF ProbeInv

LEMMA RequestKeepsProbe ==
    ASSUME TypeOK, VerdictIsTrue, ProbeInv, HealthRequest
    PROVE  ProbeInv'
<1>1. PICK kind \in {"Readiness", "Liveness"} : probe' = Request(kind)
  BY DEF HealthRequest
<1>2. UNCHANGED <<hasCaughtUp, stoppedWith, pc, result>>
  BY DEF HealthRequest, vars
<1>3. HasStopped' = HasStopped
  BY <1>2 DEF HasStopped
<1>4. /\ probe'.kind = kind /\ probe'.next = 1 /\ probe'.isHealthyOverall = TRUE
      /\ probe'.hadStopped = (HasStopped # {})
      /\ probe'.hadCaughtUp = (hasCaughtUp = Runs)
      /\ probe'.wasAnnounced = (pc = "returned" /\ result.kind = "nil")
  BY <1>1 DEF Request
<1>5. probe' \in Probe
  <2>1. 1 \in 0 .. N + 1 /\ 0 \in Codes /\ kind \in Kinds
    BY WaitAssumption DEF Kinds, Codes
  <2> QED
    BY <1>1, <2>1 DEF Request, Probe
<1>6. probe'.wasAnnounced => hasCaughtUp = Runs
  BY <1>4 DEF VerdictIsTrue
<1>7. \A r \in Runs : r >= 1 /\ ~(r < 1)
  BY WaitAssumption DEF Runs
<1>8. probe'.hadStopped => \E r \in HasStopped' : r >= probe'.next
  BY <1>3, <1>4, <1>7 DEF HasStopped
<1> QED
  BY <1>2, <1>4, <1>5, <1>6, <1>7, <1>8 DEF ProbeInv

LEMMA LookKeepsProbe ==
    ASSUME TypeOK, ProbeInv, HealthLook
    PROVE  ProbeInv'
<1> DEFINE n == probe.next
           seen == isHealthy(probe.kind, n)
<1>1. UNCHANGED <<hasCaughtUp, stoppedWith>> /\ n \in Runs /\ n \in Nat
  BY WaitAssumption DEF HealthLook, vars, Runs
<1>2. HasStopped' = HasStopped
  BY <1>1 DEF HasStopped
<1>3. probe \in Probe
  BY DEF ProbeInv
<1>4. /\ probe'.kind = probe.kind /\ probe'.next = n + 1
      /\ probe'.isHealthyOverall = (probe.isHealthyOverall /\ seen)
      /\ probe'.hadStopped = probe.hadStopped /\ probe'.hadCaughtUp = probe.hadCaughtUp
      /\ probe'.wasAnnounced = probe.wasAnnounced
  BY <1>3 DEF HealthLook, Probe
<1>5. probe' \in Probe
  <2>1. n + 1 \in 0 .. N + 1
    BY <1>1, WaitAssumption DEF Runs
  <2>2. (probe.isHealthyOverall /\ seen) \in BOOLEAN
    OBVIOUS
  <2> QED
    BY <1>3, <2>1, <2>2, Zenon DEF HealthLook, Probe
<1>6. seen => n \notin HasStopped /\ (probe.kind = "Readiness" => n \in hasCaughtUp)
  BY DEF isHealthy, isReady, isAlive
<1>7. ~seen => n \in HasStopped \/ (probe.kind = "Readiness" /\ n \notin hasCaughtUp)
  BY DEF isHealthy, isReady, isAlive
<1> HIDE DEF seen
<1>8. probe.hadStopped /\ probe.isHealthyOverall /\ seen => \E r \in HasStopped : r >= n + 1
  <2> SUFFICES ASSUME probe.hadStopped, probe.isHealthyOverall, seen
               PROVE  \E r \in HasStopped : r >= n + 1
    OBVIOUS
  <2>1. PICK r \in HasStopped : r >= n
    BY DEF ProbeInv
  <2>2. r \in Nat /\ r # n
    BY <1>6, <2>1, WaitAssumption DEF HasStopped, Runs
  <2> QED
    BY <1>1, <2>1, <2>2
<1>9. probe.kind = "Readiness" /\ probe.isHealthyOverall /\ seen =>
        \A r \in Runs : r < n + 1 => r \in hasCaughtUp
  <2>1. \A r \in Runs : r < n + 1 => r = n \/ r < n
    BY <1>1, WaitAssumption DEF Runs
  <2> QED
    BY <1>6, <2>1 DEF ProbeInv
<1>10. ~(probe.isHealthyOverall /\ seen) =>
          \/ HasStopped # {}
          \/ probe.kind = "Readiness" /\ ~probe.wasAnnounced /\ ~probe.hadCaughtUp
  BY <1>1, <1>7 DEF ProbeInv
<1> QED
  BY <1>1, <1>2, <1>4, <1>5, <1>8, <1>9, <1>10 DEF ProbeInv

LEMMA AnsweredKeepsProbe ==
    ASSUME TypeOK, NEW code \in Codes, probe' = Answered(code)
    PROVE  ProbeInv'
<1>1. probe' \in Probe
  <2>1. 0 \in 0 .. N + 1 /\ 0 \in Codes /\ "none" \in Kinds
    BY WaitAssumption DEF Kinds, Codes
  <2> QED
    BY <2>1 DEF Answered, Probe
<1>2. /\ probe'.kind = "none" /\ probe'.isHealthyOverall = TRUE
      /\ probe'.hadStopped = FALSE /\ probe'.hadCaughtUp = FALSE
      /\ probe'.wasAnnounced = FALSE
  BY DEF Answered
<1> QED
  BY <1>1, <1>2 DEF ProbeInv

LEMMA InitInv == HealthInit => Inv
<1> SUFFICES ASSUME HealthInit PROVE Inv
  OBVIOUS
<1>1. Init /\ TypeOK
  BY TypeInit DEF HealthInit
<1>2. /\ behind = FALSE /\ stopped = 0 /\ hadFailed = {} /\ next = 1 /\ pc = "look"
      /\ result.kind = "none" /\ hasCaughtUp = {}
  BY <1>1 DEF Init
<1>3. LookInv
  <2>1. \A r \in Runs : ~(r < 1)
    BY WaitAssumption DEF Runs
  <2> QED
    BY <1>2, <2>1 DEF LookInv
<1>4. VerdictIsTrue
  BY <1>2 DEF VerdictIsTrue
<1>5. probe \in Probe
  <2>1. 0 \in 0 .. N + 1 /\ 0 \in Codes /\ "none" \in Kinds
    BY WaitAssumption DEF Kinds, Codes
  <2> QED
    BY <2>1 DEF HealthInit, Answered, Probe
<1>6. /\ probe.kind = "none" /\ probe.isHealthyOverall = TRUE
      /\ probe.hadStopped = FALSE /\ probe.hadCaughtUp = FALSE
      /\ probe.wasAnnounced = FALSE
  BY DEF HealthInit, Answered
<1>7. ProbeInv
  BY <1>5, <1>6 DEF ProbeInv
<1> QED
  BY <1>1, <1>3, <1>4, <1>7 DEF Inv

LEMMA StepInv == Inv /\ [HealthNext]_<<vars, probe>> => Inv'
<1> SUFFICES ASSUME Inv, [HealthNext]_<<vars, probe>> PROVE Inv'
  OBVIOUS
<1>1. TypeOK /\ LookInv /\ VerdictIsTrue /\ ProbeInv
  BY DEF Inv
<1>2. [Next]_vars
  BY DEF HealthNext, HealthRequest, HealthLook, HealthAnswer
<1>3. TypeOK' /\ LookInv' /\ VerdictIsTrue'
  BY <1>1, <1>2, TypeStep, NextKeepsVerdict
<1>4. Onward
  BY <1>1, <1>2, StepsOnward
<1>5. ProbeInv'
  <2>1. CASE UNCHANGED probe
    BY <1>1, <1>4, <2>1, OnwardKeepsProbe
  <2>2. CASE HealthRequest
    BY <1>1, <2>2, RequestKeepsProbe
  <2>3. CASE HealthLook
    BY <1>1, <2>3, LookKeepsProbe
  <2>4. CASE HealthAnswer
    BY <1>1, <2>4, AnsweredKeepsProbe DEF HealthAnswer, Codes
  <2> QED
    BY <2>1, <2>2, <2>3, <2>4 DEF HealthNext
<1> QED
  BY <1>3, <1>5 DEF Inv

\* The inductive invariant holds in every reachable state of an application
\* that waits for its runs and answers health requests meanwhile.
THEOREM HealthInv == HealthSpec => []Inv
<1>1. HealthInit => Inv
  BY InitInv
<1>2. Inv /\ [HealthNext]_<<vars, probe>> => Inv'
  BY StepInv
<1> QED
  BY <1>1, <1>2, PTL DEF HealthSpec

\* What WaitCaughtUp returns is true for any number of runs, although it looks
\* at one after the other while they go on (caughtUpVerdict).
THEOREM WaitAnswersTruly == HealthSpec => []VerdictIsTrue
<1>1. Inv => VerdictIsTrue
  BY DEF Inv
<1> QED
  BY <1>1, HealthInv, PTL

\* So is what the handlers of Readiness and Liveness answer, for the request as
\* a whole (healthHandler, isReady, isAlive).
THEOREM HealthAnswersTruly == HealthSpec => HealthIsTrue
<1>1. Inv /\ [HealthNext]_<<vars, probe>> =>
        [probe.next # 0 /\ probe'.next = 0 =>
            IF probe'.code = 200
            THEN ~probe.hadStopped /\ (probe.kind = "Readiness" => hasCaughtUp = Runs)
            ELSE \/ HasStopped # {}
                 \/ probe.kind = "Readiness" /\ ~probe.wasAnnounced /\ ~probe.hadCaughtUp
        ]_<<vars, probe>>
  <2> SUFFICES ASSUME Inv, HealthNext, probe.next # 0, probe'.next = 0
               PROVE  IF probe'.code = 200
                      THEN ~probe.hadStopped /\ (probe.kind = "Readiness" => hasCaughtUp = Runs)
                      ELSE \/ HasStopped # {}
                           \/ probe.kind = "Readiness" /\ ~probe.wasAnnounced
                              /\ ~probe.hadCaughtUp
    OBVIOUS
  <2>1. ProbeInv /\ TypeOK
    BY DEF Inv
  <2>2. HealthAnswer
    <3>1. CASE UNCHANGED probe
      BY <3>1
    <3>2. CASE HealthRequest
      BY <3>2 DEF HealthRequest
    <3>3. CASE HealthLook
      <4>1. probe'.next = probe.next + 1 /\ probe.next \in Nat
        BY <2>1, <3>3, WaitAssumption DEF HealthLook, ProbeInv, Probe, Runs
      <4> QED
        BY <4>1
    <3> QED
      BY <3>1, <3>2, <3>3 DEF HealthNext
  <2>3. /\ probe.next = N + 1
        /\ probe'.code = IF probe.isHealthyOverall THEN 200 ELSE 503
    BY <2>2 DEF HealthAnswer, Answered
  <2>4. \A r \in Runs : r < probe.next /\ ~(r >= probe.next)
    BY <2>3, WaitAssumption DEF Runs
  <2>5. CASE probe.isHealthyOverall
    <3>1. ~probe.hadStopped
      BY <2>1, <2>4, <2>5 DEF ProbeInv, HasStopped
    <3>2. probe.kind = "Readiness" => hasCaughtUp = Runs
      BY <2>1, <2>4, <2>5 DEF ProbeInv, TypeOK
    <3> QED
      BY <2>3, <2>5, <3>1, <3>2
  <2>6. CASE ~probe.isHealthyOverall
    BY <2>1, <2>3, <2>6 DEF ProbeInv
  <2> QED
    BY <2>5, <2>6
<1> QED
  BY <1>1, HealthInv, PTL DEF HealthSpec, HealthIsTrue
=============================================================================
