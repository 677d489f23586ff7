-------------------------------- MODULE Health --------------------------------
(***************************************************************************)
(* The health handlers (health.go) of an application whose start waits for *)
(* its projections (WaitCaughtUp): a request takes the status of one run   *)
(* after the other, while the runs catch up and stop, and judges them      *)
(* together.                                                               *)
(***************************************************************************)
EXTENDS WaitCaughtUp

VARIABLE probe  \* the request that is answered, or the answer to the last one

HasStopped == {r \in Runs : stoppedWith[r] # "running"}

(***************************************************************************)
(* A request: the handler that answers it, the run it looks at next, what  *)
(* it has seen so far, and the code it answered with.  For the properties, *)
(* what was so when it began.                                              *)
(***************************************************************************)
Request(kind) ==
    [kind |-> kind, next |-> 1, isHealthyOverall |-> TRUE, code |-> 0,
     hadStopped |-> HasStopped # {}, hadCaughtUp |-> hasCaughtUp = Runs,
     wasAnnounced |-> pc = "returned" /\ result.kind = "nil"]

Answered(code) ==
    [kind |-> "none", next |-> 0, isHealthyOverall |-> TRUE, code |-> code,
     hadStopped |-> FALSE, hadCaughtUp |-> FALSE, wasAnnounced |-> FALSE]

\* Mutant of isReady: a run that reconnects after it has caught up, or stopped,
\* is judged by its catching up alone.
isReadyOnceCaughtUp(r) == r \in hasCaughtUp

isReady(r) == r \in hasCaughtUp /\ r \notin HasStopped

isAlive(r) == r \notin HasStopped

isHealthy(kind, r) == IF kind = "Readiness" THEN isReady(r) ELSE isAlive(r)

HealthRequest ==
    /\ probe.next = 0
    /\ \E kind \in {"Readiness", "Liveness"} : probe' = Request(kind)
    /\ UNCHANGED vars

HealthLook ==
    /\ probe.next \in Runs
    /\ probe' = [probe EXCEPT !.isHealthyOverall = @ /\ isHealthy(probe.kind, probe.next),
                              !.next = @ + 1]
    /\ UNCHANGED vars

HealthAnswer ==
    /\ probe.next = N + 1
    /\ probe' = Answered(IF probe.isHealthyOverall THEN 200 ELSE 503)
    /\ UNCHANGED vars

HealthInit == Init /\ probe = Answered(0)

HealthNext ==
    \/ Next /\ UNCHANGED probe
    \/ HealthRequest \/ HealthLook \/ HealthAnswer

\* A request has to come from outside, so the handlers are not fair.
HealthSpec ==
    /\ HealthInit /\ [][HealthNext]_<<vars, probe>>
    /\ WF_vars(Waiter)
    /\ \A r \in Runs : WF_vars(Closing(r)) /\ WF_vars(Helper(r))

-----------------------------------------------------------------------------
\* Although the runs move on while a handler looks at them, its answer is true
\* for the request as a whole: Readiness never sends requests to an application
\* with a view that is not built, both name a run that had stopped before the
\* request, a run that stopped is the only reason for Liveness to restart the
\* application, and once WaitCaughtUp has returned nil, it is the only reason
\* for Readiness not to be ready as well (healthHandler, isReady, isAlive).
HealthIsTrue ==
    [][ probe.next # 0 /\ probe'.next = 0 =>
          IF probe'.code = 200
          THEN ~probe.hadStopped /\ (probe.kind = "Readiness" => hasCaughtUp = Runs)
          ELSE \/ HasStopped # {}
               \/ probe.kind = "Readiness" /\ ~probe.wasAnnounced /\ ~probe.hadCaughtUp
      ]_<<vars, probe>>
=============================================================================
