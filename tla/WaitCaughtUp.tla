---------------------------- MODULE WaitCaughtUp ----------------------------
(***************************************************************************)
(* WaitCaughtUp (projection_run.go): a goroutine that waits for several    *)
(* runs at once, with a helper goroutine for each, while the runs catch up *)
(* and end, and its own context may end.  Of a run, only what Status tells *)
(* about catching up and ending counts here; a run first changes its       *)
(* status under its mutex, and closes the channel of it afterwards.        *)
(***************************************************************************)
EXTENDS Naturals

CONSTANT N  \* the number of runs waited for

ASSUME WaitAssumption == N \in Nat

Runs == 1 .. N

VARIABLES
    hasCaughtUp,   \* the runs whose status says HasCaughtUp
    stoppedWith,   \* [Runs -> what the run stopped with, "running" before]
    caughtUp,      \* the runs whose channel CaughtUp is closed
    done,          \* the runs whose channel Done is closed
    ctxEnded,      \* whether the context of the wait has ended
    helper,        \* [Runs -> where the helper goroutine is]
    settled,       \* the number of values in the channel settled, which has room
                   \* for one of every helper
    pc,            \* where the waiting goroutine is
    next,          \* the run caughtUpVerdict looks at next
    behind,        \* whether one of the runs before has not caught up
    stopped,       \* the first run seen that stopped without an error, or 0
    result,        \* what WaitCaughtUp returns
    hadFailed      \* for the properties: the runs that had failed when the
                   \* verdict began to look

vars == <<hasCaughtUp, stoppedWith, caughtUp, done, ctxEnded, helper, settled, pc, next,
          behind, stopped, result, hadFailed>>
runs == <<hasCaughtUp, stoppedWith, caughtUp, done>>
verdict == <<next, behind, stopped, result, hadFailed>>

Failed == {r \in Runs : stoppedWith[r] = "error" /\ r \notin hasCaughtUp}

Init ==
    /\ hasCaughtUp = {} /\ stoppedWith = [r \in Runs |-> "running"]
    /\ caughtUp = {} /\ done = {}
    /\ ctxEnded = FALSE
    /\ helper = [r \in Runs |-> "select"] /\ settled = 0
    /\ pc = "look" /\ next = 1 /\ behind = FALSE /\ stopped = 0
    /\ result = [kind |-> "none", run |-> 0] /\ hadFailed = {}

-----------------------------------------------------------------------------
(***************************************************************************)
(* The runs (caughtUpNow, stop) and the context.                           *)
(***************************************************************************)
CatchUp(r) ==
    /\ r \notin hasCaughtUp /\ stoppedWith[r] = "running"
    /\ hasCaughtUp' = hasCaughtUp \cup {r}
    /\ UNCHANGED <<stoppedWith, caughtUp, done, ctxEnded, helper, settled, pc, verdict>>

CloseCaughtUp(r) ==
    /\ r \in hasCaughtUp \ caughtUp
    /\ caughtUp' = caughtUp \cup {r}
    /\ UNCHANGED <<hasCaughtUp, stoppedWith, done, ctxEnded, helper, settled, pc, verdict>>

StopRun(r) ==
    /\ stoppedWith[r] = "running" /\ r \notin hasCaughtUp \ caughtUp
    /\ \E err \in {"nil", "error"} : stoppedWith' = [stoppedWith EXCEPT ![r] = err]
    /\ UNCHANGED <<hasCaughtUp, caughtUp, done, ctxEnded, helper, settled, pc, verdict>>

CloseDone(r) ==
    /\ stoppedWith[r] # "running" /\ r \notin done
    /\ done' = done \cup {r}
    /\ UNCHANGED <<hasCaughtUp, stoppedWith, caughtUp, ctxEnded, helper, settled, pc, verdict>>

EndContext ==
    /\ ~ctxEnded
    /\ ctxEnded' = TRUE
    /\ UNCHANGED <<runs, helper, settled, pc, verdict>>

-----------------------------------------------------------------------------
(***************************************************************************)
(* A helper waits until its run has caught up or ended, or the wait has    *)
(* returned, and reports.                                                  *)
(***************************************************************************)

\* Mutant of HelperWakes: a run that ends wakes nobody.
HelperWakesCaughtUp(r) ==
    /\ helper[r] = "select"
    /\ \/ r \in caughtUp /\ helper' = [helper EXCEPT ![r] = "send"]
       \/ pc = "returned" /\ helper' = [helper EXCEPT ![r] = "ended"]
    /\ UNCHANGED <<runs, ctxEnded, settled, pc, verdict>>

HelperWakes(r) ==
    /\ helper[r] = "select"
    /\ \/ r \in caughtUp \cup done /\ helper' = [helper EXCEPT ![r] = "send"]
       \/ pc = "returned" /\ helper' = [helper EXCEPT ![r] = "ended"]
    /\ UNCHANGED <<runs, ctxEnded, settled, pc, verdict>>

\* Mutant of HelperSends: the channel has no buffer, so that a send needs
\* somebody who receives.
HelperSendsUnbuffered(r) ==
    /\ helper[r] = "send" /\ pc = "select"
    /\ helper' = [helper EXCEPT ![r] = "ended"]
    /\ pc' = "look"
    /\ UNCHANGED <<runs, ctxEnded, settled, verdict>>

HelperSends(r) ==
    /\ helper[r] = "send" /\ settled < N
    /\ helper' = [helper EXCEPT ![r] = "ended"]
    /\ settled' = settled + 1
    /\ UNCHANGED <<runs, ctxEnded, pc, verdict>>

-----------------------------------------------------------------------------
(***************************************************************************)
(* caughtUpVerdict, which takes the status of one run after the other, and *)
(* the select of WaitCaughtUp.                                             *)
(***************************************************************************)
Returns(kind, r) ==
    /\ pc' = "returned"
    /\ result' = [kind |-> kind, run |-> r]
    /\ UNCHANGED <<next, behind, stopped>>

\* Mutant of Look: the end of the context counts before the error of a run.
LookContextFirst ==
    /\ pc = "look" /\ next \in Runs
    /\ hadFailed' = IF next = 1 THEN Failed ELSE hadFailed
    /\ IF ctxEnded
       THEN Returns("context", 0)
       ELSE IF next \notin hasCaughtUp /\ stoppedWith[next] = "error"
       THEN Returns("error", next)
       ELSE /\ behind' = (behind \/ next \notin hasCaughtUp)
            /\ next' = next + 1
            /\ UNCHANGED <<pc, result, stopped>>
    /\ UNCHANGED <<runs, ctxEnded, helper, settled>>

Look ==
    /\ pc = "look" /\ next \in Runs
    /\ hadFailed' = IF next = 1 THEN Failed ELSE hadFailed
    /\ IF next \notin hasCaughtUp /\ stoppedWith[next] = "error"
       THEN Returns("error", next)
       ELSE /\ behind' = (behind \/ next \notin hasCaughtUp)
            /\ stopped' = IF next \notin hasCaughtUp /\ stoppedWith[next] = "nil" /\ stopped = 0
                          THEN next ELSE stopped
            /\ next' = next + 1
            /\ UNCHANGED <<pc, result>>
    /\ UNCHANGED <<runs, ctxEnded, helper, settled>>

Decide ==
    /\ pc = "look" /\ next = N + 1
    /\ CASE ~behind -> Returns("nil", 0)
         [] behind /\ ctxEnded -> Returns("context", 0)
         [] behind /\ ~ctxEnded /\ stopped # 0 -> Returns("stopped", stopped)
         [] OTHER -> /\ pc' = "select"
                     /\ next' = 1 /\ behind' = FALSE /\ stopped' = 0
                     /\ UNCHANGED result
    /\ UNCHANGED <<hadFailed, runs, ctxEnded, helper, settled>>

Wake ==
    /\ pc = "select"
    /\ \/ settled > 0 /\ settled' = settled - 1
       \/ ctxEnded /\ UNCHANGED settled
    /\ pc' = "look"
    /\ UNCHANGED <<runs, ctxEnded, helper, verdict>>

-----------------------------------------------------------------------------
Helper(r) == HelperWakes(r) \/ HelperSends(r)
Closing(r) == CloseCaughtUp(r) \/ CloseDone(r)
Waiter == Look \/ Decide \/ Wake

Next ==
    \/ \E r \in Runs : CatchUp(r) \/ StopRun(r) \/ Closing(r) \/ Helper(r)
    \/ EndContext
    \/ Waiter

\* Goroutines run on; no run has to catch up or end, and no context to end.
Spec ==
    /\ Init /\ [][Next]_vars
    /\ WF_vars(Waiter)
    /\ \A r \in Runs : WF_vars(Closing(r)) /\ WF_vars(Helper(r))

-----------------------------------------------------------------------------
(***************************************************************************)
(* Properties.                                                             *)
(***************************************************************************)
\* Every variable has the values the code's types allow; the channel of the
\* helpers never holds more than it has room for, and nobody receives from it
\* what was not sent (WaitCaughtUp).
TypeOK ==
    /\ hasCaughtUp \subseteq Runs /\ caughtUp \subseteq Runs /\ done \subseteq Runs
    /\ stoppedWith \in [Runs -> {"running", "nil", "error"}]
    /\ ctxEnded \in BOOLEAN
    /\ helper \in [Runs -> {"select", "send", "ended"}]
    /\ settled \in 0 .. N
    /\ pc \in {"look", "select", "returned"}
    /\ next \in 1 .. N + 1 /\ behind \in BOOLEAN /\ stopped \in 0 .. N
    /\ result \in [kind : {"none", "nil", "error", "context", "stopped"}, run : 0 .. N]
    /\ hadFailed \subseteq Runs

\* The answer is true although the runs move on while they are looked at one
\* after the other: nil only if every run has caught up, and an error only
\* with its cause.  Of several reasons by the time it looks, the error of the
\* first run that has one counts, before the context and before a run without
\* an error (caughtUpVerdict).
VerdictIsTrue ==
    LET r == result.run
    IN  /\ CASE result.kind = "nil"     -> hasCaughtUp = Runs
             [] result.kind = "error"   -> r \notin hasCaughtUp /\ stoppedWith[r] = "error"
             [] result.kind = "stopped" -> r \notin hasCaughtUp /\ stoppedWith[r] = "nil"
             [] result.kind = "context" -> ctxEnded /\ pc = "returned"
             [] OTHER                   -> pc # "returned"
        /\ pc = "returned" /\ hadFailed # {} =>
              result.kind = "error" /\ \A other \in hadFailed : r <= other

\* Once there is an answer, WaitCaughtUp returns: no change of a run between
\* the verdict and the select is missed.
WaitReturns ==
    (hasCaughtUp = Runs \/ ctxEnded \/ \E r \in Runs \ hasCaughtUp : stoppedWith[r] # "running")
        ~> pc = "returned"

\* Once it has returned, all of its helpers end, those of runs that never
\* catch up included.
HelpersEnd == pc = "returned" ~> \A r \in Runs : helper[r] = "ended"
=============================================================================
