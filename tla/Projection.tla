----------------------------- MODULE Projection -----------------------------
(***************************************************************************)
(* A projection run in the background, or caught up once (projection.go,   *)
(* projection_run.go): the loop of catching up, following the stream and   *)
(* reconnecting, with the three kinds of writer, against a target that     *)
(* fails, and a process that crashes and starts again.                     *)
(*                                                                         *)
(* The events a projection reads are numbered as they are stored, from 1,  *)
(* whatever lies between them on other subjects; 0 is the empty ID.  What  *)
(* an event does to the read model is left out: the read model is the      *)
(* sequence of the events that were applied to it.                         *)
(***************************************************************************)
EXTENDS Naturals, Sequences

CONSTANTS
    Modes,             \* the kinds of projection: rebuild, resumable, transactional
    CatchUpBatchSize,  \* what Batched answers, 1 without it
    InitialDelay,      \* WithReconnectDelays
    MaxDelay,
    MaxEvents,         \* bound: the number of events stored
    MaxFailures,       \* bound: the number of failures of the database and the target
    MaxStarts          \* bound: the number of times the projection is started

ASSUME ProjectionAssumption ==
    /\ Modes \subseteq {"rebuild", "resumable", "transactional"}
    /\ CatchUpBatchSize \in Nat \ {0}
    /\ InitialDelay \in Nat \ {0}
    /\ MaxDelay \in Nat /\ MaxDelay >= InitialDelay
    /\ MaxEvents \in Nat /\ MaxFailures \in Nat /\ MaxStarts \in Nat

VARIABLES
    mode,        \* which kind this projection is
    stored,      \* the number of events stored so far
    applied,     \* the read model: what was applied to it and kept
    checkpoint,  \* the checkpoint its target keeps
    tx,          \* what the open transaction has applied
    inTx,        \* whether a transaction is open
    run,         \* the local variables of run, drive and the writer
    status,      \* ProjectionStatus
    ended,       \* whether the context has ended
    failures,    \* the number of failures so far
    starts       \* the number of starts so far

vars == <<mode, stored, applied, checkpoint, tx, inTx, run, status, ended, failures, starts>>
target == <<applied, checkpoint, tx, inTx>>

\* "other" is any error without the category ErrTransient.  A failing rollback
\* is joined to what made it necessary.
Categories == {"transient", "other", "panic", "context"}
Failure(cause) == [cause |-> cause, rollback |-> "none"]
NoFailure == Failure("none")

IsTransient(err) == "transient" \in {err.cause, err.rollback}
HasPanicked(err) == "panic" \in {err.cause, err.rollback}

\* Whether a run tries again after a session that ended like this; one can end
\* without an error as well.
MayPass(err) == err = NoFailure \/ (IsTransient(err) /\ ~HasPanicked(err))

(***************************************************************************)
(* A run.                                                                  *)
(*   pc           "off" (no process), "before" (the top of the loop),      *)
(*                "checkpoint" (catchUp asks for it), "drive" (between two *)
(*                events), "commit" and "lastCommit" (a batch is full, or  *)
(*                the stream has ended), "drained" (drive is through),     *)
(*                "failed" (follow or catchUp has returned), "wait",       *)
(*                "stopped"                                                *)
(*   once         whether it is CatchUpProjection rather than a run        *)
(*   lastApplied  what rebuildWriter and resumableWriter remember          *)
(*   before       checkpointBefore                                         *)
(*   position     the checkpoint to read after, then the lastEventID       *)
(*   reach        the number of events stored when the read was requested  *)
(*   isLive       whether drive observes                                   *)
(*   inBatch, open, delay, attempt, err   as in the code                   *)
(* and, for the properties alone: what was stored and applied when the run *)
(* started.                                                                *)
(***************************************************************************)
NewRun(once) ==
    [pc |-> IF once THEN "checkpoint" ELSE "before", once |-> once, lastApplied |-> 0,
     before |-> 0, position |-> 0, reach |-> 0, isLive |-> FALSE, inBatch |-> 0,
     open |-> FALSE, delay |-> InitialDelay, attempt |-> 0, err |-> NoFailure,
     storedAtStart |-> stored, appliedAtStart |-> Len(applied')]

NewStatus == [phase |-> "catching-up", err |-> NoFailure, attempts |-> 0, revision |-> 0,
              hasCaughtUp |-> FALSE]

Init ==
    /\ mode \in Modes
    /\ stored = 0
    /\ applied = <<>> /\ checkpoint = 0 /\ tx = <<>> /\ inTx = FALSE
    /\ run = [pc |-> "off", once |-> FALSE, lastApplied |-> 0, before |-> 0,
              position |-> 0, reach |-> 0, isLive |-> FALSE, inBatch |-> 0, open |-> FALSE,
              delay |-> InitialDelay, attempt |-> 0, err |-> NoFailure,
              storedAtStart |-> 0, appliedAtStart |-> 0]
    /\ status = NewStatus
    /\ ended = FALSE
    /\ failures = 0
    /\ starts = 0

-----------------------------------------------------------------------------
(***************************************************************************)
(* Around the run.                                                         *)
(***************************************************************************)

\* Somebody stores an event that the projection reads.
StoreEvent ==
    /\ stored < MaxEvents
    /\ stored' = stored + 1
    /\ UNCHANGED <<mode, target, run, status, ended, failures, starts>>

\* StartProjection, StartTransactionalProjection and their CatchUp variants,
\* in a new process.  A projection that is rebuilt keeps its read model in
\* memory.
Start ==
    /\ run.pc = "off" /\ starts < MaxStarts
    /\ applied' = IF mode = "rebuild" THEN <<>> ELSE applied
    /\ \E once \in BOOLEAN : run' = NewRun(once)
    /\ status' = NewStatus
    /\ ended' = FALSE
    /\ starts' = starts + 1
    /\ UNCHANGED <<mode, stored, checkpoint, tx, inTx, failures>>

EndContext ==
    /\ run.pc \notin {"off", "stopped"} /\ ~ended
    /\ ended' = TRUE
    /\ UNCHANGED <<mode, stored, target, run, status, failures, starts>>

\* The process ends, by a crash or orderly; the target drops a transaction
\* that is still open.
Crash ==
    /\ run.pc # "off"
    /\ run' = [run EXCEPT !.pc = "off"]
    /\ tx' = <<>> /\ inTx' = FALSE
    /\ UNCHANGED <<mode, stored, applied, checkpoint, status, ended, failures, starts>>

\* The database or the target fails.
Disturbed == failures < MaxFailures /\ failures' = failures + 1

-----------------------------------------------------------------------------
(***************************************************************************)
(* The writers.                                                            *)
(***************************************************************************)

\* Whether the checkpoint comes from the target, where asking for it can fail.
AsksTarget == mode = "transactional" \/ (mode = "resumable" /\ run.lastApplied = 0)

\* Mutant of Checkpoint: the resumable writer remembers nothing.
CheckpointOfTarget == IF mode = "rebuild" THEN run.lastApplied ELSE checkpoint

Checkpoint == IF AsksTarget THEN checkpoint ELSE run.lastApplied

Apply(e) ==
    IF mode = "transactional"
    THEN /\ tx' = Append(IF run.open THEN tx ELSE <<>>, e) /\ inTx' = TRUE
         /\ UNCHANGED <<applied, checkpoint>>
    ELSE /\ applied' = Append(applied, e)
         /\ UNCHANGED <<checkpoint, tx, inTx>>

\* SaveCheckpoint, or Tx.Commit, which ends the transaction in any case.
Commit ==
    /\ applied' = IF mode = "transactional" THEN applied \o tx ELSE applied
    /\ checkpoint' = IF mode = "rebuild" THEN checkpoint ELSE run.position
    /\ tx' = <<>> /\ inTx' = FALSE

\* follow or catchUp returns with what failed.
Fails(cause) ==
    /\ run' = [run EXCEPT !.pc = "failed", !.err = Failure(cause)]
    /\ UNCHANGED status

\* The same, and an open transaction is rolled back, which can fail as well.  A
\* transaction is taken to be over even then: the writer has let go of it, and
\* its target drops it.
FailsAndRollsBack(isOpen, cause) ==
    /\ \E rollback \in IF isOpen /\ mode = "transactional"
                       THEN {"none", "transient", "other", "panic"} ELSE {"none"} :
         run' = [run EXCEPT !.pc = "failed",
                            !.err = [cause |-> cause, rollback |-> rollback]]
    /\ tx' = <<>> /\ inTx' = FALSE
    /\ UNCHANGED <<applied, checkpoint, status>>

\* ProjectionRun.stop, for a run; the catch-up functions return the error.
Stop(err) ==
    /\ run' = [run EXCEPT !.pc = "stopped", !.err = err]
    /\ status' = IF run.once THEN status
                 ELSE [status EXCEPT !.phase = "stopped", !.err = err, !.attempts = 0]

\* A panic outside of Apply and Rollback ends run or catchUpOnce at once.
Panics == Stop(Failure("panic"))

-----------------------------------------------------------------------------
(***************************************************************************)
(* catchUp and drive.                                                      *)
(***************************************************************************)

\* Mutant of CatchUpStarts: it reads on after the checkpoint asked for earlier.
CatchUpReusesCheckpoint ==
    /\ run.pc = "checkpoint"
    /\ run' = [run EXCEPT !.pc = "drive", !.position = run.before, !.reach = stored,
                          !.inBatch = 0, !.open = FALSE]
    /\ UNCHANGED <<mode, stored, target, status, ended, failures, starts>>

CatchUpStarts ==
    /\ run.pc = "checkpoint"
    /\ run' = [run EXCEPT !.pc = "drive", !.position = Checkpoint, !.reach = stored,
                          !.inBatch = 0, !.open = FALSE]
    /\ UNCHANGED <<mode, stored, target, status, ended, failures, starts>>

CheckpointFails ==
    /\ run.pc = "checkpoint" /\ AsksTarget /\ Disturbed
    /\ Fails("transient") \/ Fails("other") \/ Panics
    /\ UNCHANGED <<mode, stored, target, ended, starts>>

HasNext == run.pc = "drive" /\ run.position < stored

\* Mutant of BatchSize: a batch has to fill up in the live stream as well.
BatchSizeAlways == CatchUpBatchSize

BatchSize == IF run.isLive THEN 1 ELSE CatchUpBatchSize

\* The stream hands out the next event, which is verified and applied, in a
\* transaction begun for it if none is open.
ApplyEvent ==
    LET e == run.position + 1
    IN  /\ HasNext
        /\ Apply(e)
        /\ run' = [run EXCEPT
              !.pc = IF run.inBatch + 1 < BatchSize THEN "drive" ELSE "commit",
              !.lastApplied = IF mode = "transactional" THEN @ ELSE e,
              !.position = e, !.inBatch = @ + 1, !.open = TRUE]
        /\ UNCHANGED <<mode, stored, status, ended, failures, starts>>

\* Mutant of ReadFails: the transaction is left open.
ReadFailsOpen ==
    /\ run.pc = "drive" /\ Disturbed
    /\ \E cause \in {"transient", "other"} : Fails(IF ended THEN "context" ELSE cause)
    /\ UNCHANGED <<mode, stored, target, ended, starts>>

\* The stream breaks off, or hands out an event that can not be verified.
ReadFails ==
    /\ run.pc = "drive" /\ Disturbed
    /\ \E cause \in {"transient", "other"} :
         FailsAndRollsBack(run.open, IF ended THEN "context" ELSE cause)
    /\ UNCHANGED <<mode, stored, ended, starts>>

BeginFails ==
    /\ HasNext /\ mode = "transactional" /\ ~run.open /\ Disturbed
    /\ Fails("transient") \/ Fails("other") \/ Panics
    /\ UNCHANGED <<mode, stored, target, ended, starts>>

\* Mutant of ApplyFails: the writer remembers the event before it is applied.
ApplyFailsRemembered ==
    /\ HasNext /\ Disturbed
    /\ run' = [run EXCEPT !.pc = "failed", !.err = Failure("transient"),
                          !.lastApplied = run.position + 1]
    /\ tx' = <<>> /\ inTx' = FALSE
    /\ UNCHANGED <<mode, stored, applied, checkpoint, status, ended, starts>>

\* Apply fails or panics, and has changed nothing.
ApplyFails ==
    /\ HasNext /\ Disturbed
    /\ \E cause \in {"transient", "other", "panic"} : FailsAndRollsBack(TRUE, cause)
    /\ UNCHANGED <<mode, stored, ended, starts>>

\* commit, then ProjectionRun.committed.
CommitBatch ==
    /\ run.pc \in {"commit", "lastCommit"}
    /\ Commit
    /\ status' = IF run.once THEN status ELSE [status EXCEPT !.revision = run.position]
    /\ run' = [run EXCEPT !.pc = IF @ = "commit" THEN "drive" ELSE "drained",
                          !.inBatch = 0, !.open = FALSE]
    /\ UNCHANGED <<mode, stored, ended, failures, starts>>

\* Mutant of CommitFails: the progress is recorded before the commit.
CommitFailsCounted ==
    /\ run.pc \in {"commit", "lastCommit"} /\ mode # "rebuild" /\ Disturbed
    /\ tx' = <<>> /\ inTx' = FALSE /\ UNCHANGED <<applied, checkpoint>>
    /\ run' = [run EXCEPT !.pc = "failed", !.err = Failure("transient")]
    /\ status' = IF run.once THEN status ELSE [status EXCEPT !.revision = run.position]
    /\ UNCHANGED <<mode, stored, ended, starts>>

\* A commit that fails or panics may have taken effect all the same, and is
\* not followed by a rollback.
CommitFails ==
    /\ run.pc \in {"commit", "lastCommit"} /\ mode # "rebuild" /\ Disturbed
    /\ \/ Commit
       \/ tx' = <<>> /\ inTx' = FALSE /\ UNCHANGED <<applied, checkpoint>>
    /\ Fails("transient") \/ Fails("other") \/ Panics
    /\ UNCHANGED <<mode, stored, ended, starts>>

\* Mutant of StreamEnds: what is left of a batch is not committed.
StreamEndsOpen ==
    /\ run.pc = "drive"
    /\ (~run.isLive /\ run.position >= run.reach) \/ ended
    /\ run' = [run EXCEPT !.pc = "drained"]
    /\ UNCHANGED <<mode, stored, target, status, ended, failures, starts>>

\* A finite read ends once it has handed out what was stored when it was
\* requested.  Any stream ends when the context does.
StreamEnds ==
    /\ run.pc = "drive"
    /\ (~run.isLive /\ run.position >= run.reach) \/ ended
    /\ run' = [run EXCEPT !.pc = IF run.open THEN "lastCommit" ELSE "drained"]
    /\ UNCHANGED <<mode, stored, target, status, ended, failures, starts>>

\* The stream of a live session ends without an error, and so does follow.  No
\* batch is open then, since live events are committed one by one.
LiveStreamEnds ==
    /\ run.pc = "drive" /\ run.isLive /\ ~ended /\ Disturbed
    /\ Fails("none")
    /\ UNCHANGED <<mode, stored, target, ended, starts>>

\* Mutant of Drained: the end of the context is not checked.
DrainedAnyway ==
    /\ run.pc = "drained"
    /\ IF run.once
       THEN Stop(NoFailure)
       ELSE /\ run' = [run EXCEPT !.pc = "drive", !.isLive = TRUE, !.inBatch = 0,
                                  !.open = FALSE]
            /\ status' = [status EXCEPT !.phase = "live", !.err = NoFailure,
                                        !.attempts = 0, !.hasCaughtUp = TRUE]
    /\ UNCHANGED <<mode, stored, target, ended, failures, starts>>

\* drive returns the end of the context, if it has ended.  Otherwise the run
\* has caught up, and observes what follows.
Drained ==
    /\ run.pc = "drained"
    /\ CASE ended -> Fails("context")
         [] ~ended /\ run.once -> Stop(NoFailure)
         [] OTHER ->
              /\ run' = [run EXCEPT !.pc = "drive", !.isLive = TRUE, !.inBatch = 0,
                                    !.open = FALSE]
              /\ status' = [status EXCEPT !.phase = "live", !.err = NoFailure,
                                          !.attempts = 0, !.hasCaughtUp = TRUE]
    /\ UNCHANGED <<mode, stored, target, ended, failures, starts>>

-----------------------------------------------------------------------------
(***************************************************************************)
(* run.                                                                    *)
(***************************************************************************)

\* The checkpoint to compare with later.  An error is dropped.
SessionStarts ==
    /\ run.pc = "before"
    /\ \/ /\ run' = [run EXCEPT !.pc = "checkpoint", !.before = Checkpoint,
                                !.isLive = FALSE]
          /\ UNCHANGED <<status, failures>>
       \/ /\ AsksTarget /\ Disturbed
          /\ run' = [run EXCEPT !.pc = "checkpoint", !.before = 0,
                                !.isLive = FALSE]
          /\ UNCHANGED status
       \/ AsksTarget /\ Disturbed /\ Panics
    /\ UNCHANGED <<mode, stored, target, ended, starts>>

GivesUp ==
    /\ run.pc = "failed"
    /\ CASE run.once -> Stop(run.err)
         [] ~run.once /\ ended -> Stop(NoFailure)
         [] OTHER -> ~MayPass(run.err) /\ Stop(run.err)
    /\ UNCHANGED <<mode, stored, target, ended, failures, starts>>

\* ProjectionRun.disrupted.
Disrupted ==
    [status EXCEPT !.phase = "reconnecting", !.err = run.err,
                   !.attempts = IF status.phase = "reconnecting" THEN @ + 1 ELSE 1]

NextAttempt(isHealthy) ==
    [run EXCEPT !.pc = "wait",
                !.attempt = (IF isHealthy THEN 0 ELSE @) + 1,
                !.delay = IF isHealthy THEN InitialDelay ELSE @]

\* A session that moved the checkpoint, or was live for longer than the
\* initial delay, lets the delay start over.  An error of the second
\* checkpoint is dropped as well.
Reconnects ==
    /\ run.pc = "failed" /\ ~run.once /\ ~ended /\ MayPass(run.err)
    /\ \/ \E isLongLived \in IF run.isLive THEN BOOLEAN ELSE {FALSE} :
            /\ status' = Disrupted
            /\ \/ /\ run' = NextAttempt(Checkpoint # run.before \/ isLongLived)
                  /\ UNCHANGED failures
               \/ /\ AsksTarget /\ Disturbed
                  /\ run' = NextAttempt(run.before # 0 \/ isLongLived)
       \/ AsksTarget /\ Disturbed /\ Panics
    /\ UNCHANGED <<mode, stored, target, ended, starts>>

\* The timer fires, or the context ends the waiting.
WaitEnds ==
    /\ run.pc = "wait"
    /\ \/ /\ run' = [run EXCEPT !.pc = "before",
                                !.delay = IF 2 * @ < MaxDelay THEN 2 * @ ELSE MaxDelay]
          /\ UNCHANGED status
       \/ ended /\ Stop(NoFailure)
    /\ UNCHANGED <<mode, stored, target, ended, failures, starts>>

-----------------------------------------------------------------------------
Drive == CatchUpStarts \/ ApplyEvent \/ CommitBatch \/ StreamEnds \/ Drained

Breaks == CheckpointFails \/ ReadFails \/ BeginFails \/ ApplyFails \/ CommitFails
          \/ LiveStreamEnds

Loop == SessionStarts \/ GivesUp \/ Reconnects \/ WaitEnds

Next == StoreEvent \/ Start \/ EndContext \/ Crash \/ Drive \/ Breaks \/ Loop

Spec == Init /\ [][Next]_vars

\* A goroutine runs on, a stream hands out what is stored, and ends when its
\* context does; nobody has to store, to start, or to end a context.
FairSpec == Spec /\ WF_vars(Drive \/ Loop)

-----------------------------------------------------------------------------
(***************************************************************************)
(* Properties.                                                             *)
(***************************************************************************)
Phases == {"off", "before", "checkpoint", "drive", "commit", "lastCommit", "drained",
           "failed", "wait", "stopped"}

Err == [cause : Categories \cup {"none"}, rollback : Categories \cup {"none"}]

Run == [pc : Phases, once : BOOLEAN, lastApplied : Nat, before : Nat, position : Nat,
        reach : Nat, isLive : BOOLEAN, inBatch : 0 .. CatchUpBatchSize, open : BOOLEAN,
        delay : InitialDelay .. MaxDelay, attempt : Nat, err : Err, storedAtStart : Nat,
        appliedAtStart : Nat]

Status == [phase : {"catching-up", "live", "reconnecting", "stopped"}, err : Err,
           attempts : Nat, revision : Nat, hasCaughtUp : BOOLEAN]

\* Every variable has the values the code's types allow; a batch never
\* outgrows its size (drive), nor the delay its bounds (run).
TypeOK ==
    /\ mode \in Modes
    /\ stored \in Nat
    /\ applied \in Seq(Nat) /\ checkpoint \in Nat /\ tx \in Seq(Nat) /\ inTx \in BOOLEAN
    /\ run \in Run
    /\ status \in Status
    /\ ended \in BOOLEAN
    /\ failures \in Nat /\ starts \in Nat

IsApplied(e) == \E i \in DOMAIN applied : applied[i] = e

\* However the stream breaks and the process crashes, an event is applied only
\* once everything before it has been, and the checkpoint never names an event
\* that is not in the read model, which would then be missing from it for good
\* (drive, the writers).
NoEventSkipped ==
    /\ \A i \in DOMAIN applied : \A e \in 1 .. applied[i] - 1 :
          \E j \in 1 .. i - 1 : applied[j] = e
    /\ \A e \in 1 .. checkpoint : IsApplied(e)

\* A transactional projection holds every event up to its checkpoint exactly
\* once, also if a commit takes effect and is reported as failed
\* (transactionalWriter, catchUp).
ExactlyOnce ==
    mode = "transactional" =>
        /\ Len(applied) = checkpoint
        /\ \A i \in DOMAIN applied : applied[i] = i

\* Within a run, no kind of projection applies an event twice, however often
\* it reconnects: rebuildWriter and resumableWriter remember the last event
\* they applied, and transactionalWriter asks its target.
NoEventTwice ==
    \A i, j \in run.appliedAtStart + 1 .. Len(applied) : applied[i] = applied[j] => i = j

\* Once a run counts as caught up, and when CatchUpProjection returns without
\* an error, the read model holds everything that was stored when it started,
\* committed (catchUp, caughtUpNow).
CaughtUpIsComplete ==
    run.pc # "off" /\ (status.hasCaughtUp
                       \/ (run.once /\ run.pc = "stopped" /\ run.err = NoFailure)) =>
        \A e \in 1 .. run.storedAtStart : IsApplied(e)

\* The revision a run reports survives a crash of the process, as far as its
\* target keeps anything at all (ProjectionStatus.Revision: "applied and
\* committed").
RevisionIsCommitted ==
    run.pc # "off" =>
        status.revision <= IF mode = "rebuild" THEN run.lastApplied ELSE checkpoint

\* A run neither waits nor ends with a transaction that is still open (the
\* rollbacks of drive).
NoTransactionLeft == run.pc \in {"wait", "stopped"} => ~inTx

IsRunning == run.pc \notin {"off", "stopped"}

\* Every event is applied in the end, unless the run ends, if the database and
\* the target fail only so often (run tries again, and drive commits live
\* events one by one).
EventsAreApplied ==
    \A e \in 1 .. MaxEvents : IsRunning /\ stored >= e ~> IsApplied(e) \/ ~IsRunning

\* Ending the context ends the run, wherever it is (run, drive).
ContextEndsRun == IsRunning /\ ended ~> ~IsRunning

-----------------------------------------------------------------------------
(***************************************************************************)
(* What the documentation says and the code does not do.                   *)
(***************************************************************************)

\* README.md, "Batching Events": "a resumable projection may apply up
\* to that many events a second time after a crash", that many being the size
\* of a batch: no more than that are applied and not covered by the checkpoint.
ReappliesUpToBatch ==
    mode = "resumable" =>
        \A i \in DOMAIN applied : applied[i] <= checkpoint + CatchUpBatchSize

\* StartProjection, and README.md, "Publishing Events": an event whose Apply
\* fails with ErrTransient is tried again, "any other error ends the run".
OtherErrorsEndRun == run.pc = "wait" => run.err.cause \in {"none", "transient"}
=============================================================================
