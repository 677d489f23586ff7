-------------------------- MODULE ProjectionProofs --------------------------
(***************************************************************************)
(* What the loop of a projection keeps true, for every size of a batch,    *)
(* every number of events, failures and restarts, and each kind of writer: *)
(* nothing is skipped, nothing is applied twice within a run, a            *)
(* transactional target holds everything exactly once, and what a run      *)
(* reports of itself is so.                                                *)
(***************************************************************************)
EXTENDS Projection, SequenceTheorems, TLAPS

\* Where drive has a stream at hand.
InDrive == run.pc \in {"drive", "commit", "lastCommit", "drained"}

\* What the phases of a run imply.
PhaseInv ==
    /\ run.pc = "drive" => run.inBatch < CatchUpBatchSize
    /\ run.pc = "drive" /\ run.isLive => run.inBatch = 0 /\ ~run.open
    /\ run.isLive => ~run.once
    /\ run.pc \in {"before", "wait"} => ~run.once
    /\ run.pc = "failed" /\ run.once => run.err.cause # "none"
    /\ inTx => /\ mode = "transactional" /\ run.open
               /\ run.pc \in {"drive", "commit", "lastCommit"}

\* Where the stream stands: behind what its writer has for a checkpoint, by
\* what the open transaction holds.
PositionInv ==
    /\ InDrive => run.position = Checkpoint + Len(tx)
    /\ ~inTx => tx = <<>>
    /\ \A i \in DOMAIN tx : tx[i] = checkpoint + i
    /\ mode = "rebuild" => checkpoint = 0
    /\ mode = "resumable" /\ run.lastApplied # 0 => checkpoint <= run.lastApplied

\* What the read model holds.
AppliedInv ==
    /\ NoEventSkipped
    /\ \A e \in 1 .. Checkpoint : IsApplied(e)
    /\ ExactlyOnce
    /\ mode # "transactional" =>
          \A i \in run.appliedAtStart + 1 .. Len(applied) : applied[i] <= run.lastApplied
    /\ NoEventTwice

\* How far the stream reaches, and what the run reports.
StatusInv ==
    /\ run.storedAtStart <= stored
    /\ InDrive => run.storedAtStart <= run.reach
    /\ run.pc \in {"lastCommit", "drained"} => ended \/ run.position >= run.reach
    /\ CaughtUpIsComplete
    /\ RevisionIsCommitted

Inv == TypeOK /\ PhaseInv /\ PositionInv /\ AppliedInv /\ StatusInv

-----------------------------------------------------------------------------
(***************************************************************************)
(* Types.                                                                  *)
(***************************************************************************)

LEMMA Names ==
    /\ "off" \in Phases /\ "before" \in Phases /\ "checkpoint" \in Phases
    /\ "drive" \in Phases /\ "commit" \in Phases /\ "lastCommit" \in Phases
    /\ "drained" \in Phases /\ "failed" \in Phases /\ "wait" \in Phases
    /\ "stopped" \in Phases
    /\ NoFailure \in Err
    /\ 0 \in Nat /\ 0 \in 0 .. CatchUpBatchSize /\ <<>> \in Seq(Nat)
    /\ InitialDelay \in InitialDelay .. MaxDelay
BY ProjectionAssumption DEF Phases, NoFailure, Failure, Err

LEMMA TypeNewStatus == NewStatus \in Status
BY Names DEF NewStatus, Status

LEMMA TypeInit == Init => TypeOK
<1> SUFFICES ASSUME Init PROVE TypeOK
  OBVIOUS
<1>1. run \in Run
  BY Names, SMT DEF Init, Run
<1> QED
  BY <1>1, TypeNewStatus, Names, Zenon DEF Init, TypeOK

\* Whatever Stop and Fails are called with, the run and its status keep their types.
LEMMA TypeEnds ==
    ASSUME TypeOK, NEW err \in Err
    PROVE  /\ Stop(err) => run' \in Run /\ status' \in Status
           /\ [run EXCEPT !.pc = "failed", !.err = err] \in Run
<1>1. ASSUME Stop(err) PROVE run' \in Run
  BY <1>1, Names, Zenon DEF TypeOK, Stop, Run
<1>2. ASSUME Stop(err) PROVE status' \in Status
  <2>1. "stopped" \in {"catching-up", "live", "reconnecting", "stopped"} /\ 0 \in Nat
    OBVIOUS
  <2> QED
    BY <1>2, <2>1, Zenon DEF TypeOK, Stop, Status
<1>3. [run EXCEPT !.pc = "failed", !.err = err] \in Run
  BY Names, Zenon DEF TypeOK, Run
<1> QED
  BY <1>1, <1>2, <1>3

LEMMA TypeFails ==
    ASSUME TypeOK, NEW cause \in Categories, Fails(cause)
    PROVE  run' \in Run /\ status' \in Status
<1>1. Failure(cause) \in Err
  BY DEF Failure, Err
<1> QED
  BY <1>1, TypeEnds DEF Fails, TypeOK

LEMMA TypePanics ==
    ASSUME TypeOK, Panics
    PROVE  run' \in Run /\ status' \in Status
<1>1. Failure("panic") \in Err
  BY DEF Failure, Err, Categories
<1> QED
  BY <1>1, TypeEnds DEF Panics

LEMMA TypeFailsAndRollsBack ==
    ASSUME TypeOK, NEW isOpen, NEW cause \in Categories, FailsAndRollsBack(isOpen, cause)
    PROVE  /\ run' \in Run /\ status' \in Status
           /\ applied' \in Seq(Nat) /\ checkpoint' \in Nat
           /\ tx' \in Seq(Nat) /\ inTx' \in BOOLEAN
<1>1. PICK rollback \in {"none", "transient", "other", "panic"} :
        run' = [run EXCEPT !.pc = "failed", !.err = [cause |-> cause, rollback |-> rollback]]
  BY DEF FailsAndRollsBack
<1>2. [cause |-> cause, rollback |-> rollback] \in Err
  BY DEF Err, Categories
<1>3. run' \in Run
  BY <1>1, <1>2, TypeEnds
<1> QED
  BY <1>3, Names, Zenon DEF FailsAndRollsBack, TypeOK

LEMMA TypeCommit ==
    ASSUME TypeOK, Commit
    PROVE  applied' \in Seq(Nat) /\ checkpoint' \in Nat
           /\ tx' \in Seq(Nat) /\ inTx' \in BOOLEAN
<1>1. run.position \in Nat
  BY DEF TypeOK, Run
<1>2. applied \o tx \in Seq(Nat)
  <2>1. applied \in Seq(Nat) /\ tx \in Seq(Nat)
    BY DEF TypeOK
  <2> QED
    BY <2>1
<1> QED
  BY <1>1, <1>2, Names, Zenon DEF TypeOK, Commit

LEMMA TypeCheckpoint == TypeOK => Checkpoint \in Nat
<1>1. ASSUME TypeOK PROVE run.lastApplied \in Nat
  BY <1>1 DEF TypeOK, Run
<1> QED
  BY <1>1 DEF TypeOK, Checkpoint

LEMMA TypeStep == TypeOK /\ PhaseInv /\ [Next]_vars => TypeOK'
<1> SUFFICES ASSUME TypeOK, PhaseInv, [Next]_vars PROVE TypeOK'
  OBVIOUS
<1>0. Checkpoint \in Nat
  BY TypeCheckpoint
<1>20. failures + 1 \in Nat
  BY DEF TypeOK
<1>1. CASE StoreEvent
  BY <1>1 DEF StoreEvent, TypeOK, target
<1>2. CASE Start
  <2>1. applied' \in Seq(Nat)
    BY <1>2, Names, Zenon DEF Start, TypeOK
  <2>2. run' \in Run
    <3>1. Len(applied') \in Nat /\ stored \in Nat
      BY <2>1 DEF TypeOK
    <3>2. \A once \in BOOLEAN : NewRun(once) \in Run
      BY <3>1, Names, SMT DEF NewRun, Run
    <3> QED
      BY <1>2, <3>2 DEF Start
  <2>3. status' \in Status
    BY <1>2, TypeNewStatus DEF Start
  <2>4. starts + 1 \in Nat
    BY DEF TypeOK
  <2> QED
    BY <1>2, <2>1, <2>2, <2>3, <2>4, Zenon DEF Start, TypeOK
<1>3. CASE EndContext
  BY <1>3 DEF EndContext, TypeOK, target
<1>4. CASE Crash
  <2>1. run' \in Run
    BY <1>4, Names, Zenon DEF Crash, TypeOK, Run
  <2> QED
    BY <1>4, <2>1, Names, Zenon DEF Crash, TypeOK
<1>5. CASE CatchUpStarts
  <2>1. run' \in Run
    BY <1>0, <1>5, Names, Zenon DEF CatchUpStarts, TypeOK, Run
  <2> QED
    BY <1>5, <2>1 DEF CatchUpStarts, TypeOK, target
<1>6. CASE ApplyEvent
  <2>1. run.inBatch + 1 \in 0 .. CatchUpBatchSize /\ run.position + 1 \in Nat
    <3>1. run.inBatch \in 0 .. CatchUpBatchSize /\ run.position \in Nat
      BY Zenon DEF TypeOK, Run
    <3>2. run.inBatch < CatchUpBatchSize
      BY <1>6 DEF ApplyEvent, HasNext, PhaseInv
    <3> QED
      BY <3>1, <3>2, ProjectionAssumption
  <2>2. run' \in Run
    BY <1>6, <2>1, Names, Zenon DEF ApplyEvent, TypeOK, Run
  <2>3. applied' \in Seq(Nat) /\ checkpoint' \in Nat
        /\ tx' \in Seq(Nat) /\ inTx' \in BOOLEAN
    <3> DEFINE e == run.position + 1
    <3>1. Append(applied, e) \in Seq(Nat)
          /\ Append(IF run.open THEN tx ELSE <<>>, e) \in Seq(Nat)
      <4>1. applied \in Seq(Nat) /\ tx \in Seq(Nat)
        BY DEF TypeOK
      <4> QED
        BY <2>1, <4>1
    <3> QED
      BY <1>6, <3>1, Zenon DEF ApplyEvent, Apply, TypeOK
  <2> QED
    BY <1>6, <2>2, <2>3 DEF ApplyEvent, TypeOK
<1>7. CASE CommitBatch
  <2>1. run' \in Run
    BY <1>7, Names, Zenon DEF CommitBatch, TypeOK, Run
  <2>2. status' \in Status
    BY <1>7 DEF CommitBatch, TypeOK, Run, Status
  <2> QED
    BY <1>7, <2>1, <2>2, TypeCommit DEF CommitBatch, TypeOK
<1>8. CASE StreamEnds
  <2>1. run' \in Run
    BY <1>8, Names, Zenon DEF StreamEnds, TypeOK, Run
  <2> QED
    BY <1>8, <2>1 DEF StreamEnds, TypeOK, target
<1>9. CASE Drained
  <2>1. CASE ended
    BY <1>9, <2>1, TypeFails DEF Drained, TypeOK, target, Categories
  <2>2. CASE ~ended /\ run.once
    BY <1>9, <2>2, Names, TypeEnds DEF Drained, TypeOK, target
  <2>3. CASE ~ended /\ ~run.once
    <3>1. run' = [run EXCEPT !.pc = "drive", !.isLive = TRUE, !.inBatch = 0, !.open = FALSE]
          /\ status' = [status EXCEPT !.phase = "live", !.err = NoFailure,
                                     !.attempts = 0, !.hasCaughtUp = TRUE]
      BY <1>9, <2>3 DEF Drained
    <3>2. run' \in Run
      BY <3>1, Names, Zenon DEF TypeOK, Run
    <3>3. status' \in Status
      <4>1. "live" \in {"catching-up", "live", "reconnecting", "stopped"}
        OBVIOUS
      <4> QED
        BY <3>1, <4>1, Names, Zenon DEF TypeOK, Status
    <3> QED
      BY <1>9, <3>2, <3>3 DEF Drained, TypeOK, target
  <2> QED
    BY <2>1, <2>2, <2>3 DEF TypeOK
<1>10. CASE CheckpointFails
  <2>1. run' \in Run /\ status' \in Status
    BY <1>10, TypeFails, TypePanics DEF CheckpointFails, Categories
  <2> QED
    BY <1>10, <2>1 DEF CheckpointFails, Disturbed, TypeOK, target
<1>11. CASE ReadFails
  <2>1. PICK cause \in {"transient", "other", "context"} : FailsAndRollsBack(run.open, cause)
    BY <1>11 DEF ReadFails
  <2>2. cause \in Categories
    BY DEF Categories
  <2> QED
    BY <1>11, <2>1, <2>2, <1>20, TypeFailsAndRollsBack DEF ReadFails, Disturbed, TypeOK
<1>12. CASE BeginFails
  <2>1. run' \in Run /\ status' \in Status
    BY <1>12, TypeFails, TypePanics DEF BeginFails, Categories
  <2> QED
    BY <1>12, <2>1 DEF BeginFails, Disturbed, TypeOK, target
<1>13. CASE ApplyFails
  <2>1. PICK cause \in {"transient", "other", "panic"} : FailsAndRollsBack(TRUE, cause)
    BY <1>13 DEF ApplyFails
  <2>2. cause \in Categories
    BY DEF Categories
  <2> QED
    BY <1>13, <2>1, <2>2, <1>20, TypeFailsAndRollsBack DEF ApplyFails, Disturbed, TypeOK
<1>14. CASE CommitFails
  <2>1. run' \in Run /\ status' \in Status
    BY <1>14, TypeFails, TypePanics DEF CommitFails, Categories
  <2>2. applied' \in Seq(Nat) /\ checkpoint' \in Nat
        /\ tx' \in Seq(Nat) /\ inTx' \in BOOLEAN
    <3>1. CASE Commit
      BY <3>1, TypeCommit
    <3>2. CASE tx' = <<>> /\ inTx' = FALSE /\ UNCHANGED <<applied, checkpoint>>
      BY <3>2, Names, Zenon DEF TypeOK
    <3> QED
      BY <1>14, <3>1, <3>2 DEF CommitFails
  <2> QED
    BY <1>14, <2>1, <2>2 DEF CommitFails, Disturbed, TypeOK
<1>15. CASE SessionStarts
  <2>1. run' \in Run /\ status' \in Status
    <3>1. CASE Panics
      BY <3>1, TypePanics
    <3>2. CASE ~Panics
      <4>1. PICK b \in Nat : run' = [run EXCEPT !.pc = "checkpoint", !.before = b,
                                               !.isLive = FALSE]
        BY <1>0, <1>15, <3>2, Names DEF SessionStarts
      <4> QED
        BY <1>15, <3>2, <4>1, Names, Zenon DEF SessionStarts, TypeOK, Run
    <3> QED
      BY <3>1, <3>2
  <2> QED
    BY <1>15, <2>1 DEF SessionStarts, Disturbed, TypeOK, target
<1>16. CASE GivesUp
  <2>1. NoFailure \in Err /\ run.err \in Err
    BY Names, Zenon DEF TypeOK, Run
  <2>2. run' \in Run /\ status' \in Status
    BY <1>16, <2>1, TypeEnds DEF GivesUp
  <2> QED
    BY <1>16, <2>2 DEF GivesUp, TypeOK, target
<1>17. CASE Reconnects
  <2>1. run' \in Run /\ status' \in Status
    <3>1. CASE Panics
      BY <3>1, TypePanics
    <3>2. CASE ~Panics
      <4>1. Disrupted \in Status
        <5>1. "reconnecting" \in {"catching-up", "live", "reconnecting", "stopped"}
              /\ 1 \in Nat
          OBVIOUS
        <5>2. status.attempts + 1 \in Nat
          BY DEF TypeOK, Status
        <5>3. run.err \in Err
          BY Zenon DEF TypeOK, Run
        <5> QED
          BY <5>1, <5>2, <5>3, Zenon DEF Disrupted, TypeOK, Status
      <4>2. ASSUME NEW isHealthy PROVE NextAttempt(isHealthy) \in Run
        <5>1. (IF isHealthy THEN 0 ELSE run.attempt) + 1 \in Nat
          BY DEF TypeOK, Run
        <5> QED
          BY <5>1, Names, Zenon DEF NextAttempt, TypeOK, Run
      <4> QED
        BY <1>17, <3>2, <4>1, <4>2 DEF Reconnects
    <3> QED
      BY <3>1, <3>2
  <2> QED
    BY <1>17, <1>20, <2>1, Zenon DEF Reconnects, Disturbed, TypeOK, target
<1>18. CASE WaitEnds
  <2>2. CASE run' = [run EXCEPT !.pc = "before",
                                !.delay = IF 2 * @ < MaxDelay THEN 2 * @ ELSE MaxDelay]
             /\ UNCHANGED status
    <3>1. (IF 2 * run.delay < MaxDelay THEN 2 * run.delay ELSE MaxDelay)
            \in InitialDelay .. MaxDelay
      BY ProjectionAssumption DEF TypeOK, Run
    <3>2. run' \in Run
      BY <2>2, <3>1, Names, Zenon DEF TypeOK, Run
    <3> QED
      BY <1>18, <2>2, <3>2 DEF WaitEnds, TypeOK, target
  <2>3. CASE Stop(NoFailure)
    BY <1>18, <2>3, Names, TypeEnds DEF WaitEnds, TypeOK, target
  <2> QED
    BY <1>18, <2>2, <2>3 DEF WaitEnds
<1>19. CASE UNCHANGED vars
  BY <1>19 DEF vars, TypeOK
<1>21. CASE LiveStreamEnds
  <2>1. run' \in Run /\ status' \in Status
    BY <1>21, Names, TypeEnds DEF LiveStreamEnds, Fails, NoFailure, TypeOK
  <2> QED
    BY <1>20, <1>21, <2>1 DEF LiveStreamEnds, Disturbed, TypeOK, target
<1> QED
  BY <1>1, <1>2, <1>3, <1>4, <1>5, <1>6, <1>7, <1>8, <1>9, <1>10, <1>11, <1>12, <1>13,
     <1>14, <1>15, <1>16, <1>17, <1>18, <1>19, <1>21
  DEF Next, Drive, Breaks, Loop

-----------------------------------------------------------------------------
(***************************************************************************)
(* The steps that leave drive, or happen outside of it.  They differ in    *)
(* where the run goes on, with which error, and what becomes of its delay; *)
(* all the rest of the run stays, and no transaction is open afterwards.   *)
(***************************************************************************)
Kept ==
    /\ run'.once = run.once /\ run'.lastApplied = run.lastApplied
    /\ run'.position = run.position /\ run'.reach = run.reach
    /\ run'.inBatch = run.inBatch /\ run'.open = run.open
    /\ run'.isLive => run.isLive
    /\ run'.storedAtStart = run.storedAtStart /\ run'.appliedAtStart = run.appliedAtStart

StatusKept ==
    /\ status'.revision = status.revision
    /\ status'.hasCaughtUp = status.hasCaughtUp

Leaves ==
    /\ run'.pc \notin {"drive", "commit", "lastCommit", "drained"}
    /\ Kept /\ StatusKept
    /\ tx' = <<>> /\ inTx' = FALSE
    /\ UNCHANGED <<mode, stored>>
    /\ run'.pc \in {"before", "wait"} => ~run.once
    /\ run'.pc = "failed" /\ run.once => run'.err.cause # "none"
    /\ run'.pc # "off" => run.pc # "off"
    /\ run.once /\ run'.pc = "stopped" /\ run'.err = NoFailure =>
          run.pc = "drained" /\ ~ended

\* Where no transaction can be open.
LEMMA NoTransaction ==
    ASSUME TypeOK, PhaseInv, PositionInv,
           run.pc \notin {"drive", "commit", "lastCommit"} \/ ~run.open
    PROVE  tx = <<>> /\ inTx = FALSE
<1>1. ~inTx
  BY DEF PhaseInv
<1> QED
  BY <1>1 DEF PositionInv

LEMMA StopKeeps ==
    ASSUME TypeOK, NEW err, Stop(err)
    PROVE  /\ run'.pc = "stopped" /\ run'.err = err
           /\ Kept /\ StatusKept
<1>1. run'.pc = "stopped" /\ run'.err = err /\ Kept
  BY DEF Stop, TypeOK, Run, Kept
<1>2. StatusKept
  BY DEF Stop, TypeOK, Status, StatusKept
<1> QED
  BY <1>1, <1>2

LEMMA PanicsKeeps ==
    ASSUME TypeOK, Panics
    PROVE  /\ run'.pc = "stopped" /\ run'.err # NoFailure
           /\ Kept /\ StatusKept
<1>1. Failure("panic") # NoFailure
  BY DEF Failure, NoFailure
<1> QED
  BY <1>1, StopKeeps DEF Panics

LEMMA FailsKeeps ==
    ASSUME TypeOK, NEW cause, Fails(cause)
    PROVE  /\ run'.pc = "failed" /\ run'.err.cause = cause
           /\ Kept /\ StatusKept
<1>1. run'.pc = "failed" /\ run'.err = Failure(cause) /\ Kept
  BY DEF Fails, TypeOK, Run, Kept
<1>2. StatusKept
  BY DEF Fails, StatusKept
<1> QED
  BY <1>1, <1>2 DEF Failure

LEMMA FailsAndRollsBackKeeps ==
    ASSUME TypeOK, NEW isOpen, NEW cause, FailsAndRollsBack(isOpen, cause)
    PROVE  /\ run'.pc = "failed" /\ run'.err.cause = cause
           /\ Kept /\ StatusKept
<1>1. PICK rollback :
        run' = [run EXCEPT !.pc = "failed", !.err = [cause |-> cause, rollback |-> rollback]]
  BY DEF FailsAndRollsBack
<1>2. run'.pc = "failed" /\ run'.err = [cause |-> cause, rollback |-> rollback] /\ Kept
  BY <1>1 DEF TypeOK, Run, Kept
<1>3. StatusKept
  BY DEF FailsAndRollsBack, StatusKept
<1> QED
  BY <1>2, <1>3

\* The steps that leave drive or happen outside of it are such steps, and
\* apply and commit nothing, but for a commit that fails after it took effect.
LEMMA LeavingSteps ==
    ASSUME TypeOK, PhaseInv, PositionInv,
           \/ Crash \/ CheckpointFails \/ ReadFails \/ BeginFails \/ ApplyFails
           \/ LiveStreamEnds \/ SessionStarts \/ GivesUp \/ Reconnects \/ WaitEnds
           \/ Drained /\ (ended \/ run.once)
    PROVE  Leaves /\ UNCHANGED <<applied, checkpoint>>
<1>1. CASE Crash
  <2>1. run'.pc = "off" /\ Kept
    BY <1>1 DEF Crash, TypeOK, Run, Kept
  <2> QED
    BY <1>1, <2>1 DEF Crash, Leaves, StatusKept
<1>2. CASE CheckpointFails
  <2>1. tx = <<>> /\ inTx = FALSE
    BY <1>2, NoTransaction DEF CheckpointFails
  <2>2. CASE Panics
    BY <1>2, <2>1, <2>2, PanicsKeeps DEF CheckpointFails, Leaves, target
  <2>3. CASE Fails("transient") \/ Fails("other")
    BY <1>2, <2>1, <2>3, FailsKeeps DEF CheckpointFails, Leaves, target
  <2> QED
    BY <1>2, <2>2, <2>3 DEF CheckpointFails
<1>3. CASE ReadFails
  <2>1. PICK cause \in {"transient", "other", "context"} : FailsAndRollsBack(run.open, cause)
    BY <1>3 DEF ReadFails
  <2>2. run'.pc = "failed" /\ run'.err.cause # "none" /\ Kept /\ StatusKept
    BY <2>1, FailsAndRollsBackKeeps
  <2> QED
    BY <1>3, <2>1, <2>2 DEF ReadFails, FailsAndRollsBack, Leaves
<1>4. CASE BeginFails
  <2>1. tx = <<>> /\ inTx = FALSE
    BY <1>4, NoTransaction DEF BeginFails
  <2>2. CASE Panics
    BY <1>4, <2>1, <2>2, PanicsKeeps DEF BeginFails, HasNext, Leaves, target
  <2>3. CASE Fails("transient") \/ Fails("other")
    BY <1>4, <2>1, <2>3, FailsKeeps DEF BeginFails, HasNext, Leaves, target
  <2> QED
    BY <1>4, <2>2, <2>3 DEF BeginFails
<1>5. CASE ApplyFails
  <2>1. PICK cause \in {"transient", "other", "panic"} : FailsAndRollsBack(TRUE, cause)
    BY <1>5 DEF ApplyFails
  <2>2. run'.pc = "failed" /\ run'.err.cause # "none" /\ Kept /\ StatusKept
    BY <2>1, FailsAndRollsBackKeeps
  <2> QED
    BY <1>5, <2>1, <2>2 DEF ApplyFails, HasNext, FailsAndRollsBack, Leaves
<1>6. CASE SessionStarts
  <2>1. tx = <<>> /\ inTx = FALSE
    BY <1>6, NoTransaction DEF SessionStarts
  <2>2. CASE Panics
    BY <1>6, <2>1, <2>2, PanicsKeeps DEF SessionStarts, Leaves, target
  <2>3. CASE ~Panics
    <3>1. run'.pc = "checkpoint" /\ Kept /\ UNCHANGED status
      BY <1>6, <2>3 DEF SessionStarts, TypeOK, Run, Kept
    <3> QED
      BY <1>6, <2>1, <3>1 DEF SessionStarts, Leaves, StatusKept, target
  <2> QED
    BY <2>2, <2>3
<1>7. CASE GivesUp
  <2>1. tx = <<>> /\ inTx = FALSE
    BY <1>7, NoTransaction DEF GivesUp
  <2>2. run.once => run.err # NoFailure
    BY <1>7 DEF GivesUp, PhaseInv, NoFailure, Failure
  <2>3. \/ Stop(run.err)
        \/ Stop(NoFailure) /\ ~run.once
    BY <1>7 DEF GivesUp
  <2>4. /\ run'.pc = "stopped" /\ Kept /\ StatusKept
        /\ run'.err # NoFailure \/ ~run.once
    BY <2>2, <2>3, StopKeeps
  <2> QED
    BY <1>7, <2>1, <2>4 DEF GivesUp, Leaves, target
<1>8. CASE Reconnects
  <2>1. tx = <<>> /\ inTx = FALSE
    BY <1>8, NoTransaction DEF Reconnects
  <2>2. CASE Panics
    BY <1>8, <2>1, <2>2, PanicsKeeps DEF Reconnects, Leaves, target
  <2>3. CASE ~Panics
    <3>1. status' = Disrupted /\ \E isHealthy : run' = NextAttempt(isHealthy)
      BY <1>8, <2>3 DEF Reconnects
    <3>2. run'.pc = "wait" /\ Kept
      BY <3>1 DEF NextAttempt, TypeOK, Run, Kept
    <3>3. StatusKept
      BY <3>1 DEF Disrupted, TypeOK, Status, StatusKept
    <3> QED
      BY <1>8, <2>1, <3>2, <3>3 DEF Reconnects, Leaves, target
  <2> QED
    BY <2>2, <2>3
<1>9. CASE WaitEnds
  <2>1. tx = <<>> /\ inTx = FALSE /\ ~run.once
    BY <1>9, NoTransaction DEF WaitEnds, PhaseInv
  <2>2. CASE Stop(NoFailure)
    BY <1>9, <2>1, <2>2, StopKeeps DEF WaitEnds, Leaves, target
  <2>3. CASE ~Stop(NoFailure)
    <3>1. run'.pc = "before" /\ Kept /\ UNCHANGED status
      BY <1>9, <2>3 DEF WaitEnds, TypeOK, Run, Kept
    <3> QED
      BY <1>9, <2>1, <3>1 DEF WaitEnds, Leaves, StatusKept, target
  <2> QED
    BY <2>2, <2>3
<1>10. CASE Drained /\ (ended \/ run.once)
  <2>1. tx = <<>> /\ inTx = FALSE
    BY <1>10, NoTransaction DEF Drained
  <2>2. CASE ended
    <3>1. run'.pc = "failed" /\ run'.err.cause = "context" /\ Kept /\ StatusKept
      BY <1>10, <2>2, FailsKeeps DEF Drained
    <3> QED
      BY <1>10, <2>1, <3>1 DEF Drained, Leaves, target
  <2>3. CASE ~ended
    <3>1. run'.pc = "stopped" /\ Kept /\ StatusKept
      BY <1>10, <2>3, StopKeeps DEF Drained
    <3> QED
      BY <1>10, <2>1, <2>3, <3>1 DEF Drained, Leaves, target
  <2> QED
    BY <2>2, <2>3
<1>11. CASE LiveStreamEnds
  <2>1. run.pc = "drive" /\ ~run.open /\ ~run.once
    BY <1>11 DEF LiveStreamEnds, PhaseInv
  <2>2. tx = <<>> /\ inTx = FALSE
    BY <2>1, NoTransaction
  <2>3. run'.pc = "failed" /\ Kept /\ StatusKept
    BY <1>11, FailsKeeps DEF LiveStreamEnds
  <2> QED
    BY <1>11, <2>1, <2>2, <2>3 DEF LiveStreamEnds, Leaves, target
<1> QED
  BY <1>1, <1>2, <1>3, <1>4, <1>5, <1>6, <1>7, <1>8, <1>9, <1>10, <1>11

-----------------------------------------------------------------------------
(***************************************************************************)
(* The invariant over a step that leaves drive and applies nothing.        *)
(***************************************************************************)

LEMMA AppliedKept ==
    ASSUME AppliedInv, UNCHANGED <<mode, applied, checkpoint>>,
           run'.lastApplied = run.lastApplied, run'.appliedAtStart = run.appliedAtStart
    PROVE  AppliedInv' /\ Checkpoint' = Checkpoint /\ \A e : IsApplied(e)' = IsApplied(e)
<1>1. AsksTarget' = AsksTarget
  BY DEF AsksTarget
<1>2. Checkpoint' = Checkpoint
  BY <1>1 DEF Checkpoint
<1>3. \A e : IsApplied(e)' = IsApplied(e)
  BY DEF IsApplied
<1>4. NoEventSkipped'
  BY <1>3 DEF AppliedInv, NoEventSkipped
<1>5. \A e \in 1 .. Checkpoint' : IsApplied(e)'
  BY <1>2, <1>3 DEF AppliedInv
<1>6. ExactlyOnce'
  BY DEF AppliedInv, ExactlyOnce
<1>7. mode' # "transactional" =>
        \A i \in run'.appliedAtStart + 1 .. Len(applied') : applied'[i] <= run'.lastApplied
  BY DEF AppliedInv
<1>8. NoEventTwice'
  BY DEF AppliedInv, NoEventTwice
<1> QED
  BY <1>2, <1>3, <1>4, <1>5, <1>6, <1>7, <1>8 DEF AppliedInv

LEMMA DrainedIsApplied ==
    ASSUME Inv, run.pc = "drained", ~ended
    PROVE  \A e \in 1 .. run.storedAtStart : IsApplied(e)
<1>1. tx = <<>>
  BY NoTransaction DEF Inv
<1>2. run.position = Checkpoint + Len(tx) /\ Len(tx) = 0
  BY <1>1 DEF Inv, PositionInv, InDrive
<1>3. run.storedAtStart <= run.reach /\ run.position >= run.reach
  BY DEF Inv, StatusInv, InDrive
<1>4. run.storedAtStart \in Nat /\ run.reach \in Nat /\ run.position \in Nat
      /\ Checkpoint \in Nat
  BY TypeCheckpoint DEF Inv, TypeOK, Run
<1>5. 1 .. run.storedAtStart \subseteq 1 .. Checkpoint
  BY <1>2, <1>3, <1>4
<1> QED
  BY <1>5 DEF Inv, AppliedInv

LEMMA LeavesKeepsInv ==
    ASSUME Inv, TypeOK', Leaves, UNCHANGED <<applied, checkpoint>>
    PROVE  Inv'
<1>1. AppliedInv' /\ Checkpoint' = Checkpoint /\ \A e : IsApplied(e)' = IsApplied(e)
  BY AppliedKept DEF Inv, Leaves, Kept
<1>2. PhaseInv'
  BY DEF Leaves, Kept, Inv, PhaseInv
<1>3. PositionInv'
  <2>1. ~InDrive'
    BY DEF Leaves, InDrive
  <2>2. mode' = mode /\ run'.lastApplied = run.lastApplied /\ checkpoint' = checkpoint
    BY DEF Leaves, Kept
  <2>3. tx' = <<>>
    BY DEF Leaves
  <2> QED
    BY <2>1, <2>2, <2>3 DEF Inv, PositionInv
<1>4. CaughtUpIsComplete'
  <2>1. run'.storedAtStart = run.storedAtStart
    BY DEF Leaves, Kept
  <2>2. CASE run'.pc # "off" /\ status'.hasCaughtUp
    <3>1. run.pc # "off" /\ status.hasCaughtUp
      BY <2>2 DEF Leaves, StatusKept
    <3>2. \A e \in 1 .. run.storedAtStart : IsApplied(e)
      BY <3>1 DEF Inv, StatusInv, CaughtUpIsComplete
    <3> QED
      BY <1>1, <2>1, <3>2 DEF CaughtUpIsComplete
  <2>3. CASE run'.once /\ run'.pc = "stopped" /\ run'.err = NoFailure
    <3>1. run.pc = "drained" /\ ~ended
      BY <2>3 DEF Leaves, Kept
    <3> QED
      BY <1>1, <2>1, <3>1, DrainedIsApplied DEF CaughtUpIsComplete
  <2> QED
    BY <2>2, <2>3 DEF CaughtUpIsComplete
<1>5. RevisionIsCommitted'
  BY DEF Inv, StatusInv, RevisionIsCommitted, Leaves, Kept, StatusKept
<1>6. StatusInv'
  BY <1>4, <1>5 DEF Inv, StatusInv, Leaves, Kept, InDrive
<1> QED
  BY <1>1, <1>2, <1>3, <1>6 DEF Inv

-----------------------------------------------------------------------------
(***************************************************************************)
(* A commit that takes effect, reported as such or as failed.              *)
(***************************************************************************)
Commits ==
    /\ run.pc \in {"commit", "lastCommit"}
    /\ Commit
    /\ UNCHANGED <<mode, stored>>
    /\ run'.lastApplied = run.lastApplied /\ run'.appliedAtStart = run.appliedAtStart

\* What is read after is what is committed, and a checkpoint never goes back.
LEMMA CommitMovesCheckpoint ==
    ASSUME TypeOK, PhaseInv, PositionInv, Commits
    PROVE  /\ Checkpoint' = run.position /\ Checkpoint <= run.position
           /\ mode # "rebuild" => checkpoint' = run.position
           /\ checkpoint <= checkpoint'
           /\ mode # "transactional" => run.position = Checkpoint
<1>1. /\ run.position \in Nat /\ checkpoint \in Nat /\ run.lastApplied \in Nat
      /\ tx \in Seq(Nat) /\ Len(tx) \in Nat
  BY DEF TypeOK, Run
<1>2. run.position = Checkpoint + Len(tx)
  BY DEF Commits, PositionInv, InDrive
<1>3. mode # "transactional" => Len(tx) = 0
  BY DEF PhaseInv, PositionInv
<1>4. checkpoint' = IF mode = "rebuild" THEN checkpoint ELSE run.position
  BY DEF Commits, Commit
<1>5. Checkpoint \in Nat
  BY TypeCheckpoint
<1>6. mode \in {"rebuild", "resumable", "transactional"}
  BY ProjectionAssumption DEF TypeOK
<1>7. CASE mode = "rebuild"
  BY <1>1, <1>2, <1>3, <1>4, <1>7 DEF Checkpoint, AsksTarget, Commits
<1>8. CASE mode = "resumable"
  <2>1. Checkpoint = IF run.lastApplied = 0 THEN checkpoint ELSE run.lastApplied
    BY <1>8 DEF Checkpoint, AsksTarget
  <2>2. Checkpoint' = IF run.lastApplied = 0 THEN checkpoint' ELSE run.lastApplied
    BY <1>8 DEF Checkpoint, AsksTarget, Commits
  <2>3. run.lastApplied # 0 => checkpoint <= run.lastApplied
    BY <1>8 DEF PositionInv
  <2> QED
    BY <1>1, <1>2, <1>3, <1>4, <1>8, <2>1, <2>2, <2>3
<1>9. CASE mode = "transactional"
  <2>1. Checkpoint = checkpoint /\ Checkpoint' = checkpoint'
    BY <1>9 DEF Checkpoint, AsksTarget, Commits
  <2> QED
    BY <1>1, <1>2, <1>4, <1>9, <2>1
<1> QED
  BY <1>6, <1>7, <1>8, <1>9

LEMMA CommitKeepsApplied ==
    ASSUME TypeOK, PhaseInv, PositionInv, AppliedInv, Commits
    PROVE  AppliedInv' /\ \A e : IsApplied(e) => IsApplied(e)'
<1>1. CASE mode # "transactional"
  <2>1. applied' = applied /\ mode' = mode /\ run'.lastApplied = run.lastApplied
        /\ run'.appliedAtStart = run.appliedAtStart
    BY <1>1 DEF Commits, Commit
  <2>2. \A e : IsApplied(e)' = IsApplied(e)
    BY <2>1 DEF IsApplied
  <2>3. Checkpoint' = Checkpoint
    BY <1>1, CommitMovesCheckpoint
  <2>4. checkpoint' = checkpoint \/ checkpoint' = Checkpoint
    BY <1>1, CommitMovesCheckpoint DEF Commits, Commit
  <2>5. NoEventSkipped'
    <3>1. \A i \in DOMAIN applied' : \A e \in 1 .. applied'[i] - 1 :
             \E j \in 1 .. i - 1 : applied'[j] = e
      BY <2>1 DEF AppliedInv, NoEventSkipped
    <3>2. \A e \in 1 .. checkpoint' : IsApplied(e)'
      BY <2>2, <2>4 DEF AppliedInv, NoEventSkipped
    <3> QED
      BY <3>1, <3>2 DEF NoEventSkipped
  <2>6. \A e \in 1 .. Checkpoint' : IsApplied(e)'
    BY <2>2, <2>3 DEF AppliedInv
  <2>7. ExactlyOnce'
    BY <1>1, <2>1 DEF ExactlyOnce
  <2>8. \A i \in run'.appliedAtStart + 1 .. Len(applied') : applied'[i] <= run'.lastApplied
    BY <1>1, <2>1 DEF AppliedInv
  <2>9. NoEventTwice'
    BY <2>1 DEF AppliedInv, NoEventTwice
  <2> QED
    BY <2>2, <2>5, <2>6, <2>7, <2>8, <2>9 DEF AppliedInv
<1>2. CASE mode = "transactional"
  <2>1. /\ Len(applied) = checkpoint /\ checkpoint \in Nat
        /\ \A i \in DOMAIN applied : applied[i] = i
        /\ \A i \in DOMAIN tx : tx[i] = checkpoint + i
        /\ applied \in Seq(Nat) /\ tx \in Seq(Nat)
    BY <1>2 DEF AppliedInv, ExactlyOnce, PositionInv, TypeOK
  <2>2. run.position = checkpoint + Len(tx)
    BY <1>2 DEF Commits, PositionInv, InDrive, Checkpoint, AsksTarget
  <2>3. applied' = applied \o tx /\ checkpoint' = run.position /\ mode' = mode
    BY <1>2 DEF Commits, Commit
  <2>4. /\ Len(applied') = checkpoint' /\ DOMAIN applied' = 1 .. checkpoint'
        /\ \A i \in 1 .. checkpoint' : applied'[i] = i
    <3>1. /\ Len(tx) \in Nat /\ DOMAIN tx = 1 .. Len(tx)
          /\ DOMAIN applied = 1 .. checkpoint
      BY <2>1
    <3>2. /\ applied' \in Seq(Nat) /\ Len(applied') = checkpoint + Len(tx)
          /\ \A i \in 1 .. checkpoint + Len(tx) :
                applied'[i] = IF i <= checkpoint THEN applied[i] ELSE tx[i - checkpoint]
      BY <2>1, <2>3, ConcatProperties
    <3>3. ASSUME NEW i \in 1 .. checkpoint + Len(tx) PROVE applied'[i] = i
      <4>1. CASE i <= checkpoint
        <5>1. i \in DOMAIN applied /\ applied'[i] = applied[i]
          BY <2>1, <3>1, <3>2, <4>1
        <5> QED
          BY <2>1, <5>1
      <4>2. CASE ~(i <= checkpoint)
        <5>1. applied'[i] = tx[i - checkpoint]
          BY <3>2, <4>2
        <5>2. i - checkpoint \in 1 .. Len(tx)
          BY <2>1, <3>1, <4>2
        <5>3. tx[i - checkpoint] = checkpoint + (i - checkpoint)
          BY <2>1, <3>1, <5>2
        <5> QED
          BY <2>1, <5>1, <5>3
      <4> QED
        BY <4>1, <4>2
    <3> QED
      BY <2>2, <2>3, <3>2, <3>3
  <2>5. checkpoint' \in Nat
    BY <2>1, <2>2, <2>3
  <2>6. \A e \in 1 .. checkpoint' : IsApplied(e)'
    BY <2>4 DEF IsApplied
  <2>7. NoEventSkipped'
    <3>1. ASSUME NEW i \in DOMAIN applied', NEW e \in 1 .. applied'[i] - 1
          PROVE  \E j \in 1 .. i - 1 : applied'[j] = e
      <4>1. i \in 1 .. checkpoint' /\ e \in 1 .. i - 1
        BY <2>4
      <4>2. e \in 1 .. checkpoint'
        BY <2>5, <4>1
      <4> QED
        BY <2>4, <4>1, <4>2
    <3> QED
      BY <2>6, <3>1 DEF NoEventSkipped
  <2>8. \A e \in 1 .. Checkpoint' : IsApplied(e)'
    BY <1>2, <2>3, <2>6 DEF Checkpoint, AsksTarget
  <2>9. ExactlyOnce'
    BY <2>4 DEF ExactlyOnce
  <2>10. NoEventTwice'
    <3>1. run'.appliedAtStart \in Nat
      BY DEF Commits, TypeOK, Run
    <3> QED
      BY <2>4, <2>5, <3>1 DEF NoEventTwice
  <2>11. ASSUME NEW e, IsApplied(e) PROVE IsApplied(e)'
    <3>1. e \in 1 .. checkpoint
      BY <2>1, <2>11 DEF IsApplied
    <3>2. e \in 1 .. checkpoint'
      BY <2>1, <2>2, <2>3, <3>1
    <3> QED
      BY <2>6, <3>2
  <2> QED
    BY <1>2, <2>3, <2>7, <2>8, <2>9, <2>10, <2>11 DEF AppliedInv
<1> QED
  BY <1>1, <1>2

\* The checkpoint's part of the invariant after a commit, wherever the run goes on.
LEMMA CommitKeepsPosition ==
    ASSUME TypeOK, PhaseInv, PositionInv, Commits,
           InDrive' => run'.position = run.position
    PROVE  PositionInv'
<1>1. tx' = <<>> /\ mode' = mode /\ run'.lastApplied = run.lastApplied
  BY DEF Commits, Commit
<1>2. Len(tx') = 0 /\ run.position \in Nat
  BY <1>1 DEF TypeOK, Run
<1>3. InDrive' => run'.position = Checkpoint' + Len(tx')
  BY <1>2, CommitMovesCheckpoint
<1>4. mode' = "rebuild" => checkpoint' = 0
  BY <1>1 DEF PositionInv, Commits, Commit
<1>5. mode' = "resumable" /\ run'.lastApplied # 0 => checkpoint' <= run'.lastApplied
  <2>1. mode = "resumable" /\ run.lastApplied # 0 =>
          Checkpoint' = run.lastApplied /\ checkpoint' = Checkpoint'
    BY <1>1, CommitMovesCheckpoint DEF Checkpoint, AsksTarget
  <2>2. run.lastApplied \in Nat
    BY DEF TypeOK, Run
  <2> QED
    BY <1>1, <2>1, <2>2
<1> QED
  BY <1>1, <1>3, <1>4, <1>5 DEF PositionInv

LEMMA CommitBatchKeepsInv == Inv /\ TypeOK' /\ CommitBatch => Inv'
<1> SUFFICES ASSUME Inv, TypeOK', CommitBatch PROVE Inv'
  OBVIOUS
<1>1. /\ run'.pc = IF run.pc = "commit" THEN "drive" ELSE "drained"
      /\ run'.once = run.once /\ run'.lastApplied = run.lastApplied
      /\ run'.position = run.position /\ run'.reach = run.reach
      /\ run'.inBatch = 0 /\ run'.open = FALSE /\ run'.err = run.err
      /\ run'.isLive => run.isLive
      /\ run'.storedAtStart = run.storedAtStart
      /\ run'.appliedAtStart = run.appliedAtStart
  BY DEF CommitBatch, Inv, TypeOK, Run
<1>2. TypeOK /\ PhaseInv /\ PositionInv /\ AppliedInv /\ StatusInv
  BY DEF Inv
<1>3. Commits /\ UNCHANGED <<mode, stored, ended>> /\ run.pc \in {"commit", "lastCommit"}
  BY <1>1 DEF CommitBatch, Commits
<1>4. AppliedInv' /\ \A e : IsApplied(e) => IsApplied(e)'
  BY <1>2, <1>3, CommitKeepsApplied
<1>5. PositionInv'
  BY <1>1, <1>2, <1>3, CommitKeepsPosition
<1>6. PhaseInv'
  <2>1. tx' = <<>> /\ inTx' = FALSE
    BY <1>3 DEF Commits, Commit
  <2> QED
    BY <1>1, <1>2, <1>3, <2>1, ProjectionAssumption DEF PhaseInv
<1>7. StatusInv'
  <2>1. status' = IF run.once THEN status ELSE [status EXCEPT !.revision = run.position]
    BY DEF CommitBatch
  <2>2. status'.hasCaughtUp = status.hasCaughtUp
        /\ status'.revision \in {status.revision, run.position}
    BY <1>2, <2>1 DEF TypeOK, Status
  <2>3. CaughtUpIsComplete'
    BY <1>1, <1>2, <1>3, <1>4, <2>2 DEF StatusInv, CaughtUpIsComplete
  <2>4. RevisionIsCommitted'
    <3>1. /\ run.position \in Nat /\ checkpoint \in Nat /\ checkpoint' \in Nat
          /\ run.lastApplied \in Nat /\ status.revision \in Nat
      <4>1. checkpoint' \in Nat
        BY DEF TypeOK
      <4> QED
        BY <1>2, <4>1 DEF TypeOK, Run, Status
    <3>2. status.revision <= IF mode = "rebuild" THEN run.lastApplied ELSE checkpoint
      BY <1>2, <1>3 DEF StatusInv, RevisionIsCommitted
    <3>3. /\ Checkpoint' = run.position /\ checkpoint <= checkpoint'
          /\ mode # "rebuild" => checkpoint' = run.position
      BY <1>2, <1>3, CommitMovesCheckpoint
    <3>4. mode = "rebuild" => run.lastApplied = run.position
      BY <1>1, <1>3, <3>3 DEF Checkpoint, AsksTarget
    <3> QED
      BY <1>1, <1>3, <2>2, <3>1, <3>2, <3>3, <3>4 DEF RevisionIsCommitted
  <2>5. run'.storedAtStart <= stored' /\ run'.storedAtStart <= run'.reach
    BY <1>1, <1>2, <1>3 DEF StatusInv, InDrive
  <2>6. run'.pc \in {"lastCommit", "drained"} => ended' \/ run'.position >= run'.reach
    BY <1>1, <1>2, <1>3 DEF StatusInv
  <2> QED
    BY <2>3, <2>4, <2>5, <2>6 DEF StatusInv
<1> QED
  BY <1>4, <1>5, <1>6, <1>7 DEF Inv

\* A commit that is reported as failed has taken effect, or has not.
LEMMA CommitFailsKeepsInv == Inv /\ TypeOK' /\ CommitFails => Inv'
<1> SUFFICES ASSUME Inv, TypeOK', CommitFails PROVE Inv'
  OBVIOUS
<1>1. TypeOK /\ PhaseInv /\ PositionInv /\ AppliedInv /\ StatusInv
  BY DEF Inv
<1>2. Leaves
  <2>1. tx' = <<>> /\ inTx' = FALSE
    BY DEF CommitFails, Commit
  <2>2. CASE Panics
    BY <1>1, <2>1, <2>2, PanicsKeeps DEF CommitFails, Leaves
  <2>3. CASE Fails("transient") \/ Fails("other")
    BY <1>1, <2>1, <2>3, FailsKeeps DEF CommitFails, Leaves
  <2> QED
    BY <2>2, <2>3 DEF CommitFails
<1>3. CASE UNCHANGED <<applied, checkpoint>>
  BY <1>2, <1>3, LeavesKeepsInv
<1>4. CASE Commit
  <2>1. Commits
    BY <1>2, <1>4 DEF CommitFails, Commits, Leaves, Kept
  <2>2. AppliedInv' /\ \A e : IsApplied(e) => IsApplied(e)'
    BY <1>1, <2>1, CommitKeepsApplied
  <2>3. PositionInv'
    BY <1>1, <1>2, <2>1, CommitKeepsPosition DEF Leaves, Kept
  <2>4. PhaseInv'
    BY <1>1, <1>2 DEF Leaves, Kept, PhaseInv
  <2>5. CaughtUpIsComplete'
    BY <1>1, <1>2, <2>2
    DEF CommitFails, StatusInv, CaughtUpIsComplete, Leaves, Kept, StatusKept
  <2>6. RevisionIsCommitted'
    <3>1. /\ checkpoint \in Nat /\ checkpoint' \in Nat
          /\ run.lastApplied \in Nat /\ status.revision \in Nat
      <4>1. checkpoint' \in Nat
        BY DEF TypeOK
      <4> QED
        BY <1>1, <4>1 DEF TypeOK, Run, Status
    <3>2. status.revision <= IF mode = "rebuild" THEN run.lastApplied ELSE checkpoint
      BY <1>1 DEF StatusInv, RevisionIsCommitted, CommitFails
    <3>3. checkpoint <= checkpoint'
      BY <1>1, <2>1, CommitMovesCheckpoint
    <3> QED
      BY <1>2, <3>1, <3>2, <3>3 DEF RevisionIsCommitted, Leaves, Kept, StatusKept
  <2>7. StatusInv'
    BY <1>1, <1>2, <2>5, <2>6 DEF StatusInv, Leaves, Kept, InDrive
  <2> QED
    BY <2>2, <2>3, <2>4, <2>7 DEF Inv
<1> QED
  BY <1>3, <1>4 DEF CommitFails

-----------------------------------------------------------------------------
(***************************************************************************)
(* An event is applied: to the open transaction, or to the read model.     *)
(***************************************************************************)

\* What a writer without transactions remembers is never beyond the stream.
LEMMA PositionFacts ==
    ASSUME Inv, run.pc = "drive"
    PROVE  /\ run.position \in Nat /\ checkpoint \in Nat /\ run.lastApplied \in Nat
           /\ mode # "transactional" => /\ tx = <<>> /\ run.position = Checkpoint
                                        /\ run.lastApplied <= run.position
<1>1. /\ run.position \in Nat /\ checkpoint \in Nat /\ run.lastApplied \in Nat
      /\ Checkpoint \in Nat
  BY TypeCheckpoint DEF Inv, TypeOK, Run
<1>2. ASSUME mode # "transactional"
      PROVE  tx = <<>> /\ run.position = Checkpoint /\ run.lastApplied <= run.position
  <2>1. tx = <<>> /\ Len(tx) = 0
    BY <1>2 DEF Inv, PhaseInv, PositionInv
  <2>2. run.position = Checkpoint + Len(tx)
    BY DEF Inv, PositionInv, InDrive
  <2>3. run.lastApplied <= Checkpoint
    BY <1>1, <1>2 DEF Checkpoint, AsksTarget
  <2> QED
    BY <1>1, <2>1, <2>2, <2>3
<1> QED
  BY <1>1, <1>2

LEMMA AppendKeepsApplied ==
    ASSUME Inv, HasNext, mode # "transactional", UNCHANGED <<mode, checkpoint>>,
           applied' = Append(applied, run.position + 1),
           run'.lastApplied = run.position + 1,
           run'.appliedAtStart = run.appliedAtStart
    PROVE  AppliedInv' /\ \A e : IsApplied(e) => IsApplied(e)'
<1> DEFINE n == Len(applied)
           new == run.position + 1
<1>1. /\ run.position \in Nat /\ checkpoint \in Nat /\ run.lastApplied \in Nat
      /\ run.position = Checkpoint /\ run.lastApplied <= run.position
  BY PositionFacts DEF HasNext
<1>2. applied \in Seq(Nat) /\ n \in Nat /\ DOMAIN applied = 1 .. n
      /\ run.appliedAtStart \in Nat
  BY DEF Inv, TypeOK, Run
<1>3. /\ Len(applied') = n + 1 /\ DOMAIN applied' = 1 .. n + 1
      /\ \A i \in 1 .. n : applied'[i] = applied[i]
      /\ applied'[n + 1] = new
  BY <1>1, <1>2, AppendProperties
<1> HIDE DEF n, new
<1>4. new \in Nat /\ run.position = new - 1 /\ new # 0 /\ run'.lastApplied = new
  BY <1>1 DEF new
<1>5. AppliedInv
  BY DEF Inv
<1>6. ASSUME NEW e, IsApplied(e) PROVE IsApplied(e)'
  <2>1. PICK i \in 1 .. n : applied[i] = e
    BY <1>2, <1>6 DEF IsApplied
  <2>2. i \in DOMAIN applied' /\ applied'[i] = e
    BY <1>2, <1>3, <2>1
  <2> QED
    BY <2>2 DEF IsApplied
<1>7. ASSUME NEW e, e = new PROVE IsApplied(e)'
  <2>1. n + 1 \in DOMAIN applied'
    BY <1>2, <1>3
  <2> QED
    BY <1>3, <1>7, <2>1 DEF IsApplied
<1>8. NoEventSkipped'
  <2>1. ASSUME NEW i \in 1 .. n + 1, NEW e \in 1 .. applied'[i] - 1
        PROVE  \E j \in 1 .. i - 1 : applied'[j] = e
    <3>1. CASE i \in 1 .. n
      <4>1. PICK j \in 1 .. i - 1 : applied[j] = e
        BY <1>2, <1>3, <1>5, <3>1 DEF AppliedInv, NoEventSkipped
      <4>2. j \in 1 .. n
        BY <1>2, <3>1
      <4> QED
        BY <1>3, <4>1, <4>2
    <3>2. CASE i = n + 1
      <4>1. e \in 1 .. Checkpoint
        BY <1>1, <1>3, <1>4, <3>2
      <4>2. PICK j \in 1 .. n : applied[j] = e
        BY <1>2, <1>5, <4>1 DEF AppliedInv, IsApplied
      <4>3. j \in 1 .. i - 1
        BY <1>2, <3>2
      <4> QED
        BY <1>3, <4>2, <4>3
    <3> QED
      BY <1>2, <3>1, <3>2
  <2>2. \A e \in 1 .. checkpoint' : IsApplied(e)'
    BY <1>5, <1>6 DEF AppliedInv, NoEventSkipped
  <2> QED
    BY <1>3, <2>1, <2>2 DEF NoEventSkipped
<1>9. \A e \in 1 .. Checkpoint' : IsApplied(e)'
  <2>1. Checkpoint' = new
    BY <1>4 DEF Checkpoint, AsksTarget
  <2>2. ASSUME NEW e \in 1 .. new PROVE IsApplied(e)'
    <3>1. CASE e = new
      BY <1>7, <3>1
    <3>2. CASE e # new
      <4>1. e \in 1 .. Checkpoint
        BY <1>1, <1>4, <3>2
      <4> QED
        BY <1>5, <1>6, <4>1 DEF AppliedInv
    <3> QED
      BY <3>1, <3>2
  <2> QED
    BY <2>1, <2>2
<1>10. ExactlyOnce'
  BY DEF ExactlyOnce
<1>11. ASSUME NEW i \in run.appliedAtStart + 1 .. n
       PROVE  i \in 1 .. n /\ applied[i] \in Nat /\ applied[i] < new
  <2>1. applied[i] <= run.lastApplied
    BY <1>5 DEF AppliedInv, n
  <2>2. i \in 1 .. n
    BY <1>2
  <2> QED
    BY <1>1, <1>2, <1>4, <2>1, <2>2
<1>12. \A i \in run'.appliedAtStart + 1 .. Len(applied') : applied'[i] <= run'.lastApplied
  <2>1. ASSUME NEW i \in run.appliedAtStart + 1 .. n + 1
        PROVE  i = n + 1 \/ i \in run.appliedAtStart + 1 .. n
    BY <1>2
  <2> QED
    BY <1>2, <1>3, <1>4, <1>11, <2>1
<1>13. NoEventTwice'
  <2>1. ASSUME NEW i \in run.appliedAtStart + 1 .. n + 1,
               NEW j \in run.appliedAtStart + 1 .. n + 1, applied'[i] = applied'[j]
        PROVE  i = j
    <3>1. CASE i \in run.appliedAtStart + 1 .. n /\ j \in run.appliedAtStart + 1 .. n
      BY <1>3, <1>5, <1>11, <2>1, <3>1 DEF AppliedInv, NoEventTwice, n
    <3>2. CASE i \in run.appliedAtStart + 1 .. n /\ j = n + 1
      BY <1>3, <1>4, <1>11, <2>1, <3>2
    <3>3. CASE i = n + 1 /\ j \in run.appliedAtStart + 1 .. n
      BY <1>3, <1>4, <1>11, <2>1, <3>3
    <3> QED
      BY <1>2, <3>1, <3>2, <3>3
  <2> QED
    BY <1>3, <2>1 DEF NoEventTwice
<1> QED
  BY <1>6, <1>8, <1>9, <1>10, <1>12, <1>13 DEF AppliedInv

LEMMA ApplyEventKeepsInv == Inv /\ TypeOK' /\ ApplyEvent => Inv'
<1> SUFFICES ASSUME Inv, TypeOK', ApplyEvent PROVE Inv'
  OBVIOUS
<1> DEFINE new == run.position + 1
<1>1. /\ run'.pc = IF run.inBatch + 1 < BatchSize THEN "drive" ELSE "commit"
      /\ run'.once = run.once
      /\ run'.lastApplied = IF mode = "transactional" THEN run.lastApplied ELSE new
      /\ run'.position = new /\ run'.reach = run.reach
      /\ run'.inBatch = run.inBatch + 1 /\ run'.open = TRUE
      /\ run'.isLive = run.isLive
      /\ run'.storedAtStart = run.storedAtStart
      /\ run'.appliedAtStart = run.appliedAtStart
  BY DEF ApplyEvent, Inv, TypeOK, Run
<1>2. HasNext /\ run.pc = "drive" /\ UNCHANGED <<mode, stored, status, ended>>
  BY DEF ApplyEvent, HasNext
<1>3. PhaseInv /\ PositionInv /\ AppliedInv /\ StatusInv
  BY DEF Inv
<1>4. /\ run.position \in Nat /\ checkpoint \in Nat /\ run.lastApplied \in Nat
      /\ mode # "transactional" => /\ tx = <<>> /\ run.position = Checkpoint
                                   /\ run.lastApplied <= run.position
  BY <1>2, PositionFacts
<1>5. PhaseInv'
  <2>1. run'.pc = "drive" => run'.inBatch < CatchUpBatchSize
    <3>1. run.inBatch \in 0 .. CatchUpBatchSize
      BY Zenon DEF Inv, TypeOK, Run
    <3>2. BatchSize \in 1 .. CatchUpBatchSize
      BY ProjectionAssumption DEF BatchSize
    <3> QED
      BY <1>1, <3>1, <3>2, ProjectionAssumption
  <2>2. inTx' => mode = "transactional"
    BY <1>3 DEF ApplyEvent, Apply, PhaseInv
  <2>3. run'.pc \in {"drive", "commit"}
    BY <1>1
  <2>4. run.isLive => run'.pc = "commit"
    BY <1>1, <1>2, <1>3 DEF BatchSize, PhaseInv
  <2> QED
    BY <1>1, <1>2, <1>3, <2>1, <2>2, <2>3, <2>4 DEF PhaseInv
<1>6. CASE mode = "transactional"
  <2>1. AppliedInv' /\ Checkpoint' = Checkpoint /\ \A e : IsApplied(e)' = IsApplied(e)
    BY <1>1, <1>2, <1>3, <1>6, AppliedKept DEF ApplyEvent, Apply
  <2>2. UNCHANGED <<applied, checkpoint>> /\ inTx' = TRUE /\ Checkpoint = checkpoint
    BY <1>6 DEF ApplyEvent, Apply, Checkpoint, AsksTarget
  <2>3. tx' = Append(tx, new) /\ tx \in Seq(Nat) /\ Len(tx) \in Nat
    <3>1. ~run.open => tx = <<>>
      BY <1>2, NoTransaction DEF Inv
    <3>2. tx' = Append(IF run.open THEN tx ELSE <<>>, new)
      BY <1>6 DEF ApplyEvent, Apply
    <3> QED
      BY <3>1, <3>2 DEF Inv, TypeOK
  <2>4. /\ Len(tx') = Len(tx) + 1 /\ DOMAIN tx' = 1 .. Len(tx) + 1
        /\ \A i \in 1 .. Len(tx) : tx'[i] = tx[i]
        /\ tx'[Len(tx) + 1] = new
    BY <1>4, <2>3, AppendProperties
  <2>5. run.position = checkpoint + Len(tx)
    BY <1>2, <1>3, <2>2 DEF PositionInv, InDrive
  <2>6. ASSUME NEW i \in DOMAIN tx' PROVE tx'[i] = checkpoint' + i
    <3>1. CASE i \in 1 .. Len(tx)
      BY <1>3, <2>2, <2>3, <2>4, <3>1 DEF PositionInv
    <3>2. CASE i = Len(tx) + 1
      BY <1>4, <2>2, <2>3, <2>4, <2>5, <3>2
    <3> QED
      BY <2>3, <2>4, <3>1, <3>2
  <2>7. PositionInv'
    <3>1. run'.position = Checkpoint' + Len(tx')
      BY <1>1, <1>4, <2>1, <2>2, <2>3, <2>4, <2>5
    <3> QED
      BY <1>2, <1>6, <2>2, <2>6, <3>1 DEF PositionInv
  <2>8. StatusInv'
    BY <1>1, <1>2, <1>3, <1>6, <2>1, <2>2
    DEF StatusInv, CaughtUpIsComplete, RevisionIsCommitted, InDrive
  <2> QED
    BY <1>5, <2>1, <2>7, <2>8 DEF Inv
<1>7. CASE mode # "transactional"
  <2>1. applied' = Append(applied, new) /\ UNCHANGED <<checkpoint, tx, inTx>>
    BY <1>7 DEF ApplyEvent, Apply
  <2>2. AppliedInv' /\ \A e : IsApplied(e) => IsApplied(e)'
    BY <1>1, <1>2, <1>7, <2>1, AppendKeepsApplied
  <2>3. PositionInv'
    <3>1. Checkpoint' = new
      BY <1>1, <1>2, <1>4, <1>7 DEF Checkpoint, AsksTarget
    <3>2. tx' = <<>> /\ Len(tx') = 0
      BY <1>4, <1>7, <2>1
    <3>3. run'.position = Checkpoint' + Len(tx')
      BY <1>1, <1>4, <3>1, <3>2
    <3>4. mode = "resumable" => checkpoint <= run.position
      BY <1>3, <1>4, <1>7 DEF PositionInv, Checkpoint, AsksTarget
    <3> QED
      BY <1>1, <1>2, <1>3, <1>4, <1>7, <2>1, <3>2, <3>3, <3>4 DEF PositionInv
  <2>4. CaughtUpIsComplete'
    BY <1>1, <1>2, <1>3, <2>2 DEF StatusInv, CaughtUpIsComplete
  <2>5. RevisionIsCommitted'
    <3>1. status.revision \in Nat
      BY DEF Inv, TypeOK, Status
    <3>2. status.revision <= IF mode = "rebuild" THEN run.lastApplied ELSE checkpoint
      BY <1>2, <1>3 DEF StatusInv, RevisionIsCommitted
    <3> QED
      BY <1>1, <1>2, <1>4, <1>7, <2>1, <3>1, <3>2 DEF RevisionIsCommitted
  <2>6. StatusInv'
    BY <1>1, <1>2, <1>3, <2>4, <2>5 DEF StatusInv, InDrive
  <2> QED
    BY <1>5, <2>2, <2>3, <2>6 DEF Inv
<1> QED
  BY <1>6, <1>7

-----------------------------------------------------------------------------
(***************************************************************************)
(* The remaining steps.                                                    *)
(***************************************************************************)

LEMMA InitInv == Init => Inv
<1> SUFFICES ASSUME Init PROVE Inv
  OBVIOUS
<1>1. TypeOK
  BY TypeInit
<1>2. /\ run.pc = "off" /\ run.once = FALSE /\ run.isLive = FALSE /\ run.lastApplied = 0
      /\ run.storedAtStart = 0 /\ run.appliedAtStart = 0
      /\ applied = <<>> /\ checkpoint = 0 /\ tx = <<>> /\ inTx = FALSE /\ stored = 0
  BY SMT DEF Init
<1>3. Checkpoint = 0
  BY <1>2 DEF Checkpoint
<1>4. AppliedInv
  BY <1>2, <1>3 DEF AppliedInv, NoEventSkipped, ExactlyOnce, NoEventTwice, IsApplied
<1>5. PhaseInv /\ PositionInv
  BY <1>2 DEF PhaseInv, PositionInv, InDrive
<1>6. StatusInv
  BY <1>2 DEF StatusInv, InDrive, CaughtUpIsComplete, RevisionIsCommitted
<1> QED
  BY <1>1, <1>4, <1>5, <1>6 DEF Inv

\* A new process remembers nothing, and a projection that is rebuilt has lost
\* its read model with the old one.
LEMMA StartKeepsInv == Inv /\ TypeOK' /\ Start => Inv'
<1> SUFFICES ASSUME Inv, TypeOK', Start PROVE Inv'
  OBVIOUS
<1>1. /\ run'.pc \in {"checkpoint", "before"}
      /\ run'.pc = "before" => ~run'.once
      /\ ~run'.isLive /\ run'.lastApplied = 0 /\ run'.storedAtStart = stored
      /\ run'.appliedAtStart = Len(applied')
  BY DEF Start, NewRun
<1>2. /\ status'.revision = 0 /\ status'.hasCaughtUp = FALSE
      /\ UNCHANGED <<mode, stored, checkpoint, tx, inTx>>
      /\ applied' = IF mode = "rebuild" THEN <<>> ELSE applied
      /\ run.pc = "off"
  BY DEF Start, NewStatus
<1>3. PhaseInv /\ PositionInv /\ AppliedInv
  BY DEF Inv
<1>4. tx = <<>> /\ inTx = FALSE
  BY <1>2, NoTransaction DEF Inv
<1>5. PhaseInv' /\ PositionInv'
  <2>1. PhaseInv'
    BY <1>1, <1>2, <1>4 DEF PhaseInv
  <2>2. PositionInv'
    <3>1. tx' = <<>> /\ ~InDrive'
      BY <1>1, <1>2, <1>4 DEF InDrive
    <3>2. mode' = "rebuild" => checkpoint' = 0
      BY <1>2, <1>3 DEF PositionInv
    <3> QED
      BY <1>1, <3>1, <3>2 DEF PositionInv
  <2> QED
    BY <2>1, <2>2
<1>6. checkpoint \in Nat /\ Len(applied') \in Nat /\ stored \in Nat
  <2>1. applied' \in Seq(Nat)
    BY DEF TypeOK
  <2> QED
    BY <2>1 DEF Inv, TypeOK
<1>7. AppliedInv'
  <2>1. \A i \in run'.appliedAtStart + 1 .. Len(applied') : FALSE
    BY <1>1, <1>6
  <2>2. NoEventTwice'
    BY <2>1 DEF NoEventTwice
  <2>3. CASE mode = "rebuild"
    <3>1. applied' = <<>> /\ checkpoint' = 0 /\ Checkpoint' = 0
      BY <1>1, <1>2, <1>3, <2>3 DEF PositionInv, Checkpoint, AsksTarget
    <3> QED
      BY <1>2, <2>1, <2>2, <2>3, <3>1 DEF AppliedInv, NoEventSkipped, ExactlyOnce
  <2>4. CASE mode # "rebuild"
    <3>1. applied' = applied /\ checkpoint' = checkpoint /\ mode' = mode
      BY <1>2, <2>4
    <3>2. Checkpoint' = checkpoint
      <4>1. mode \in {"resumable", "transactional"}
        BY <2>4, ProjectionAssumption DEF Inv, TypeOK
      <4> QED
        BY <1>1, <3>1, <4>1 DEF Checkpoint, AsksTarget
    <3>3. \A e : IsApplied(e)' = IsApplied(e)
      BY <3>1 DEF IsApplied
    <3>4. NoEventSkipped' /\ ExactlyOnce'
      BY <1>3, <3>1, <3>3 DEF AppliedInv, NoEventSkipped, ExactlyOnce
    <3>5. \A e \in 1 .. Checkpoint' : IsApplied(e)'
      BY <1>3, <3>2, <3>3 DEF AppliedInv, NoEventSkipped
    <3> QED
      BY <2>1, <2>2, <3>4, <3>5 DEF AppliedInv
  <2> QED
    BY <2>3, <2>4
<1>8. StatusInv'
  <2>1. CaughtUpIsComplete'
    BY <1>1, <1>2 DEF CaughtUpIsComplete
  <2>2. RevisionIsCommitted'
    BY <1>1, <1>2, <1>6 DEF RevisionIsCommitted
  <2>3. run'.storedAtStart <= stored'
    BY <1>1, <1>2, <1>6
  <2> QED
    BY <1>1, <2>1, <2>2, <2>3 DEF StatusInv, InDrive
<1> QED
  BY <1>5, <1>7, <1>8 DEF Inv

LEMMA CatchUpStartsKeepsInv == Inv /\ TypeOK' /\ CatchUpStarts => Inv'
<1> SUFFICES ASSUME Inv, TypeOK', CatchUpStarts PROVE Inv'
  OBVIOUS
<1>1. /\ run'.pc = "drive" /\ run'.once = run.once /\ run'.lastApplied = run.lastApplied
      /\ run'.position = Checkpoint /\ run'.reach = stored /\ run'.inBatch = 0
      /\ ~run'.open /\ (run'.isLive => run.isLive)
      /\ run'.storedAtStart = run.storedAtStart
      /\ run'.appliedAtStart = run.appliedAtStart
  BY DEF CatchUpStarts, Inv, TypeOK, Run
<1>2. /\ run.pc = "checkpoint"
      /\ UNCHANGED <<mode, stored, applied, checkpoint, tx, inTx, status, ended>>
  BY DEF CatchUpStarts, target
<1>3. PhaseInv /\ PositionInv /\ AppliedInv /\ StatusInv
  BY DEF Inv
<1>4. tx = <<>> /\ inTx = FALSE
  BY <1>2, NoTransaction DEF Inv
<1>5. AppliedInv' /\ Checkpoint' = Checkpoint /\ \A e : IsApplied(e)' = IsApplied(e)
  BY <1>1, <1>2, <1>3, AppliedKept
<1>6. PhaseInv'
  BY <1>1, <1>2, <1>3, <1>4, ProjectionAssumption DEF PhaseInv
<1>7. PositionInv'
  <2>1. tx' = <<>> /\ Len(tx') = 0
    BY <1>2, <1>4
  <2>2. run'.position = Checkpoint' + Len(tx')
    BY <1>1, <1>5, <2>1, TypeCheckpoint DEF Inv
  <2> QED
    BY <1>1, <1>2, <1>3, <2>1, <2>2 DEF PositionInv
<1>8. StatusInv'
  BY <1>1, <1>2, <1>3, <1>5
  DEF StatusInv, CaughtUpIsComplete, RevisionIsCommitted, InDrive
<1> QED
  BY <1>5, <1>6, <1>7, <1>8 DEF Inv

LEMMA StreamEndsKeepsInv == Inv /\ TypeOK' /\ StreamEnds => Inv'
<1> SUFFICES ASSUME Inv, TypeOK', StreamEnds PROVE Inv'
  OBVIOUS
<1>1. /\ run'.pc = IF run.open THEN "lastCommit" ELSE "drained"
      /\ Kept
  BY DEF StreamEnds, Inv, TypeOK, Run, Kept
<1>2. /\ run.pc = "drive" /\ (run.position >= run.reach \/ ended)
      /\ UNCHANGED <<mode, stored, applied, checkpoint, tx, inTx, status, ended>>
  BY DEF StreamEnds, target
<1>3. PhaseInv /\ PositionInv /\ AppliedInv /\ StatusInv
  BY DEF Inv
<1>4. AppliedInv' /\ Checkpoint' = Checkpoint /\ \A e : IsApplied(e)' = IsApplied(e)
  BY <1>1, <1>2, <1>3, AppliedKept DEF Kept
<1>5. PhaseInv'
  BY <1>1, <1>2, <1>3 DEF PhaseInv, Kept
<1>6. PositionInv'
  BY <1>1, <1>2, <1>3, <1>4 DEF PositionInv, InDrive, Kept
<1>7. StatusInv'
  BY <1>1, <1>2, <1>3, <1>4
  DEF StatusInv, CaughtUpIsComplete, RevisionIsCommitted, InDrive, Kept
<1> QED
  BY <1>4, <1>5, <1>6, <1>7 DEF Inv

\* drive is through, and the run goes on to observe.
LEMMA DrainedKeepsInv == Inv /\ TypeOK' /\ Drained /\ ~ended /\ ~run.once => Inv'
<1> SUFFICES ASSUME Inv, TypeOK', Drained, ~ended, ~run.once PROVE Inv'
  OBVIOUS
<1>1. /\ run' = [run EXCEPT !.pc = "drive", !.isLive = TRUE, !.inBatch = 0, !.open = FALSE]
      /\ status' = [status EXCEPT !.phase = "live", !.err = NoFailure,
                                 !.attempts = 0, !.hasCaughtUp = TRUE]
      /\ UNCHANGED <<mode, stored, applied, checkpoint, tx, inTx, ended>>
      /\ run.pc = "drained"
  BY DEF Drained, target
<1>2. /\ run'.pc = "drive" /\ run'.once = run.once /\ run'.lastApplied = run.lastApplied
      /\ run'.position = run.position /\ run'.reach = run.reach /\ run'.inBatch = 0
      /\ run'.storedAtStart = run.storedAtStart
      /\ run'.appliedAtStart = run.appliedAtStart
  BY <1>1 DEF Inv, TypeOK, Run
<1>3. status'.revision = status.revision
  BY <1>1 DEF Inv, TypeOK, Status
<1>4. PhaseInv /\ PositionInv /\ AppliedInv /\ StatusInv
  BY DEF Inv
<1>5. tx = <<>> /\ inTx = FALSE
  BY <1>1, NoTransaction DEF Inv
<1>6. AppliedInv' /\ Checkpoint' = Checkpoint /\ \A e : IsApplied(e)' = IsApplied(e)
  BY <1>1, <1>2, <1>4, AppliedKept
<1>7. PhaseInv'
  BY <1>1, <1>2, <1>5, ProjectionAssumption DEF PhaseInv
<1>8. PositionInv'
  BY <1>1, <1>2, <1>4, <1>6 DEF PositionInv, InDrive
<1>9. \A e \in 1 .. run.storedAtStart : IsApplied(e)
  BY <1>1, DrainedIsApplied
<1>10. StatusInv'
  BY <1>1, <1>2, <1>3, <1>4, <1>6, <1>9
  DEF StatusInv, CaughtUpIsComplete, RevisionIsCommitted, InDrive
<1> QED
  BY <1>6, <1>7, <1>8, <1>10 DEF Inv

\* Another event is stored, the context ends, or nothing happens.
LEMMA AroundKeepsInv ==
    ASSUME Inv, TypeOK', UNCHANGED <<mode, target, run, status>>, stored <= stored',
           stored \in Nat, ended => ended'
    PROVE  Inv'
<1>1. UNCHANGED <<mode, applied, checkpoint, tx, inTx, run, status>>
  BY DEF target
<1>2. PhaseInv /\ PositionInv /\ AppliedInv /\ StatusInv
  BY DEF Inv
<1>3. AppliedInv' /\ Checkpoint' = Checkpoint /\ \A e : IsApplied(e)' = IsApplied(e)
  BY <1>1, <1>2, AppliedKept
<1>4. PhaseInv'
  BY <1>1, <1>2 DEF PhaseInv
<1>5. PositionInv'
  BY <1>1, <1>2, <1>3 DEF PositionInv, InDrive
<1>6. CaughtUpIsComplete' /\ RevisionIsCommitted'
  BY <1>1, <1>2, <1>3 DEF StatusInv, CaughtUpIsComplete, RevisionIsCommitted
<1>7. run.storedAtStart <= stored'
  <2>1. run.storedAtStart \in Nat /\ stored' \in Nat
    BY DEF Inv, TypeOK, Run
  <2> QED
    BY <1>2, <2>1 DEF StatusInv
<1>8. StatusInv'
  BY <1>1, <1>2, <1>6, <1>7 DEF StatusInv, InDrive
<1> QED
  BY <1>3, <1>4, <1>5, <1>8 DEF Inv

LEMMA StepInv == Inv /\ [Next]_vars => Inv'
<1> SUFFICES ASSUME Inv, [Next]_vars PROVE Inv'
  OBVIOUS
<1>1. TypeOK /\ PhaseInv /\ PositionInv
  BY DEF Inv
<1>2. TypeOK'
  BY <1>1, TypeStep
<1>3. CASE StoreEvent
  BY <1>1, <1>2, <1>3, AroundKeepsInv DEF StoreEvent, TypeOK
<1>4. CASE Start
  BY <1>2, <1>4, StartKeepsInv
<1>5. CASE EndContext
  BY <1>1, <1>2, <1>5, AroundKeepsInv DEF EndContext, TypeOK
<1>6. CASE CatchUpStarts
  BY <1>2, <1>6, CatchUpStartsKeepsInv
<1>7. CASE ApplyEvent
  BY <1>2, <1>7, ApplyEventKeepsInv
<1>8. CASE CommitBatch
  BY <1>2, <1>8, CommitBatchKeepsInv
<1>9. CASE CommitFails
  BY <1>2, <1>9, CommitFailsKeepsInv
<1>10. CASE StreamEnds
  BY <1>2, <1>10, StreamEndsKeepsInv
<1>11. CASE Drained /\ ~(ended \/ run.once)
  BY <1>2, <1>11, DrainedKeepsInv
<1>12. CASE \/ Crash \/ CheckpointFails \/ ReadFails \/ BeginFails \/ ApplyFails
            \/ LiveStreamEnds \/ SessionStarts \/ GivesUp \/ Reconnects \/ WaitEnds
            \/ Drained /\ (ended \/ run.once)
  <2>1. Leaves /\ UNCHANGED <<applied, checkpoint>>
    BY <1>1, <1>12, LeavingSteps
  <2> QED
    BY <1>2, <2>1, LeavesKeepsInv
<1>13. CASE UNCHANGED vars
  BY <1>1, <1>2, <1>13, AroundKeepsInv DEF vars, target, TypeOK
<1> QED
  BY <1>3, <1>4, <1>5, <1>6, <1>7, <1>8, <1>9, <1>10, <1>11, <1>12, <1>13
  DEF Next, Drive, Breaks, Loop

\* The inductive invariant holds in every reachable state of the loop of
\* catching up, following and reconnecting (run, drive, the writers).
THEOREM ProjectionInv == Spec => []Inv
<1>1. Init => Inv
  BY InitInv
<1>2. Inv /\ [Next]_vars => Inv'
  BY StepInv
<1> QED
  BY <1>1, <1>2, PTL DEF Spec

\* Every variable keeps the values the code's types allow; a batch never
\* outgrows its size, nor the delay its bounds (drive, run).
THEOREM ProjectionTypes == Spec => []TypeOK
<1>1. Inv => TypeOK
  BY DEF Inv
<1> QED
  BY <1>1, ProjectionInv, PTL

\* However the stream breaks and the process crashes, no writer leaves out an
\* event, and no checkpoint names one that is not in the read model.
THEOREM SkipsNothing == Spec => []NoEventSkipped
<1>1. Inv => NoEventSkipped
  BY DEF Inv, AppliedInv
<1> QED
  BY <1>1, ProjectionInv, PTL

\* A transactional projection holds everything up to its checkpoint exactly
\* once, for every outcome of a commit that is reported as failed
\* (transactionalWriter).
THEOREM AppliesExactlyOnce == Spec => []ExactlyOnce
<1>1. Inv => ExactlyOnce
  BY DEF Inv, AppliedInv
<1> QED
  BY <1>1, ProjectionInv, PTL

\* Within a run no writer applies an event twice, however often it reconnects.
THEOREM AppliesNothingTwice == Spec => []NoEventTwice
<1>1. Inv => NoEventTwice
  BY DEF Inv, AppliedInv
<1> QED
  BY <1>1, ProjectionInv, PTL

\* A run that counts as caught up, and a CatchUpProjection that returned
\* without an error, has applied everything stored when it started (catchUp,
\* caughtUpNow).
THEOREM CaughtUpHoldsEverything == Spec => []CaughtUpIsComplete
<1>1. Inv => CaughtUpIsComplete
  BY DEF Inv, StatusInv
<1> QED
  BY <1>1, ProjectionInv, PTL

\* What a run reports as its revision is committed (ProjectionRun.committed).
THEOREM ReportsCommittedRevision == Spec => []RevisionIsCommitted
<1>1. Inv => RevisionIsCommitted
  BY DEF Inv, StatusInv
<1> QED
  BY <1>1, ProjectionInv, PTL

\* A run neither waits nor ends with an open transaction (the rollbacks of
\* drive).
THEOREM LeavesNoTransaction == Spec => []NoTransactionLeft
<1>1. Inv => NoTransactionLeft
  BY DEF Inv, PhaseInv, NoTransactionLeft
<1> QED
  BY <1>1, ProjectionInv, PTL
=============================================================================
