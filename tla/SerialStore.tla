----------------------------- MODULE SerialStore -----------------------------
(***************************************************************************)
(* What the command side promises, without caches, streams, retries or     *)
(* lost answers: the log only grows, by all events of one call at once, no *)
(* call adds events twice, and the events of a command that declares       *)
(* OnStateRead were decided on the exact history of their subject at the   *)
(* very moment they are stored, as if reading, deciding and writing were   *)
(* one step.                                                               *)
(***************************************************************************)
EXTENDS EventLog

VARIABLE log

Init == log = <<>>

IsDecidedOn(event) ==
    event.guarded => IsHistory(event.basis, log, event.subject, Len(log))

Store ==
    /\ Len(log') > Len(log)
    /\ \A e \in DOMAIN log : log'[e] = log[e]
    /\ \A e \in DOMAIN log' \ DOMAIN log :
          /\ log'[e].call = log'[Len(log')].call
          /\ log'[e].first = Len(log) + 1
          /\ \A f \in DOMAIN log : log[f].call # log'[e].call
          /\ IsDecidedOn(log'[e])

Spec == Init /\ [][Store]_log
=============================================================================
