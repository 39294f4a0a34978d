----------------------------- MODULE MCSchedules -----------------------------
(***************************************************************************)
(* One Schedule for TLC, in three kinds of deployment, which `part` names: *)
(* two runtimes that overlap without faults, and one runtime that stops,   *)
(* crashes and starts again under each missed-run policy.                  *)
(***************************************************************************)
EXTENDS ScheduleOccurrences

CONSTANTS r1, r2, d1, d2

VARIABLE part

Skip == INSTANCE ScheduleOccurrences WITH MissedRun <- "skip"

\* Runtimes and declarations are interchangeable: r1 publishes first, and not d2.
Alone == rt'[r2] = rt[r2]
Named == published = 0 => sched'.def # d2 /\ Alone

MCInit == Init /\ part \in {"overlap", "latest", "skip"}

MCNext ==
    /\ \/ part = "overlap" /\ Next /\ published' <= 2 /\ faults' = 0
       \/ part = "latest" /\ Next /\ Alone
       \/ part = "skip" /\ Skip!Next /\ Alone /\ sched'.def # d2
    /\ Named /\ UNCHANGED part

Restarts == part \in {"latest", "skip"}

(* Time passes, timers fire, transactions and factories end (a factory has a *)
(* timeout), and a supervisor starts a runtime that is down.  Chunks of long *)
(* waits and faults are unfair.                                              *)
RestartIsFair ==
    /\ WF_vars(Restarts /\ Tick)
    /\ WF_vars(Restarts /\ TimerFires(r1)) /\ WF_vars(Restarts /\ RecoveryFires(r1))
    /\ \A w \in Workers : WF_vars(Restarts /\ Record(r1, w))
    /\ WF_vars(Restarts /\ Recover(r1))
    /\ WF_vars(part = "latest" /\ Publish(r1) /\ Named)
    /\ WF_vars(part = "skip" /\ Skip!Publish(r1) /\ sched'.def # d2)
    /\ WF_vars(Restarts /\ (ClearTimers(r1) \/ Close(r1)))

MCSpec == MCInit /\ [][MCNext]_<<vars, part>> /\ RestartIsFair

-----------------------------------------------------------------------------
\* Every occurrence that one runtime claimed ends, however often it was restarted.
RestartedPendingSettles == Restarts => EveryPendingSettles
=============================================================================
