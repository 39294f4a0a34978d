----------------------------- MODULE MCJobTimers -----------------------------
(***************************************************************************)
(* What moves the Job queue and its Schedules in one process, for TLC:     *)
(* JobTimers and PayloadFactories.  They have no state in common, so a     *)
(* behaviour moves one of them in one of its instances, which `part`       *)
(* names, and leaves the other as it started.  The properties of JobTimers *)
(* are checked as they stand there.                                        *)
(***************************************************************************)
EXTENDS JobTimers, TLC

CONSTANTS j1, j2,                     \* Jobs
          a1, a2, a3, b1, A, B,       \* calls of the factories of two Schedules
          Calls, Schedules, ScheduleOf, Slots, NoCall,
          FewCalls                    \* the calls that are made where there is one slot

VARIABLES part, stage, aborted, lane, before, unlocked, active, waiters, holding, stopped, swept

factoryVars == <<stage, aborted, lane, before, unlocked, active, waiters, holding, stopped, swept>>
allVars == <<part, vars, factoryVars>>

-----------------------------------------------------------------------------
(* One Job (j1), far ahead, retried and recovered after up to two faults,    *)
(* with timers that must be set in pieces; two Jobs and one fault, fair.     *)
Two == INSTANCE JobTimers WITH Waits <- {0}, LeaseTicks <- 1, MaxFaults <- 1

(* Three occurrences of a Schedule and one of another share two slots; with  *)
(* one occurrence less they share one slot, and are fair.                    *)
Occurrences == (a1 :> A) @@ (a2 :> A) @@ (a3 :> A) @@ (b1 :> B)
Factories(slots) == INSTANCE PayloadFactories WITH Slots <- slots

ASSUME FactoriesAssumption == Factories(Slots)!PayloadFactoriesAssumption /\ FewCalls \subseteq Calls

MCInit ==
  /\ part \in {"far", "two", "all slots", "one slot"}
  /\ Init /\ Factories(Slots)!Init

MCNext ==
  \/ part = "far" /\ Next /\ row'[j2] = row[j2] /\ UNCHANGED <<part, factoryVars>>
  \/ part = "two" /\ Two!Next /\ UNCHANGED <<part, factoryVars>>
  \/ part = "all slots" /\ Factories(Slots)!Next /\ UNCHANGED <<part, vars>>
  \/ /\ part = "one slot" /\ Factories(1)!Next /\ UNCHANGED <<part, vars>>
     /\ \A c \in Calls \ FewCalls : stage'[c] = stage[c]

(* Time passes, armed timers fire, statements and handlers end, and a        *)
(* process that went down is started again by its supervisor.                *)
TimersAreFair ==
  /\ WF_vars(part = "two" /\ Two!Tick)
  /\ WF_vars(part = "two" /\ \E j \in {j1, j2} : Two!Dispatch(j))
  /\ WF_vars(part = "two" /\ Two!WorkerTimerFires)
  /\ WF_vars(part = "two" /\ Two!WakeFires)
  /\ WF_vars(part = "two" /\ Two!LeaseTimerFires)
  /\ WF_vars(part = "two" /\ Two!WorkerStep)
  /\ WF_vars(part = "two" /\ (Two!ScanLeases \/ Two!EndScan))
  /\ WF_vars(part = "two" /\ (Two!Open \/ Two!Activate \/ Two!Close))

(* Promises that are settled continue, logging ends, and the timer of a      *)
(* running factory fires; a factory itself need never settle.                *)
FactoriesAreFair ==
  \A c \in FewCalls :
    /\ WF_factoryVars(part = "one slot" /\ Factories(1)!Advance(c))
    /\ WF_factoryVars(part = "one slot" /\ Factories(1)!Timeout(c))

MCSpec == MCInit /\ [][MCNext]_allVars /\ TimersAreFair /\ FactoriesAreFair

-----------------------------------------------------------------------------
(* The properties, each in the instances it speaks about.                    *)

\* Factories take turns: no slot is lost or invented through hand-overs, refusals, timeouts
\* and aborts, or idle while a call waits for one; the queue holds exactly the calls that can
\* still be granted one; and a Schedule's factory runs for one occurrence at a time, in order.
FactoriesTakeTurns ==
  /\ part = "all slots" => Factories(Slots)!TypeOK /\ Factories(Slots)!FactoriesTakeTurns
  /\ part = "one slot" => Factories(1)!FactoriesTakeTurns

\* Every Job that was committed ends, and every evaluation of a factory ends and frees its
\* slot and its lane.
EverythingEnds ==
  /\ part = "two" => Two!EveryJobSettles
  /\ part = "one slot" => Factories(1)!EveryCallEnds
=============================================================================
