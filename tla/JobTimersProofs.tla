--------------------------- MODULE JobTimersProofs ---------------------------
(***************************************************************************)
(* Proofs about JobTimers, for any number of Jobs, any leases, delays and  *)
(* timer limits, and any number of faults; and about PayloadFactories, for *)
(* any calls, Schedules and number of slots, as MCJobTimers combines them. *)
(***************************************************************************)
EXTENDS MCJobTimers, Sequences, FiniteSetTheorems, WellFoundedInduction, TLAPS

-----------------------------------------------------------------------------
(* The inductive invariant                                                 *)

\* Attempts are left to a row that waits, one is charged to a row that runs, and only
\* a delayed row has time to wait.
RowSound(j) ==
    /\ row[j].status \in {"queued", "delayed"} => row[j].attempts < MaxAttempts
    /\ row[j].status = "running" => row[j].attempts > 0
    /\ row[j].status \in {"queued", "running"} => row[j].wait = 0

\* The worker timer is armed only between passes, a rerun is asked for only during one,
\* and what is claimed next is still queued.
WorkerSound ==
    /\ workerTimer => ~Running
    /\ rerun => Running
    /\ wk.pc = "claim" => row[wk.job].status = "queued"

\* A scan that failed is repeated, one that did not hands its rows to the worker.
ChainSound ==
    chain.pc = "install" => chain.wakeWorker \/ (chain.next # None /\ chain.next <= ScanRetry)

\* A process that is not active has no timer, and one that starts knows the earliest lease.
StartSound ==
    /\ ~Active => ~workerTimer /\ wake = None /\ leaseTimer = None /\ leaseDue = None /\ ~rerun
    /\ phase \in {"down", "opened"} => wk.pc = "off" /\ ChainOff
    /\ phase = "opened" =>
         \A j \in Orphans : retained # None /\ retained <= row[j].lease

\* A pass is to come, or this one will get round to the Job, whatever it finds.
PassComes(j) ==
    \/ workerTimer \/ rerun \/ j \in undispatched
    \/ wk.pc \in {"head", "claim", "claimed", "handler"}

\* What brings up a queued Job: a pass that has not excluded it.
QueuedIsCovered(j) ==
    row[j].status = "queued" =>
        PassComes(j) \/ (wk.pc = "select" /\ j \notin wk.later)

\* What brings up a delayed Job: a pass, the wake that is armed or about to be, or the
\* recovery that delayed it.
DelayedIsCovered(j) ==
    row[j].status = "delayed" =>
        \/ PassComes(j) \/ wk.pc \in {"select", "next"}
        \/ wk.pc = "arm" /\ wk.target # None /\ wk.target <= row[j].wait
        \/ wk.pc \in {"off", "done"} /\ wake # None /\ wake <= row[j].wait + 1
        \/ ~ChainOff \/ RescanIsNear

\* The worker is at work on the row.
Attended(j) == wk.pc \in {"claimed", "handler"} /\ wk.job = j

ScanIsNear(j) ==
    \/ chain.pc = "scan"
    \/ /\ chain.pc = "install"
       /\ \/ chain.next # None /\ (chain.next <= row[j].lease \/ chain.next <= ScanRetry)
          \/ chain.requested # None /\ chain.requested <= row[j].lease
    \/ ChainOff /\ leaseTimer # None /\ (leaseDue <= row[j].lease \/ leaseDue <= ScanRetry)

\* What brings up a running row: its worker, or a scan no later than its lease ends or
\* a failed one is repeated.
RunningIsCovered(j) == row[j].status = "running" => Attended(j) \/ ScanIsNear(j)

Covered(j) == QueuedIsCovered(j) /\ DelayedIsCovered(j) /\ RunningIsCovered(j)

Invariant ==
    /\ TypeOK
    /\ \A j \in Jobs : RowSound(j)
    /\ WorkerSound /\ ChainSound /\ StartSound
    /\ Active => \A j \in Jobs : Covered(j)

-----------------------------------------------------------------------------
(* Instants                                                                *)

LEMMA LessIsSooner ==
    /\ \A t \in Nat : Less(t) \in Nat /\ Less(t) <= t
    /\ Less(None) = None /\ None \notin Nat
    /\ \A t \in Instants : Less(t) \in Instants /\ (Less(t) = None <=> t = None)
    /\ \A s, t \in Nat : s <= t => Less(s) <= Less(t)
    /\ \A s, t \in Nat : s <= t + 1 => Less(s) <= Less(t) + 1
BY DEF Less, None, Instants

LEMMA SmallerIsBoth ==
    ASSUME NEW s \in Instants, NEW t \in Instants
    PROVE  /\ Smaller(s, t) \in Instants
           /\ s # None => Smaller(s, t) # None /\ Smaller(s, t) <= s
           /\ t # None => Smaller(s, t) # None /\ Smaller(s, t) <= t
           /\ Smaller(s, t) = None => s = None /\ t = None
BY DEF Smaller, Instants, None

LEMMA NativeIsSooner ==
    ASSUME NEW t \in Instants
    PROVE  /\ Native(t) \in Instants /\ Native(t) <= t
           /\ Native(t) = None <=> t = None
BY TimerAssumption DEF Native, Instants, None

LEMMA SomeInstantIsEarliest ==
    ASSUME NEW T, T \subseteq Nat, T # {}
    PROVE  \E t \in T : \A s \in T : t <= s
<1> DEFINE smaller == {ss \in Nat \X Nat : ss[1] < ss[2]}
<1>1. IsWellFoundedOn(smaller, Nat)
  BY NatLessThanWellFounded DEF OpToRel
<1>2. \A s, t \in Nat : s < t => <<s, t>> \in smaller
  OBVIOUS
<1> HIDE DEF smaller
<1>3. \E t \in T : \A s \in T : ~(<<s, t>> \in smaller)
  BY <1>1, WFMin
<1>4. PICK t \in T : \A s \in T : ~(<<s, t>> \in smaller)
  BY <1>3
<1>5. \A s \in T : ~(s < t)
  BY <1>2, <1>4
<1>6. \A s \in T : s \in Nat /\ t \in Nat
  OBVIOUS
<1>7. \A s \in T : t <= s
  BY <1>5, <1>6
<1> QED BY <1>4, <1>7

LEMMA EarliestLeaseIsEarliest ==
    ASSUME TypeOK
    PROVE  /\ EarliestLease \in Instants
           /\ \A j \in Orphans \ Expired : EarliestLease # None /\ EarliestLease <= row[j].lease
<1> DEFINE leases == {row[j].lease : j \in Orphans \ Expired}
<1>1. leases \subseteq Nat
  BY DEF TypeOK, Rows, Orphans
<1>2. CASE Orphans = Expired
  BY <1>2 DEF EarliestLease, Instants
<1>3. CASE Orphans # Expired
  <2>1. leases # {}
    BY <1>3 DEF Expired
  <2>2. \E u \in leases : \A s \in leases : u <= s
    BY <1>1, <2>1, SomeInstantIsEarliest
  <2>3. \E u \in leases : \A j \in Orphans \ Expired : u <= row[j].lease
    BY <2>2
  <2>4. EarliestLease = CHOOSE u \in leases : \A j \in Orphans \ Expired : u <= row[j].lease
    BY <1>3 DEF EarliestLease
  <2> HIDE DEF leases
  <2>5. EarliestLease \in leases /\ \A j \in Orphans \ Expired : EarliestLease <= row[j].lease
    BY <2>4, <2>3
  <2> QED BY <1>1, <2>5 DEF Instants, None
<1> QED BY <1>2, <1>3

-----------------------------------------------------------------------------
(* What the invariant says, opened up                                      *)

LEMMA InvariantOf ==
    ASSUME Invariant
    PROVE  /\ row \in [Jobs -> Rows] /\ wk \in Workers /\ chain \in Chains
           /\ \A j \in Jobs : row[j] \in Rows /\ RowSound(j)
           /\ phase \in {"down", "opened", "active", "deferred", "stopped"}
           /\ undispatched \subseteq Jobs /\ workerTimer \in BOOLEAN /\ rerun \in BOOLEAN
           /\ wake \in Instants /\ leaseTimer \in Instants /\ leaseDue \in Instants
           /\ retained \in Instants /\ faults \in 0..MaxFaults
           /\ wk.pc \in {"claim", "claimed", "handler"} => wk.job \in Jobs
BY DEF Invariant, TypeOK

\* The worker's bookkeeping: a step that dispatches, or ends a pass.
LEMMA ScheduleWorkerArms ==
    ASSUME Invariant, ScheduleWorker
    PROVE  /\ workerTimer' \in BOOLEAN /\ rerun' \in BOOLEAN
           /\ workerTimer' => ~Running
           /\ rerun' => Running
           /\ Active => workerTimer' \/ rerun'
           /\ ~Active => ~workerTimer' /\ ~rerun'
           /\ workerTimer => workerTimer'
           /\ rerun => rerun'
BY DEF Invariant, WorkerSound, StartSound, ScheduleWorker, TypeOK

LEMMA WorkerReturnsToRest ==
    ASSUME Invariant, WorkerReturns
    PROVE  /\ wk' \in Workers /\ wk'.pc = "off"
           /\ workerTimer' \in BOOLEAN /\ rerun' = FALSE
           /\ Active => (workerTimer' <=> workerTimer \/ rerun)
           /\ ~Active => ~workerTimer'
BY DEF Invariant, WorkerSound, StartSound, WorkerReturns, TypeOK, Off, Workers, Instants, None

LEMMA ContinueMoves ==
    ASSUME Invariant, NEW pc, Continue(pc),
           pc \in {"off", "head", "select", "claim", "claimed", "handler", "next", "arm", "done"}
    PROVE  /\ wk' \in Workers /\ wk'.pc = pc /\ wk'.job = wk.job
           /\ wk'.later = wk.later /\ wk'.target = wk.target
           /\ UNCHANGED <<workerTimer, rerun>>
BY DEF Invariant, TypeOK, Continue, Workers

-----------------------------------------------------------------------------
(* Steps that leave the rows alone                                         *)

LEMMA SameRows ==
    ASSUME Invariant, row' = row
    PROVE  \A j \in Jobs : RowSound(j)'
BY DEF Invariant, RowSound

LEMMA DispatchKeeps ==
    ASSUME Invariant, NEW j \in Jobs, Dispatch(j)
    PROVE  Invariant'
<1>1. TypeOK'
  BY ScheduleWorkerArms DEF Invariant, TypeOK, Dispatch
<1>2. WorkerSound' /\ ChainSound' /\ StartSound'
  BY ScheduleWorkerArms DEF Invariant, Dispatch, WorkerSound, ChainSound, StartSound, Running,
     ChainOff, Orphans, Active
<1>3. ASSUME Active', NEW k \in Jobs PROVE Covered(k)'
  BY <1>3, ScheduleWorkerArms DEF Invariant, Dispatch, Covered, QueuedIsCovered, DelayedIsCovered,
     RunningIsCovered, PassComes, ScanIsNear, Attended, RescanIsNear, ChainOff, Active
<1>4. \A k \in Jobs : RowSound(k)'
  BY SameRows DEF Dispatch
<1> QED BY <1>1, <1>2, <1>3, <1>4 DEF Invariant

LEMMA WorkerTimerFiresKeeps ==
    ASSUME Invariant, WorkerTimerFires
    PROVE  Invariant'
<1>0. wk' \in Workers /\ wk'.pc = "head"
  BY DEF WorkerTimerFires, Off, Workers, Instants, None
<1>1. TypeOK'
  BY <1>0 DEF Invariant, TypeOK, WorkerTimerFires
<1>2. WorkerSound' /\ ChainSound' /\ StartSound'
  BY <1>0 DEF Invariant, WorkerTimerFires, WorkerSound, ChainSound, StartSound, Running,
     ChainOff, Orphans, Active
<1>3. ASSUME Active', NEW k \in Jobs PROVE Covered(k)'
  BY <1>0, <1>3 DEF Invariant, WorkerTimerFires, WorkerSound, Running, Covered, QueuedIsCovered,
     DelayedIsCovered, RunningIsCovered, PassComes, ScanIsNear, Attended, ChainOff, Active
<1>4. \A k \in Jobs : RowSound(k)'
  BY SameRows DEF WorkerTimerFires
<1> QED BY <1>1, <1>2, <1>3, <1>4 DEF Invariant

LEMMA WakeFiresKeeps ==
    ASSUME Invariant, WakeFires
    PROVE  Invariant'
<1>1. TypeOK'
  BY ScheduleWorkerArms DEF Invariant, TypeOK, WakeFires, Instants
<1>2. WorkerSound' /\ ChainSound' /\ StartSound'
  BY ScheduleWorkerArms DEF Invariant, WakeFires, WorkerSound, ChainSound, StartSound, Running,
     ChainOff, Orphans, Active
<1>3. ASSUME Active', NEW k \in Jobs PROVE Covered(k)'
  BY <1>3, ScheduleWorkerArms DEF Invariant, WakeFires, Covered, QueuedIsCovered, DelayedIsCovered,
     RunningIsCovered, PassComes, ScanIsNear, Attended, RescanIsNear, ChainOff, Active
<1>4. \A k \in Jobs : RowSound(k)'
  BY SameRows DEF WakeFires
<1> QED BY <1>1, <1>2, <1>3, <1>4 DEF Invariant

LEMMA LeaseTimerFiresKeeps ==
    ASSUME Invariant, LeaseTimerFires
    PROVE  Invariant'
<1>0. Active /\ leaseTimer' = None /\ leaseDue' = None
  BY DEF Invariant, StartSound, LeaseTimerFires, None
<1>1. CASE ChainOff
  <2>1. chain' \in Chains /\ chain'.pc = "scan"
    BY <1>1 DEF LeaseTimerFires, StartChain, NoChain, Chains, Instants, None
  <2>2. TypeOK'
    BY <1>0, <2>1 DEF Invariant, TypeOK, LeaseTimerFires, Instants
  <2>3. WorkerSound' /\ ChainSound' /\ StartSound'
    BY <1>0, <2>1 DEF Invariant, LeaseTimerFires, WorkerSound, ChainSound, StartSound, Running, Active
  <2>4. ASSUME NEW k \in Jobs PROVE Covered(k)'
    BY <1>0, <2>1 DEF Invariant, LeaseTimerFires, Covered, QueuedIsCovered, DelayedIsCovered,
       RunningIsCovered, PassComes, ScanIsNear, Attended, ChainOff
  <2> QED BY <2>2, <2>3, <2>4, SameRows DEF Invariant, LeaseTimerFires
<1>2. CASE ~ChainOff
  <2>1. /\ chain' \in Chains /\ chain'.pc = chain.pc /\ chain'.next = chain.next
        /\ chain'.requested = 0 /\ chain'.wakeWorker = chain.wakeWorker
    BY <1>2, InvariantOf DEF LeaseTimerFires, StartChain, Chains, Instants
  <2>2. TypeOK'
    BY <1>0, <2>1 DEF Invariant, TypeOK, LeaseTimerFires, Instants
  <2>3. WorkerSound' /\ ChainSound' /\ StartSound'
    BY <1>0, <2>1 DEF Invariant, LeaseTimerFires, WorkerSound, ChainSound, StartSound, Running, Active
  <2>4. chain.pc \in {"scan", "install"} /\ 0 # None /\ \A k \in Jobs : 0 <= row[k].lease
    BY <1>2, InvariantOf DEF ChainOff, Chains, Rows, None
  <2>5. ASSUME NEW k \in Jobs PROVE Covered(k)'
    BY <1>0, <1>2, <2>1, <2>4 DEF Invariant, LeaseTimerFires, Covered, QueuedIsCovered, DelayedIsCovered,
       RunningIsCovered, PassComes, ScanIsNear, Attended, ChainOff
  <2> QED BY <2>2, <2>3, <2>5, SameRows DEF Invariant, LeaseTimerFires
<1> QED BY <1>1, <1>2

LEMMA ReadDelayedKeeps ==
    ASSUME Invariant, ReadDelayed
    PROVE  Invariant'
<1>1. CASE Delayed = {} /\ Continue("done")
  <2>1. wk' \in Workers /\ wk'.pc = "done" /\ UNCHANGED <<workerTimer, rerun>>
    BY <1>1, ContinueMoves
  <2>2. TypeOK'
    BY <2>1 DEF Invariant, TypeOK, ReadDelayed
  <2>3. WorkerSound' /\ ChainSound' /\ StartSound'
    BY <2>1 DEF Invariant, ReadDelayed, WorkerSound, ChainSound, StartSound, Running, Active, ChainOff,
       Orphans
  <2>4. ASSUME Active', NEW k \in Jobs PROVE Covered(k)'
    BY <1>1, <2>1, <2>4 DEF Invariant, ReadDelayed, Covered, QueuedIsCovered, DelayedIsCovered,
       RunningIsCovered, PassComes, ScanIsNear, Attended, ChainOff, Active, Delayed
  <2> QED BY <2>2, <2>3, <2>4, SameRows DEF Invariant, ReadDelayed
<1>2. ASSUME NEW j \in Earliest(Delayed), wk' = [wk EXCEPT !.pc = "arm", !.target = row[j].wait],
             UNCHANGED <<workerTimer, rerun>>
      PROVE  Invariant'
  <2>0. j \in Jobs /\ row[j].wait \in Nat /\ row[j].wait # None /\ row[j].wait \in Instants
        /\ \A k \in Jobs : row[k].status = "delayed" => row[j].wait <= row[k].wait
    BY <1>2, InvariantOf DEF Earliest, Delayed, Rows, None, Instants
  <2>1. wk' \in Workers /\ wk'.pc = "arm" /\ wk'.target = row[j].wait
    BY <1>2, <2>0, InvariantOf DEF Workers
  <2>2. TypeOK'
    BY <1>2, <2>1 DEF Invariant, TypeOK, ReadDelayed
  <2>3. WorkerSound' /\ ChainSound' /\ StartSound'
    BY <1>2, <2>1 DEF Invariant, ReadDelayed, WorkerSound, ChainSound, StartSound, Running, Active,
       ChainOff, Orphans
  <2>4. ASSUME Active', NEW k \in Jobs PROVE Covered(k)'
    BY <1>2, <2>0, <2>1, <2>4 DEF Invariant, ReadDelayed, Covered, QueuedIsCovered, DelayedIsCovered,
       RunningIsCovered, PassComes, ScanIsNear, Attended, ChainOff, Active
  <2> QED BY <2>2, <2>3, <2>4, SameRows DEF Invariant, ReadDelayed
<1> QED BY <1>1, <1>2 DEF ReadDelayed

LEMMA ArmWakeKeeps ==
    ASSUME Invariant, ArmWake
    PROVE  Invariant'
<1>1. wk' \in Workers /\ wk'.pc = "done" /\ UNCHANGED <<workerTimer, rerun>>
  BY ContinueMoves DEF ArmWake
<1>2. wk.target \in Instants /\ wk.target + 1 \in Nat
  BY InvariantOf DEF Workers, Instants, None
<1>3. /\ wake' \in Instants
      /\ Active => wake' # None /\ wake' <= wk.target + 1
      /\ ~Active => wake' = wake
  <2>1. wk.target + 1 \in Instants /\ wk.target + 1 # None
    BY <1>2 DEF Instants, None
  <2> QED BY <2>1, NativeIsSooner, InvariantOf DEF ArmWake, ScheduleWake
<1>4. TypeOK'
  BY <1>1, <1>3 DEF Invariant, TypeOK, ArmWake
<1>5. WorkerSound' /\ ChainSound' /\ StartSound'
  BY <1>1, <1>3 DEF Invariant, ArmWake, WorkerSound, ChainSound, StartSound, Running, Active,
     ChainOff, Orphans
<1>6. ASSUME Active', NEW k \in Jobs PROVE Covered(k)'
  <2>1. Active /\ Covered(k) /\ row[k].wait \in Nat
    BY <1>6, InvariantOf DEF Invariant, ArmWake, Active, Rows
  <2>2. wk.target # None /\ wk.target <= row[k].wait => wake' <= row[k].wait + 1
    BY <1>2, <1>3, <2>1 DEF Instants, None
  <2> QED BY <1>1, <1>3, <2>1, <2>2 DEF ArmWake, Covered, QueuedIsCovered, DelayedIsCovered,
             RunningIsCovered, PassComes, ScanIsNear, Attended, ChainOff, RescanIsNear
<1> QED BY <1>4, <1>5, <1>6, SameRows DEF Invariant, ArmWake

LEMMA EndPassKeeps ==
    ASSUME Invariant, EndPass
    PROVE  Invariant'
<1>1. TypeOK'
  BY WorkerReturnsToRest DEF Invariant, TypeOK, EndPass
<1>2. WorkerSound' /\ ChainSound' /\ StartSound'
  BY WorkerReturnsToRest DEF Invariant, EndPass, WorkerSound, ChainSound, StartSound, Running, Active,
     ChainOff, Orphans
<1>3. ASSUME Active', NEW k \in Jobs PROVE Covered(k)'
  BY <1>3, WorkerReturnsToRest DEF Invariant, EndPass, Covered, QueuedIsCovered, DelayedIsCovered,
     RunningIsCovered, PassComes, ScanIsNear, Attended, ChainOff, Active, RescanIsNear
<1> QED BY <1>1, <1>2, <1>3, SameRows DEF Invariant, EndPass

LEMMA SelectKeeps ==
    ASSUME Invariant, Select
    PROVE  Invariant'
<1>1. CASE ~Active /\ WorkerReturns
  <2>1. TypeOK'
    BY <1>1, WorkerReturnsToRest DEF Invariant, TypeOK, Select
  <2>2. WorkerSound' /\ ChainSound' /\ StartSound' /\ ~Active'
    BY <1>1, WorkerReturnsToRest DEF Invariant, Select, WorkerSound, ChainSound, StartSound, Running,
       Active, ChainOff, Orphans
  <2> QED BY <2>1, <2>2, SameRows DEF Invariant, Select
<1>2. CASE Active /\ Runnable = {} /\ wk' = [Off EXCEPT !.pc = "next"] /\ UNCHANGED <<workerTimer, rerun>>
  <2>1. wk' \in Workers /\ wk'.pc = "next"
    BY <1>2 DEF Off, Workers, Instants, None
  <2>2. TypeOK'
    BY <1>2, <2>1 DEF Invariant, TypeOK, Select
  <2>3. WorkerSound' /\ ChainSound' /\ StartSound'
    BY <1>2, <2>1 DEF Invariant, Select, WorkerSound, ChainSound, StartSound, Running, Active, ChainOff
  <2>4. ASSUME NEW k \in Jobs PROVE Covered(k)'
    BY <1>2, <2>1 DEF Invariant, Select, Covered, QueuedIsCovered, DelayedIsCovered,
       RunningIsCovered, PassComes, ScanIsNear, Attended, ChainOff, Runnable, RescanIsNear
  <2> QED BY <2>2, <2>3, <2>4, SameRows DEF Invariant, Select
<1>3. ASSUME Active, NEW j \in Runnable, wk' = [Off EXCEPT !.pc = "claim", !.job = j],
             UNCHANGED <<workerTimer, rerun>>
      PROVE  Invariant'
  <2>1. wk' \in Workers /\ wk'.pc = "claim" /\ wk'.job = j /\ j \in Jobs /\ row[j].status = "queued"
    BY <1>3 DEF Off, Workers, Instants, None, Runnable
  <2>2. TypeOK'
    BY <1>3, <2>1 DEF Invariant, TypeOK, Select
  <2>3. WorkerSound' /\ ChainSound' /\ StartSound'
    BY <1>3, <2>1 DEF Invariant, Select, WorkerSound, ChainSound, StartSound, Running, Active, ChainOff
  <2>4. ASSUME NEW k \in Jobs PROVE Covered(k)'
    BY <1>3, <2>1 DEF Invariant, Select, Covered, QueuedIsCovered, DelayedIsCovered,
       RunningIsCovered, PassComes, ScanIsNear, Attended, ChainOff
  <2> QED BY <2>2, <2>3, <2>4, SameRows DEF Invariant, Select
<1> QED BY <1>1, <1>2, <1>3 DEF Select

LEMMA EndScanKeeps ==
    ASSUME Invariant, EndScan
    PROVE  Invariant'
<1>1. CASE ~Active /\ chain' = NoChain /\ UNCHANGED timers
  <2>1. chain' \in Chains /\ chain'.pc = "off"
    BY <1>1 DEF NoChain, Chains, Instants, None
  <2>2. TypeOK'
    BY <1>1, <2>1 DEF Invariant, TypeOK, EndScan, timers
  <2>3. WorkerSound' /\ ChainSound' /\ StartSound' /\ ~Active'
    BY <1>1, <2>1 DEF Invariant, EndScan, timers, WorkerSound, ChainSound, StartSound, Running,
       Active, ChainOff, Orphans
  <2> QED BY <2>2, <2>3, SameRows DEF Invariant, EndScan
<1>2. CASE Active /\ chain' = [chain EXCEPT !.pc = "scan", !.requested = None] /\ UNCHANGED timers
  <2>1. chain' \in Chains /\ chain'.pc = "scan"
    BY <1>2, InvariantOf DEF Chains, Instants
  <2>2. TypeOK'
    BY <1>2, <2>1 DEF Invariant, TypeOK, EndScan, timers
  <2>3. WorkerSound' /\ ChainSound' /\ StartSound'
    BY <1>2, <2>1 DEF Invariant, EndScan, timers, WorkerSound, ChainSound, StartSound, Running, Active
  <2>4. ASSUME NEW k \in Jobs PROVE Covered(k)'
    BY <1>2, <2>1 DEF Invariant, EndScan, timers, Covered, QueuedIsCovered, DelayedIsCovered,
       RunningIsCovered, PassComes, ScanIsNear, Attended, ChainOff
  <2> QED BY <2>2, <2>3, <2>4, SameRows DEF Invariant, EndScan
<1>3. CASE /\ Active /\ InstallLeaseTimer(Smaller(chain.next, chain.requested))
           /\ IF chain.wakeWorker THEN ScheduleWorker ELSE UNCHANGED <<workerTimer, rerun>>
           /\ chain' = NoChain /\ wake' = wake
  <2> DEFINE t == Smaller(chain.next, chain.requested)
  <2>1. chain' \in Chains /\ chain'.pc = "off"
    BY <1>3 DEF NoChain, Chains, Instants, None
  <2>2. chain.next \in Instants /\ chain.requested \in Instants
    BY InvariantOf DEF Chains
  <2>3. /\ t \in Instants
        /\ chain.next # None => t # None /\ t <= chain.next
        /\ chain.requested # None => t # None /\ t <= chain.requested
    BY <2>2, SmallerIsBoth
  <2> HIDE DEF t
  <2>4. leaseDue' = t /\ leaseTimer' \in Instants /\ (leaseTimer' = None <=> t = None)
    BY <1>3, <2>3, NativeIsSooner DEF InstallLeaseTimer, t
  <2>5. /\ workerTimer' \in BOOLEAN /\ rerun' \in BOOLEAN
        /\ workerTimer' => ~Running
        /\ rerun' => Running
        /\ chain.wakeWorker => workerTimer' \/ rerun'
        /\ workerTimer => workerTimer'
        /\ rerun => rerun'
    BY <1>3, ScheduleWorkerArms, InvariantOf DEF Invariant, WorkerSound
  <2>6. TypeOK'
    BY <1>3, <2>1, <2>3, <2>4, <2>5 DEF Invariant, TypeOK, EndScan
  <2>7. WorkerSound' /\ ChainSound' /\ StartSound'
    BY <1>3, <2>1, <2>5 DEF Invariant, EndScan, WorkerSound, ChainSound, StartSound, Running, Active
  <2>8. ASSUME NEW k \in Jobs PROVE Covered(k)'
    <3>1. Covered(k) /\ row[k].lease \in Nat /\ ScanRetry \in Nat
          /\ (chain.wakeWorker \/ (chain.next # None /\ chain.next <= ScanRetry))
      BY <1>3, InvariantOf, TimerAssumption DEF Invariant, Rows, ChainSound, EndScan
    <3>2. workerTimer' \/ rerun' \/ RescanIsNear'
      BY <2>2, <2>3, <2>4, <2>5, <3>1 DEF RescanIsNear, Instants, None
    <3>3. QueuedIsCovered(k)' /\ DelayedIsCovered(k)'
      BY <1>3, <2>5, <3>1, <3>2 DEF Covered, QueuedIsCovered, DelayedIsCovered, PassComes, EndScan
    <3>4. RunningIsCovered(k)'
      BY <1>3, <2>1, <2>2, <2>3, <2>4, <3>1
      DEF Covered, RunningIsCovered, ScanIsNear, Attended, EndScan, ChainOff, Instants, None
    <3> QED BY <3>3, <3>4 DEF Covered
  <2> QED BY <2>6, <2>7, <2>8, SameRows DEF Invariant, EndScan
<1> QED BY <1>1, <1>2, <1>3 DEF EndScan

-----------------------------------------------------------------------------
(* Steps that write rows                                                   *)

LEMMA EnqueueKeeps ==
    ASSUME Invariant, NEW j \in Jobs, NEW w \in Waits, Enqueue(j, w)
    PROVE  Invariant'
<1>0. w \in Nat /\ row[j].status = "absent"
  BY TimerAssumption DEF Enqueue
<1>1. PICK st \in Statuses :
        st = (IF w > 0 THEN "delayed" ELSE "queued") /\ ((st = "queued" /\ w = 0) \/ st = "delayed")
  BY <1>0 DEF Statuses
<1> DEFINE x == [Absent EXCEPT !.wait = w, !.status = st]
<1>2. x \in Rows /\ x.attempts = 0 /\ x.wait = w /\ x.status = st
  <2>1. Absent \in Rows /\ Absent.attempts = 0
    BY TimerAssumption DEF Absent, Rows, Statuses
  <2> QED BY <1>0, <2>1 DEF Rows
<1>3. row' = [row EXCEPT ![j] = x]
  BY <1>1 DEF Enqueue
<1> HIDE DEF x
<1>4. row'[j] = x /\ row' \in [Jobs -> Rows] /\ \A k \in Jobs : k # j => row'[k] = row[k]
  BY <1>2, <1>3, InvariantOf
<1>5. TypeOK'
  BY <1>4 DEF Invariant, TypeOK, Enqueue, timers
<1>6. \A k \in Jobs : RowSound(k)'
  BY <1>1, <1>2, <1>4, TimerAssumption DEF Invariant, RowSound
<1>7. WorkerSound' /\ ChainSound' /\ StartSound'
  BY <1>0, <1>1, <1>2, <1>4, InvariantOf DEF Invariant, Enqueue, timers, WorkerSound, ChainSound,
     StartSound, Running, Active, ChainOff, Orphans
<1>8. ASSUME Active', NEW k \in Jobs PROVE Covered(k)'
  BY <1>0, <1>1, <1>2, <1>4, <1>8 DEF Invariant, Enqueue, timers, Covered, QueuedIsCovered,
     DelayedIsCovered, RunningIsCovered, PassComes, ScanIsNear, Attended, ChainOff, Active, RescanIsNear
<1> QED BY <1>5, <1>6, <1>7, <1>8 DEF Invariant

LEMMA PromoteKeeps ==
    ASSUME Invariant, Promote
    PROVE  Invariant'
<1>1. CASE ~Active /\ WorkerReturns /\ row' = row
  <2>1. TypeOK'
    BY <1>1, WorkerReturnsToRest DEF Invariant, TypeOK, Promote
  <2>2. WorkerSound' /\ ChainSound' /\ StartSound' /\ ~Active'
    BY <1>1, WorkerReturnsToRest DEF Invariant, Promote, WorkerSound, ChainSound, StartSound, Running,
       Active, ChainOff, Orphans
  <2> QED BY <1>1, <2>1, <2>2, SameRows DEF Invariant
<1>2. CASE /\ Active
           /\ row' = [j \in Jobs |-> IF row[j].status = "delayed" /\ row[j].wait = 0
                                     THEN [row[j] EXCEPT !.status = "queued"] ELSE row[j]]
           /\ wk' = [Off EXCEPT !.pc = "select", !.later = {j \in Jobs : row[j].wait > 0}]
           /\ UNCHANGED <<workerTimer, rerun>>
  <2>1. /\ wk' \in Workers /\ wk'.pc = "select"
        /\ \A k \in Jobs : k \in wk'.later => row[k].wait > 0
    BY <1>2 DEF Off, Workers, Instants, None
  <2>2. ASSUME NEW k \in Jobs
        PROVE  /\ row'[k] \in Rows /\ row'[k].wait = row[k].wait /\ row'[k].lease = row[k].lease
               /\ row'[k].attempts = row[k].attempts
               /\ \/ row'[k].status = row[k].status
                  \/ row[k].status = "delayed" /\ row[k].wait = 0 /\ row'[k].status = "queued"
    <3>1. row[k] \in Rows
      BY InvariantOf
    <3>2. CASE row[k].status = "delayed" /\ row[k].wait = 0
      BY <1>2, <3>1, <3>2 DEF Rows, Statuses
    <3>3. CASE ~(row[k].status = "delayed" /\ row[k].wait = 0)
      BY <1>2, <3>1, <3>3
    <3> QED BY <3>2, <3>3
  <2>3. row' \in [Jobs -> Rows]
    BY <1>2, <2>2
  <2>4. TypeOK'
    BY <1>2, <2>1, <2>3 DEF Invariant, TypeOK, Promote
  <2>5. \A k \in Jobs : RowSound(k)'
    BY <2>2, InvariantOf DEF RowSound
  <2>6. WorkerSound' /\ ChainSound' /\ StartSound'
    BY <1>2, <2>1 DEF Invariant, Promote, WorkerSound, ChainSound, StartSound, Running, Active, ChainOff
  <2>7. ASSUME NEW k \in Jobs PROVE Covered(k)'
    <3>1. row'[k].status = "queued" => ~(row[k].wait > 0)
      BY <2>2, <2>5, InvariantOf DEF RowSound
    <3> QED BY <1>2, <2>1, <2>2, <3>1 DEF Invariant, Promote, Covered, QueuedIsCovered,
               DelayedIsCovered, RunningIsCovered, PassComes, ScanIsNear, Attended, ChainOff
  <2> QED BY <2>4, <2>5, <2>6, <2>7 DEF Invariant
<1> QED BY <1>1, <1>2 DEF Promote

\* The worker writes the row it has claimed or claims, and nobody else's.
LEMMA ClaimKeeps ==
    ASSUME Invariant, Claim
    PROVE  Invariant'
<1> DEFINE j == wk.job
<1>0. j \in Jobs /\ row[j] \in Rows /\ row[j].status = "queued" /\ RowSound(j)
  BY InvariantOf DEF Claim, Invariant, WorkerSound
<1>1. PICK n \in 0..MaxAttempts : n = row[j].attempts + 1 /\ n > 0
  BY <1>0, TimerAssumption DEF Rows, RowSound
<1> DEFINE x == [row[j] EXCEPT !.status = "running", !.attempts = n, !.lease = LeaseTicks]
<1>2. x \in Rows /\ x.status = "running" /\ x.attempts > 0 /\ x.wait = 0
  BY <1>0, <1>1, TimerAssumption DEF Rows, Statuses, RowSound
<1>3. row' = [row EXCEPT ![j] = x]
  BY <1>0, <1>1, InvariantOf DEF Claim
<1> HIDE DEF x
<1>4. row'[j] = x /\ row' \in [Jobs -> Rows] /\ \A k \in Jobs : k # j => row'[k] = row[k]
  BY <1>0, <1>2, <1>3, InvariantOf
<1>5. wk' \in Workers /\ wk'.pc = "claimed" /\ wk'.job = j /\ UNCHANGED <<workerTimer, rerun>>
  BY ContinueMoves DEF Claim
<1>6. TypeOK'
  BY <1>0, <1>4, <1>5 DEF Invariant, TypeOK, Claim
<1>7. \A k \in Jobs : RowSound(k)'
  BY <1>2, <1>4 DEF Invariant, RowSound
<1>8. WorkerSound' /\ ChainSound' /\ StartSound'
  BY <1>5 DEF Invariant, Claim, WorkerSound, ChainSound, StartSound, Running, Active, ChainOff, Orphans
<1>9. ASSUME Active', NEW k \in Jobs PROVE Covered(k)'
  BY <1>2, <1>4, <1>5, <1>9 DEF Invariant, Claim, Covered, QueuedIsCovered, DelayedIsCovered,
     RunningIsCovered, PassComes, ScanIsNear, Attended, ChainOff, Active
<1> QED BY <1>6, <1>7, <1>8, <1>9 DEF Invariant

\* A write of the worker's own row that does not leave it running, and takes the worker
\* to the head of its loop.
LEMMA AttemptEnds ==
    ASSUME Invariant, NEW j \in Jobs, wk.job = j, wk.pc \in {"claimed", "handler"},
           NEW x \in Rows, row' = [row EXCEPT ![j] = x] \/ (row' = row /\ x = row[j]),
           x.status # "running",
           x.status \in {"queued", "delayed"} => x.attempts < MaxAttempts,
           x.status = "queued" => x.wait = 0,
           Continue("head"), wake' \in Instants, ~Active => wake' = wake,
           UNCHANGED <<phase, undispatched, leaseTimer, leaseDue, chain, retained, faults>>
    PROVE  Invariant'
<1>1. row'[j] = x /\ row' \in [Jobs -> Rows] /\ \A k \in Jobs : k # j => row'[k] = row[k]
  BY InvariantOf
<1>2. wk' \in Workers /\ wk'.pc = "head" /\ UNCHANGED <<workerTimer, rerun>>
  BY ContinueMoves
<1>3. TypeOK'
  BY <1>1, <1>2 DEF Invariant, TypeOK
<1>4. \A k \in Jobs : RowSound(k)'
  BY <1>1 DEF Invariant, RowSound
<1>5. WorkerSound' /\ ChainSound' /\ StartSound'
  BY <1>2 DEF Invariant, WorkerSound, ChainSound, StartSound, Running, Active, ChainOff, Orphans
<1>6. ASSUME Active', NEW k \in Jobs PROVE Covered(k)'
  BY <1>1, <1>2, <1>6 DEF Invariant, Covered, QueuedIsCovered, DelayedIsCovered,
     RunningIsCovered, PassComes, ScanIsNear, Attended, ChainOff, Active
<1> QED BY <1>3, <1>4, <1>5, <1>6 DEF Invariant

\* The worker of a process that is no longer active gives its attempt up and returns.
LEMMA AttemptIsRelinquished ==
    ASSUME Invariant, NEW j \in Jobs, ~Active, WorkerReturns,
           NEW x \in Rows, row' = [row EXCEPT ![j] = x] \/ (row' = row /\ x = row[j]),
           x.status \in {"queued", "delayed"} => x.attempts < MaxAttempts,
           x.status = "running" => x.attempts > 0,
           x.status \in {"queued", "running"} => x.wait = 0,
           wk.pc \in {"claimed", "handler"},
           UNCHANGED <<phase, undispatched, wake, leaseTimer, leaseDue, chain, retained, faults>>
    PROVE  Invariant'
<1>1. row'[j] = x /\ row' \in [Jobs -> Rows] /\ \A k \in Jobs : k # j => row'[k] = row[k]
  BY InvariantOf
<1>2. TypeOK'
  BY <1>1, WorkerReturnsToRest DEF Invariant, TypeOK
<1>3. \A k \in Jobs : RowSound(k)'
  BY <1>1 DEF Invariant, RowSound
<1>4. WorkerSound' /\ ChainSound' /\ StartSound' /\ ~Active'
  BY WorkerReturnsToRest DEF Invariant, WorkerSound, ChainSound, StartSound, Running, Active,
     ChainOff, Orphans
<1> QED BY <1>2, <1>3, <1>4 DEF Invariant

LEMMA StartKeeps ==
    ASSUME Invariant, Start
    PROVE  Invariant'
<1>0. PICK j \in Jobs : j = wk.job
  BY InvariantOf DEF Start
<1>1. row[j] \in Rows /\ RowSound(j) /\ wk.pc = "claimed" /\ row \in [Jobs -> Rows]
  BY InvariantOf DEF Start
<1>2. CASE ~Active /\ Owned
  <2>1. PICK n \in 0..MaxAttempts : n = row[j].attempts - 1 /\ n < MaxAttempts
    BY <1>0, <1>1, <1>2, TimerAssumption DEF Rows, RowSound, Owned
  <2> DEFINE x == [row[j] EXCEPT !.status = "queued", !.attempts = n]
  <2>2. x \in Rows /\ x.status = "queued" /\ x.attempts = n /\ x.wait = 0
    BY <1>0, <1>1, <1>2, <2>1 DEF Rows, Statuses, RowSound, Owned
  <2>3. row' = [row EXCEPT ![j] = x]
    BY <1>0, <1>1, <1>2, <2>1 DEF Start
  <2> HIDE DEF x
  <2> QED BY <1>1, <1>2, <2>1, <2>2, <2>3, AttemptIsRelinquished DEF Start
<1>3. CASE ~Active /\ ~Owned
  BY <1>1, <1>3, AttemptIsRelinquished DEF Start, RowSound
<1>4. CASE Active /\ Owned /\ Continue("handler") /\ row' = row
  <2>1. wk' \in Workers /\ wk'.pc = "handler" /\ wk'.job = wk.job /\ UNCHANGED <<workerTimer, rerun>>
    BY <1>4, ContinueMoves
  <2>2. TypeOK'
    BY <1>1, <1>4, <2>1 DEF Invariant, TypeOK, Start
  <2>3. WorkerSound' /\ ChainSound' /\ StartSound'
    BY <1>1, <1>4, <2>1 DEF Invariant, Start, WorkerSound, ChainSound, StartSound, Running, Active,
       ChainOff
  <2>4. ASSUME NEW k \in Jobs PROVE Covered(k)'
    BY <1>1, <1>4, <2>1 DEF Invariant, Start, Covered, QueuedIsCovered, DelayedIsCovered,
       RunningIsCovered, PassComes, ScanIsNear, Attended, ChainOff
  <2> QED BY <1>4, <2>2, <2>3, <2>4, SameRows DEF Invariant
<1>5. CASE Active /\ ~Owned /\ Continue("head") /\ row' = row
  <2>1. row[j].status # "running" /\ wake \in Instants
    BY <1>0, <1>5, InvariantOf DEF Owned
  <2> QED BY <1>0, <1>1, <1>5, <2>1, AttemptEnds DEF Start, RowSound
<1> QED BY <1>2, <1>3, <1>4, <1>5 DEF Start

LEMMA SucceedKeeps ==
    ASSUME Invariant, Succeed
    PROVE  Invariant'
<1> DEFINE j == wk.job
           x == IF Owned THEN [row[j] EXCEPT !.status = "succeeded"] ELSE row[j]
<1>0. j \in Jobs /\ row[j] \in Rows /\ RowSound(j) /\ wk.pc = "handler"
  BY InvariantOf DEF Succeed
<1>1. x \in Rows /\ x.status # "running" /\ (x.status = "succeeded" \/ x = row[j])
  BY <1>0 DEF Rows, Statuses, Owned
<1>2. row' = [row EXCEPT ![j] = x] \/ (row' = row /\ x = row[j])
  BY <1>0, InvariantOf DEF Succeed
<1>3. wake' \in Instants /\ wake' = wake
  BY InvariantOf DEF Succeed
<1> HIDE DEF x
<1> QED BY <1>0, <1>1, <1>2, <1>3, AttemptEnds DEF Succeed, RowSound

LEMMA FailKeeps ==
    ASSUME Invariant, Fail
    PROVE  Invariant'
<1> DEFINE j == wk.job
           x == IF ~Owned THEN row[j]
                ELSE IF RetryLeft(j) THEN [row[j] EXCEPT !.status = "delayed", !.wait = RetryDelay]
                ELSE [row[j] EXCEPT !.status = "failed"]
<1>0. j \in Jobs /\ row[j] \in Rows /\ RowSound(j) /\ wk.pc = "handler"
  BY InvariantOf DEF Fail
<1>1. /\ x \in Rows /\ x.status # "running"
      /\ \/ x = row[j] \/ x.status = "failed"
         \/ x.status = "delayed" /\ x.attempts < MaxAttempts
  BY <1>0, TimerAssumption DEF Rows, Statuses, Owned, RetryLeft
<1>2. row' = [row EXCEPT ![j] = x] \/ (row' = row /\ x = row[j])
  BY <1>0, InvariantOf DEF Fail
<1>3. wake' \in Instants /\ (~Active => wake' = wake)
  <2>1. RetryDelay + 1 \in Instants
    BY TimerAssumption DEF Instants
  <2> QED BY <2>1, NativeIsSooner, InvariantOf DEF Fail, ScheduleWake
<1> HIDE DEF x
<1> QED BY <1>0, <1>1, <1>2, <1>3, AttemptEnds DEF Fail, RowSound

\* Recovery of expired leases: the rows of D wait again or have failed, the others stay.
LEMMA RecoveredRows ==
    ASSUME Invariant, NEW D \in SUBSET Expired, row' = Recovered(D)
    PROVE  /\ row' \in [Jobs -> Rows] /\ \A k \in Jobs : RowSound(k)'
           /\ \A k \in Jobs : \/ k \notin D /\ row'[k] = row[k]
                              \/ /\ k \in D /\ row[k].status = "running"
                                 /\ row'[k].status \in {"delayed", "failed"}
<1>1. ASSUME NEW k \in Jobs
      PROVE  /\ row'[k] \in Rows /\ RowSound(k)'
             /\ \/ k \notin D /\ row'[k] = row[k]
                \/ /\ k \in D /\ row[k].status = "running"
                   /\ row'[k].status \in {"delayed", "failed"}
  <2>0. row[k] \in Rows /\ RowSound(k)
    BY InvariantOf
  <2>1. CASE k \notin D
    BY <2>0, <2>1 DEF Recovered, RowSound
  <2>2. CASE k \in D /\ RetryLeft(k)
    <3> DEFINE x == [row[k] EXCEPT !.status = "delayed", !.wait = RetryDelay]
    <3>1. row'[k] = x /\ row[k].status = "running"
      BY <2>2 DEF Recovered, Expired, Orphans
    <3>2. x \in Rows /\ x.status = "delayed" /\ x.attempts < MaxAttempts
      BY <2>0, <2>2, TimerAssumption DEF Rows, Statuses, RetryLeft
    <3> HIDE DEF x
    <3> QED BY <2>2, <3>1, <3>2 DEF RowSound
  <2>3. CASE k \in D /\ ~RetryLeft(k)
    <3> DEFINE x == [row[k] EXCEPT !.status = "failed"]
    <3>1. row'[k] = x /\ row[k].status = "running"
      BY <2>3 DEF Recovered, Expired, Orphans
    <3>2. x \in Rows /\ x.status = "failed"
      BY <2>0 DEF Rows, Statuses
    <3> HIDE DEF x
    <3> QED BY <2>3, <3>1, <3>2 DEF RowSound
  <2> QED BY <2>1, <2>2, <2>3
<1>2. row' = [k \in Jobs |-> row'[k]]
  BY DEF Recovered
<1> QED BY <1>1, <1>2

\* After a scan, whatever it recovered, the chain is about to end with a hand-over or a repeat.
LEMMA ScanEnds ==
    ASSUME Invariant, NEW D \in SUBSET Expired, row' = Recovered(D),
           chain.pc = "scan", chain' \in Chains, chain'.pc = "install",
           \/ chain'.wakeWorker /\ chain'.next = EarliestLease /\ D = Expired
           \/ chain'.next = ScanRetry,
           faults' \in 0..MaxFaults,
           UNCHANGED <<phase, undispatched, timers, wk, retained>>
    PROVE  Invariant'
<1>1. /\ row' \in [Jobs -> Rows] /\ \A k \in Jobs : RowSound(k)'
      /\ \A k \in Jobs : \/ k \notin D /\ row'[k] = row[k]
                         \/ /\ k \in D /\ row[k].status = "running"
                            /\ row'[k].status \in {"delayed", "failed"}
  BY RecoveredRows
<1>2. TypeOK'
  BY <1>1 DEF Invariant, TypeOK, timers
<1>3. ScanRetry \in Nat /\ ScanRetry # None
  BY TimerAssumption DEF None
<1>4. WorkerSound' /\ ChainSound' /\ StartSound'
  BY <1>1, <1>3, InvariantOf DEF Invariant, timers, WorkerSound, ChainSound, StartSound, Running, Active,
     ChainOff
<1>5. ASSUME Active', NEW k \in Jobs PROVE Covered(k)'
  <2>1. row'[k].status = "running" =>
          \/ k \in Orphans \ Expired /\ chain'.next = EarliestLease /\ row'[k] = row[k]
          \/ chain'.next = ScanRetry
    BY <1>1 DEF Orphans
  <2>2. RunningIsCovered(k)'
    BY <1>3, <2>1, EarliestLeaseIsEarliest DEF Invariant, RunningIsCovered, ScanIsNear
  <2>3. QueuedIsCovered(k)' /\ DelayedIsCovered(k)'
    BY <1>1, <1>5 DEF Invariant, timers, Covered, QueuedIsCovered, DelayedIsCovered, PassComes,
       ChainOff, Active
  <2> QED BY <2>2, <2>3 DEF Covered
<1> QED BY <1>1, <1>2, <1>4, <1>5 DEF Invariant

LEMMA ScanLeasesKeeps ==
    ASSUME Invariant, ScanLeases
    PROVE  Invariant'
<1>1. EarliestLease \in Instants
  BY EarliestLeaseIsEarliest DEF Invariant
<1>2. chain' \in Chains /\ chain'.pc = "install" /\ chain'.wakeWorker /\ chain'.next = EarliestLease
  BY <1>1, InvariantOf DEF ScanLeases, Chains
<1> QED BY <1>2, InvariantOf, ScanEnds DEF ScanLeases

LEMMA ScanFailsKeeps ==
    ASSUME Invariant, ScanFails
    PROVE  Invariant'
<1>1. ScanRetry \in Instants /\ faults' \in 0..MaxFaults
  BY TimerAssumption, InvariantOf DEF Instants, ScanFails
<1>2. chain' \in Chains /\ chain'.pc = "install" /\ chain'.next = ScanRetry
  BY <1>1, InvariantOf DEF ScanFails, Chains
<1> QED BY <1>1, <1>2, ScanEnds DEF ScanFails

-----------------------------------------------------------------------------
(* The life of the process, and time                                       *)

LEMMA OpenKeeps ==
    ASSUME Invariant, Open
    PROVE  Invariant'
<1>1. /\ row' \in [Jobs -> Rows] /\ \A k \in Jobs : RowSound(k)'
      /\ \A k \in Jobs : \/ k \notin Expired /\ row'[k] = row[k]
                         \/ /\ k \in Expired /\ row[k].status = "running"
                            /\ row'[k].status \in {"delayed", "failed"}
  BY RecoveredRows DEF Open
<1>2. /\ EarliestLease \in Instants
      /\ \A j \in Orphans \ Expired : EarliestLease # None /\ EarliestLease <= row[j].lease
  BY EarliestLeaseIsEarliest DEF Invariant
<1>3. TypeOK' /\ phase' = "opened" /\ retained' = EarliestLease
  BY <1>1, <1>2 DEF Invariant, TypeOK, Open, timers
<1>4. \A k \in Orphans' : k \in Orphans \ Expired /\ row'[k] = row[k]
  BY <1>1 DEF Orphans
<1>5. WorkerSound' /\ ChainSound' /\ StartSound' /\ ~Active'
  BY <1>2, <1>3, <1>4 DEF Invariant, Open, timers, WorkerSound, ChainSound, StartSound, Running, Active,
     ChainOff
<1> QED BY <1>1, <1>3, <1>5 DEF Invariant

\* Whatever lease a process starts with, it starts a worker, and nothing that runs ends
\* its lease before the recovery that it installs or asks for.
LEMMA ActivateAtKeeps ==
    ASSUME Invariant, NEW t \in Instants, ActivateAt(t),
           \/ t = 0
           \/ phase = "opened" /\ t = retained
    PROVE  Invariant'
<1>0. /\ ~Active /\ wk.pc = "off" /\ ~Running /\ phase' = "active" /\ workerTimer' /\ ~rerun
      /\ leaseTimer = None
      /\ UNCHANGED <<row, undispatched, rerun, wk, wake, faults>> /\ retained' = None
  BY DEF ActivateAt, Active, Invariant, StartSound, Running
<1>1. \A k \in Jobs : row[k].status = "running" => t # None /\ t <= row[k].lease
  <2>1. \A k \in Jobs : 0 <= row[k].lease /\ 0 # None
    BY InvariantOf DEF Rows, None
  <2> QED BY <2>1 DEF Invariant, StartSound, Orphans
<1>2. CASE ~ChainOff
  <2>1. t = 0 /\ leaseTimer' = leaseTimer /\ leaseDue' = leaseDue
    BY <1>2 DEF Invariant, StartSound, ActivateAt, ScheduleLeaseRecovery
  <2>2. /\ chain' \in Chains /\ chain'.pc = chain.pc /\ chain'.next = chain.next
        /\ chain'.wakeWorker = chain.wakeWorker
        /\ chain'.requested = Smaller(chain.requested, t) /\ chain.requested \in Instants
    <3>1. Smaller(chain.requested, t) \in Instants /\ chain.requested \in Instants
      BY SmallerIsBoth, InvariantOf DEF Chains
    <3> QED BY <1>2, <3>1, InvariantOf DEF ActivateAt, ScheduleLeaseRecovery, Chains
  <2>3. chain'.requested # None /\ chain'.requested <= t /\ chain'.requested \in Instants
    BY <2>1, <2>2, SmallerIsBoth DEF None
  <2>4. TypeOK'
    BY <1>0, <2>1, <2>2 DEF Invariant, TypeOK, Instants
  <2>5. WorkerSound' /\ ChainSound' /\ StartSound'
    BY <1>0, <2>2 DEF Invariant, WorkerSound, ChainSound, StartSound, Running, Active
  <2>6. chain'.pc \in {"scan", "install"}
    BY <1>2, <2>2, InvariantOf DEF ChainOff, Chains
  <2>7. ASSUME NEW k \in Jobs PROVE Covered(k)'
    <3>1. row'[k].status = "running" => chain'.requested <= row'[k].lease
      BY <1>0, <1>1, <2>1, <2>3, InvariantOf DEF Rows, Instants, None
    <3> QED BY <1>0, <2>3, <2>6, <3>1 DEF Covered, QueuedIsCovered, DelayedIsCovered, PassComes,
               RunningIsCovered, ScanIsNear
  <2> QED BY <1>0, <2>4, <2>5, <2>7, SameRows DEF Invariant
<1>3. CASE ChainOff
  <2>1. chain' = chain /\ leaseDue' = t /\ leaseTimer' = Native(t)
    BY <1>0, <1>3 DEF ActivateAt, ScheduleLeaseRecovery, InstallLeaseTimer
  <2>2. leaseTimer' \in Instants /\ (leaseTimer' = None <=> t = None)
    BY <2>1, NativeIsSooner
  <2>3. TypeOK'
    BY <1>0, <2>1, <2>2 DEF Invariant, TypeOK, Instants
  <2>4. WorkerSound' /\ ChainSound' /\ StartSound'
    BY <1>0, <2>1 DEF Invariant, WorkerSound, ChainSound, StartSound, Running, Active
  <2>5. ASSUME NEW k \in Jobs PROVE Covered(k)'
    BY <1>0, <1>1, <1>3, <2>1, <2>2 DEF Covered, QueuedIsCovered, DelayedIsCovered, PassComes,
       RunningIsCovered, ScanIsNear, ChainOff
  <2> QED BY <1>0, <2>3, <2>4, <2>5, SameRows DEF Invariant
<1> QED BY <1>2, <1>3

LEMMA ActivateKeeps ==
    ASSUME Invariant, Activate
    PROVE  Invariant'
<1>1. 0 \in Instants /\ retained \in Instants
  BY InvariantOf DEF Instants
<1> QED BY <1>1, ActivateAtKeeps DEF Activate

\* A process that is stopped, closed or gone has no timer and owes nobody anything.
LEMMA DownKeeps ==
    ASSUME Invariant, Stop("stopped") \/ Stop("deferred") \/ Close \/ Crash
    PROVE  Invariant'
<1>1. row' = row /\ ~Active' /\ phase' \in {"stopped", "deferred", "down"}
  BY DEF Stop, Close, Crash, Active
<1>2. /\ chain' \in Chains
      /\ \/ chain'.pc = "off"
         \/ /\ chain'.pc = chain.pc /\ chain'.next = chain.next
            /\ chain'.wakeWorker = chain.wakeWorker
  <2>1. NoChain \in Chains /\ NoChain.pc = "off"
    BY DEF NoChain, Chains, Instants, None
  <2>2. chain \in Chains
    BY InvariantOf
  <2>3. CASE Close \/ Crash
    BY <2>1, <2>2, <2>3 DEF Close, Crash
  <2>4. CASE Stop("stopped") \/ Stop("deferred")
    <3>1. chain' = [chain EXCEPT !.requested = None] /\ None \in Instants
      BY <2>4 DEF Stop, StopWorker, Instants
    <3> QED BY <2>2, <3>1 DEF Chains
  <2> QED BY <2>3, <2>4
<1>3. wk' \in Workers /\ (wk' = wk \/ wk' = Off) /\ Off.pc = "off"
  BY InvariantOf DEF Stop, Close, Crash, Off, Workers, Instants, None
<1>4. ~workerTimer' /\ ~rerun' /\ wake' = None /\ leaseTimer' = None /\ leaseDue' = None
  BY DEF Invariant, StartSound, Stop, StopWorker, Close, Crash, timers, Active
<1>5. faults' \in 0..MaxFaults /\ undispatched' \subseteq Jobs /\ retained' \in Instants
  BY InvariantOf, TimerAssumption DEF Stop, Close, Crash, Instants
<1>6. phase' = "down" => wk'.pc = "off" /\ chain'.pc = "off"
  BY DEF Stop, Close, Crash, Off, NoChain, ChainOff
<1>7. TypeOK'
  <2>1. workerTimer' \in BOOLEAN /\ rerun' \in BOOLEAN
    BY InvariantOf DEF Stop, StopWorker, Close, Crash, timers
  <2>2. wk'.pc \in {"claim", "claimed", "handler"} => wk'.job \in Jobs
    BY <1>3, InvariantOf
  <2>3. None \in Instants
    BY DEF Instants
  <2> QED BY <1>1, <1>2, <1>3, <1>4, <1>5, <2>1, <2>2, <2>3 DEF Invariant, TypeOK
<1>8. WorkerSound'
  <2>1. wk'.pc = "claim" => row'[wk'.job].status = "queued"
    <3>1. CASE wk' = wk
      BY <1>1, <3>1 DEF Invariant, WorkerSound
    <3>2. CASE wk' = Off
      BY <3>2 DEF Off
    <3> QED BY <1>3, <3>1, <3>2
  <2> QED BY <1>4, <2>1 DEF WorkerSound
<1>9. ChainSound'
  BY <1>2 DEF Invariant, ChainSound
<1>10. StartSound'
  BY <1>1, <1>4, <1>6 DEF StartSound, ChainOff
<1> QED BY <1>1, <1>7, <1>8, <1>9, <1>10, SameRows DEF Invariant

LEMMA TickKeeps ==
    ASSUME Invariant, Tick
    PROVE  Invariant'
<1>0. /\ row \in [Jobs -> Rows] /\ wk \in Workers /\ chain \in Chains
      /\ UNCHANGED <<phase, undispatched, workerTimer, rerun, faults>>
  BY InvariantOf DEF Tick
<1>1. ASSUME NEW k \in Jobs
      PROVE  /\ row'[k] \in Rows /\ row'[k].status = row[k].status /\ row'[k].attempts = row[k].attempts
             /\ row'[k].wait = Less(row[k].wait) /\ row'[k].lease = Less(row[k].lease)
             /\ row[k].wait \in Nat /\ row[k].lease \in Nat
  BY <1>0, LessIsSooner DEF Tick, Rows
<1>2. row' \in [Jobs -> Rows]
  BY <1>1 DEF Tick
<1>3. /\ wk' \in Workers /\ wk'.pc = wk.pc /\ wk'.job = wk.job /\ wk'.target = Less(wk.target)
      /\ wk.target \in Instants /\ wk'.target \in Instants
      /\ \A k \in Jobs : k \in wk'.later => k \in wk.later \/ row[k].status = "absent"
  <2>1. wk.target \in Instants /\ Less(wk.target) \in Instants
    BY <1>0, LessIsSooner DEF Workers
  <2> DEFINE l == IF wk.pc = "select" THEN wk.later \cup {j \in Jobs : row[j].status = "absent"}
                  ELSE wk.later
  <2>2. l \in SUBSET Jobs /\ \A k \in Jobs : k \in l => k \in wk.later \/ row[k].status = "absent"
    BY <1>0 DEF Workers
  <2>3. wk' = [wk EXCEPT !.target = Less(wk.target), !.later = l]
    BY DEF Tick
  <2> HIDE DEF l
  <2> QED BY <1>0, <2>1, <2>2, <2>3 DEF Workers
<1>4. /\ chain' \in Chains /\ chain'.pc = chain.pc /\ chain'.wakeWorker = chain.wakeWorker
      /\ chain'.next = Less(chain.next) /\ chain'.requested = Less(chain.requested)
      /\ chain.next \in Instants /\ chain.requested \in Instants
  BY <1>0, LessIsSooner DEF Tick, Chains
<1>5. /\ wake' = Less(wake) /\ leaseTimer' = Less(leaseTimer) /\ leaseDue' = Less(leaseDue)
      /\ retained' = Less(retained)
      /\ wake \in Instants /\ leaseTimer \in Instants /\ leaseDue \in Instants /\ retained \in Instants
      /\ wake' \in Instants /\ leaseTimer' \in Instants /\ leaseDue' \in Instants
      /\ retained' \in Instants
  BY InvariantOf, LessIsSooner DEF Tick
<1>6. TypeOK'
  BY <1>0, <1>2, <1>3, <1>4, <1>5 DEF Invariant, TypeOK
<1>7. \A k \in Jobs : RowSound(k)'
  <2>1. Less(0) = 0
    BY DEF Less
  <2> QED BY <1>1, <2>1, InvariantOf DEF RowSound
\* What was no later than something else stays so, and what was near stays near.
<1>8. /\ ScanRetry \in Nat
      /\ \A s \in Instants : s # None => s \in Nat /\ Less(s) \in Nat /\ Less(s) # None /\ Less(s) <= s
      /\ \A s \in Instants : Less(s) = None <=> s = None
      /\ \A s \in Instants : Less(s) <= s
      /\ \A s \in Instants, t \in Nat : s <= t => Less(s) <= Less(t)
      /\ \A s \in Instants, t \in Nat : s <= t + 1 => Less(s) <= Less(t) + 1
  BY TimerAssumption DEF Less, Instants, None
<1>9. WorkerSound' /\ ChainSound'
  <2>1. chain.next # None /\ chain.next <= ScanRetry => Less(chain.next) # None /\ Less(chain.next) <= ScanRetry
    BY <1>4, <1>8
  <2>2. wk.pc = "claim" => wk.job \in Jobs
    BY InvariantOf
  <2> QED BY <1>0, <1>1, <1>3, <1>4, <2>1, <2>2 DEF Invariant, WorkerSound, ChainSound, Running
<1>10. StartSound'
  <2>1. phase = "opened" => \A j \in Orphans : retained # None /\ retained <= row[j].lease
    BY DEF Invariant, StartSound
  <2>2. ASSUME phase = "opened", NEW j \in Orphans'
        PROVE  retained' # None /\ retained' <= row'[j].lease
    BY <1>1, <1>5, <1>8, <2>1, <2>2 DEF Orphans
  <2> QED BY <1>0, <1>3, <1>4, <1>5, <1>8, <2>2 DEF Invariant, StartSound, Active, ChainOff
<1>11. ASSUME Active', NEW k \in Jobs PROVE Covered(k)'
  <2>0. Covered(k)
    BY <1>0, <1>11 DEF Invariant, Active
  <2>1. QueuedIsCovered(k)'
    BY <1>0, <1>1, <1>3, <2>0 DEF Covered, QueuedIsCovered, PassComes
  <2>2. RescanIsNear => RescanIsNear'
    <3>1. leaseDue <= ScanRetry => Less(leaseDue) <= ScanRetry
      BY <1>5, <1>8 DEF Instants, None
    <3> QED BY <1>5, <1>8, <3>1 DEF RescanIsNear
  <2>3. wk.target # None /\ wk.target <= row[k].wait => wk'.target # None /\ wk'.target <= row'[k].wait
    BY <1>1, <1>3, <1>8
  <2>4. wake # None /\ wake <= row[k].wait + 1 => wake' # None /\ wake' <= row'[k].wait + 1
    BY <1>1, <1>5, <1>8
  <2>5. DelayedIsCovered(k)'
    BY <1>0, <1>1, <1>3, <1>4, <2>0, <2>2, <2>3, <2>4 DEF Covered, DelayedIsCovered, PassComes, ChainOff
  <2>6. ScanIsNear(k) => ScanIsNear(k)'
    <3>1. \A s \in Instants : s <= row[k].lease => Less(s) <= row'[k].lease
      BY <1>1, <1>8
    <3>2. \A s \in Instants : s <= ScanRetry => Less(s) <= ScanRetry
      BY <1>8 DEF Instants, None
    <3> QED BY <1>4, <1>5, <1>8, <3>1, <3>2 DEF ScanIsNear, ChainOff
  <2>7. RunningIsCovered(k)'
    BY <1>1, <1>3, <2>0, <2>6 DEF Covered, RunningIsCovered, Attended
  <2> QED BY <2>1, <2>5, <2>7 DEF Covered
<1> QED BY <1>6, <1>7, <1>9, <1>10, <1>11 DEF Invariant

-----------------------------------------------------------------------------
(* The theorems                                                            *)

LEMMA InitIsSound ==
    ASSUME Init
    PROVE  Invariant
<1>1. TypeOK
  <2>1. Absent \in Rows /\ None \in Instants
    BY TimerAssumption DEF Absent, Rows, Statuses, Instants
  <2>2. Off \in Workers /\ Off.pc = "off" /\ NoChain \in Chains
    BY <2>1 DEF Off, Workers, NoChain, Chains
  <2>3. row = [j \in Jobs |-> Absent] /\ row \in [Jobs -> Rows]
    BY <2>1 DEF Init
  <2>4. wk \in Workers /\ wk.pc = "off" /\ chain \in Chains
    BY <2>2 DEF Init
  <2>5. faults \in 0..MaxFaults
    BY TimerAssumption DEF Init
  <2> QED BY <2>1, <2>3, <2>4, <2>5 DEF Init, TypeOK
<1>2. \A j \in Jobs : RowSound(j)
  BY DEF Init, Absent, RowSound
<1>3. WorkerSound /\ ChainSound /\ StartSound /\ ~Active
  BY DEF Init, WorkerSound, ChainSound, StartSound, Active, Off, NoChain, ChainOff
<1> QED BY <1>1, <1>2, <1>3 DEF Invariant

LEMMA NextKeeps ==
    ASSUME Invariant, [Next]_vars
    PROVE  Invariant'
<1>1. CASE UNCHANGED vars
  BY <1>1 DEF Invariant, TypeOK, RowSound, WorkerSound, ChainSound, StartSound, Covered,
     QueuedIsCovered, DelayedIsCovered, RunningIsCovered, PassComes, ScanIsNear, Attended, RescanIsNear,
     ChainOff, Running, Active, Orphans, vars, timers
<1>2. CASE WorkerStep
  BY <1>2, PromoteKeeps, SelectKeeps, ClaimKeeps, StartKeeps, SucceedKeeps, FailKeeps,
     ReadDelayedKeeps, ArmWakeKeeps, EndPassKeeps DEF WorkerStep, Handler
<1> QED BY <1>1, <1>2, TickKeeps, EnqueueKeeps, DispatchKeeps, WorkerTimerFiresKeeps, WakeFiresKeeps,
           LeaseTimerFiresKeeps, ScanLeasesKeeps, ScanFailsKeeps, EndScanKeeps, OpenKeeps,
           ActivateKeeps, DownKeeps DEF Next

LEMMA SpecIsSound == Spec => []Invariant
<1> QED BY InitIsSound, NextKeeps, PTL DEF Spec

\* A quiet runtime has a timer armed for whatever it still has to do: for a waiting Job the
\* wake no later than a tick after it is due, for a row that an earlier process left running
\* the recovery no later than its lease ends, or the repeat of a failed scan.
THEOREM ForgetsNothing == Spec => []NothingIsForgotten
<1>1. ASSUME Invariant PROVE WaitingIsCovered
  BY <1>1 DEF Invariant, WaitingIsCovered, Quiescent, Running, Covered, QueuedIsCovered,
     DelayedIsCovered, PassComes, WorkerSound
<1>2. ASSUME Invariant PROVE OrphansAreCovered
  BY <1>2 DEF Invariant, OrphansAreCovered, Quiescent, Running, Orphans, Covered, RunningIsCovered,
     Attended, ScanIsNear, ChainOff, RescanIsNear
<1>3. Invariant => NothingIsForgotten
  BY <1>1, <1>2 DEF Invariant, NothingIsForgotten
<1> QED BY <1>3, SpecIsSound, PTL

\* A process that was shut down, deferred or not yet activated has no timer, whatever its
\* worker and its recovery still do, and does not get one before it is activated.
THEOREM ArmsNothingStopped == Spec => []StoppedArmsNothing
<1>1. Invariant => StoppedArmsNothing
  BY DEF Invariant, StartSound, StoppedArmsNothing
<1> QED BY <1>1, SpecIsSound, PTL

-----------------------------------------------------------------------------
(* Payload factories: slots and lanes                                      *)

\* A call that has its turn, until it has ended.
HasTurn(c) == stage[c] \in {"queued", "granted", "running", "failing"}
Evaluated(c) == stage[c] \in {"lane", "queued", "granted", "running", "failing"}

FactoriesTyped ==
    /\ stage \in [Calls -> {"new", "lane", "queued", "granted", "running", "failing", "ended"}]
    /\ aborted \subseteq Calls
    /\ lane \in [Schedules -> Calls \cup {NoCall}]
    /\ before \in [Calls -> Calls \cup {NoCall}]
    /\ stopped \in BOOLEAN /\ swept \in BOOLEAN

\* The slots taken are held by calls that will release them, and all are taken
\* while a call waits.
SlotsHeld(slots) ==
    /\ holding \subseteq Calls /\ IsFiniteSet(holding)
    /\ active = Cardinality(holding) /\ active <= slots
    /\ waiters # <<>> => active = slots
    /\ \A c \in Calls : stage[c] \in {"granted", "running"} => c \in holding
    /\ \A c \in holding : stage[c] \in {"granted", "running", "failing"}

\* The queue holds the queued calls, each once.
QueueExact ==
    /\ waiters \in Seq(Calls)
    /\ \A c \in Calls : stage[c] = "queued" <=> \E i \in 1..Len(waiters) : waiters[i] = c
    /\ \A i, j \in 1..Len(waiters) : waiters[i] = waiters[j] => i = j

\* The evaluations of a Schedule stand in a line: each awaits the one before it, only the
\* first has its turn, and the lane knows the last.
Line(s, line) ==
    /\ line \in Seq(Calls)
    /\ \A c \in Calls : (ScheduleOf[c] = s /\ Evaluated(c)) <=> \E i \in 1..Len(line) : line[i] = c
    /\ \A i, j \in 1..Len(line) : line[i] = line[j] => i = j
    /\ line # <<>> => before[line[1]] = NoCall \/ before[line[1]] \in unlocked
    /\ \A i \in 2..Len(line) : before[line[i]] = line[i - 1]
    /\ lane[s] = IF line = <<>> THEN NoCall ELSE line[Len(line)]
    /\ \A c \in Calls : ScheduleOf[c] = s /\ HasTurn(c) => line # <<>> /\ c = line[1]

LanesKept ==
    /\ unlocked = {c \in Calls : stage[c] = "ended"}
    /\ \A s \in Schedules : \E line \in Seq(Calls) : Line(s, line)

FactoriesInvariant(slots) == FactoriesTyped /\ SlotsHeld(slots) /\ QueueExact /\ LanesKept


\* A call of the line whose turn has come is the first.
LEMMA FirstIsFree ==
    ASSUME FactoriesAssumption, FactoriesTyped, LanesKept, NEW s \in Schedules, NEW line \in Seq(Calls), Line(s, line),
           NEW c \in Calls, ScheduleOf[c] = s, Evaluated(c), before[c] = NoCall \/ before[c] \in unlocked
    PROVE  line # <<>> /\ c = line[1]
<1>1. PICK i \in 1..Len(line) : line[i] = c
  BY DEF Line
<1>2. ASSUME i # 1 PROVE FALSE
  <2>1. i \in 2..Len(line) /\ i - 1 \in 1..Len(line)
    BY <1>2
  <2>2. before[c] = line[i - 1] /\ line[i - 1] \in Calls
    BY <1>1, <2>1 DEF Line
  <2>3. Evaluated(line[i - 1])
    BY <2>1, <2>2 DEF Line
  <2>4. line[i - 1] # NoCall
    BY <2>2 DEF FactoriesAssumption, Factories!PayloadFactoriesAssumption
  <2> QED BY <2>2, <2>3, <2>4 DEF LanesKept, Evaluated
<1> QED BY <1>1, <1>2

\* The lines stay as they are when no call enters or leaves one, and only a call whose
\* turn has come takes it.
LEMMA SameLines ==
    ASSUME FactoriesAssumption, FactoriesTyped, LanesKept, UNCHANGED <<lane, before, unlocked>>,
           \A c \in Calls : Evaluated(c)' <=> Evaluated(c),
           \A c \in Calls : stage'[c] = "ended" <=> stage[c] = "ended",
           \A c \in Calls : HasTurn(c)' => HasTurn(c) \/ before[c] = NoCall \/ before[c] \in unlocked
    PROVE  LanesKept'
<1>1. ASSUME NEW s \in Schedules PROVE \E line \in Seq(Calls) : Line(s, line)'
  <2>1. PICK line \in Seq(Calls) : Line(s, line)
    BY DEF LanesKept
  <2>2. \A c \in Calls : ScheduleOf[c] = s /\ HasTurn(c)' => line # <<>> /\ c = line[1]
    <3> SUFFICES ASSUME NEW c \in Calls, ScheduleOf[c] = s, HasTurn(c)' PROVE line # <<>> /\ c = line[1]
      OBVIOUS
    <3>1. Evaluated(c)
      BY DEF HasTurn, Evaluated
    <3>2. CASE HasTurn(c)
      BY <2>1, <3>2 DEF Line
    <3> QED BY <2>1, <3>1, <3>2, FirstIsFree
  <2>3. Line(s, line)'
    BY <2>1, <2>2 DEF Line
  <2> QED BY <2>3
<1> QED BY <1>1 DEF LanesKept

LEMMA CallKeepsLanes ==
    ASSUME FactoriesAssumption, FactoriesTyped, LanesKept, NEW slots, NEW c \in Calls, Factories(slots)!Call(c)
    PROVE  LanesKept'
<1> DEFINE s == ScheduleOf[c]
<1>1. s \in Schedules /\ c # NoCall
  BY DEF FactoriesAssumption, Factories!PayloadFactoriesAssumption
<1>2. /\ stage[c] = "new" /\ stage' = [stage EXCEPT ![c] = "lane"]
      /\ before' = [before EXCEPT ![c] = lane[s]] /\ lane' = [lane EXCEPT ![s] = c]
      /\ unlocked' = unlocked
  BY DEF Factories!Call, Factories!At
<1>3. before'[c] = lane[s] /\ \A d \in Calls : d # c => before'[d] = before[d]
  BY <1>2 DEF FactoriesTyped
<1>4. stage'[c] = "lane" /\ \A d \in Calls : d # c => stage'[d] = stage[d]
  BY <1>2 DEF FactoriesTyped
<1>5. lane'[s] = c /\ \A r \in Schedules : r # s => lane'[r] = lane[r]
  BY <1>1, <1>2 DEF FactoriesTyped
<1> HIDE DEF s
<1>6. unlocked' = {d \in Calls : stage'[d] = "ended"}
  BY <1>2, <1>4 DEF LanesKept
<1>7. ASSUME NEW r \in Schedules, NEW line \in Seq(Calls), Line(r, line)
      PROVE  \A i \in 1..Len(line) : line[i] \in Calls /\ line[i] # c /\ Evaluated(line[i])
  BY <1>2, <1>7 DEF Line, Evaluated
<1>8. ASSUME NEW r \in Schedules, r # s PROVE \E line \in Seq(Calls) : Line(r, line)'
  <2>1. PICK line \in Seq(Calls) : Line(r, line)
    BY DEF LanesKept
  <2>2. \A i \in 1..Len(line) : before'[line[i]] = before[line[i]]
    BY <1>3, <1>7, <2>1
  <2>3. \A d \in Calls : ScheduleOf[d] = r => d # c /\ stage'[d] = stage[d]
    BY <1>4, <1>8 DEF s
  <2>4. (line # <<>> => before'[line[1]] = NoCall \/ before'[line[1]] \in unlocked')
    BY <1>2, <2>1, <2>2 DEF Line
  <2>5. \A i \in 2..Len(line) : before'[line[i]] = line[i - 1]
    BY <2>1, <2>2 DEF Line
  <2>6. Line(r, line)'
    BY <1>5, <1>8, <2>1, <2>3, <2>4, <2>5 DEF Line, Evaluated, HasTurn
  <2> QED BY <2>6
<1>9. \E line \in Seq(Calls) : Line(s, line)'
  <2>1. PICK line \in Seq(Calls) : Line(s, line)
    BY <1>1 DEF LanesKept
  <2> DEFINE longer == Append(line, c)
  <2>2. /\ longer \in Seq(Calls) /\ Len(longer) = Len(line) + 1
        /\ longer[Len(line) + 1] = c /\ \A i \in 1..Len(line) : longer[i] = line[i]
    OBVIOUS
  <2>3. longer # <<>> /\ Len(line) \in Nat /\ (line = <<>> <=> Len(line) = 0)
    BY <2>2
  <2> HIDE DEF longer
  <2>4. \A d \in Calls : (ScheduleOf[d] = s /\ Evaluated(d)') <=> \E i \in 1..Len(longer) : longer[i] = d
    <3> SUFFICES ASSUME NEW d \in Calls
                 PROVE (ScheduleOf[d] = s /\ Evaluated(d)') <=> \E i \in 1..Len(longer) : longer[i] = d
      OBVIOUS
    <3>1. CASE d = c
      BY <1>4, <2>2, <2>3, <3>1 DEF s, Evaluated
    <3>2. CASE d # c
      <4>1. (ScheduleOf[d] = s /\ Evaluated(d)') <=> \E i \in 1..Len(line) : line[i] = d
        BY <1>4, <2>1, <3>2 DEF Line, Evaluated
      <4>2. (\E i \in 1..Len(line) : line[i] = d) <=> \E i \in 1..Len(longer) : longer[i] = d
        BY <2>2, <2>3, <3>2
      <4> QED BY <4>1, <4>2
    <3> QED BY <3>1, <3>2
  <2>5. \A i, j \in 1..Len(longer) : longer[i] = longer[j] => i = j
    <3> SUFFICES ASSUME NEW i \in 1..Len(longer), NEW j \in 1..Len(longer), longer[i] = longer[j]
                 PROVE i = j
      OBVIOUS
    <3>1. CASE i \in 1..Len(line) /\ j \in 1..Len(line)
      BY <2>1, <2>2, <3>1 DEF Line
    <3>2. CASE i = Len(line) + 1 \/ j = Len(line) + 1
      BY <1>1, <1>7, <2>1, <2>2, <2>3, <3>2
    <3> QED BY <2>2, <2>3, <3>1, <3>2
  <2>6. before'[longer[1]] = NoCall \/ before'[longer[1]] \in unlocked'
    <3>1. CASE line = <<>>
      BY <1>3, <2>1, <2>2, <2>3, <3>1 DEF Line
    <3>2. CASE line # <<>>
      <4>1. 1 \in 1..Len(line)
        BY <2>3, <3>2
      <4>2. line[1] \in Calls /\ line[1] # c /\ longer[1] = line[1]
        BY <1>1, <1>7, <2>1, <2>2, <4>1
      <4>3. before[line[1]] = NoCall \/ before[line[1]] \in unlocked
        BY <2>1, <3>2 DEF Line
      <4> QED BY <1>2, <1>3, <4>2, <4>3
    <3> QED BY <3>1, <3>2
  <2>7. \A i \in 2..Len(longer) : before'[longer[i]] = longer[i - 1]
    <3> SUFFICES ASSUME NEW i \in 2..Len(longer) PROVE before'[longer[i]] = longer[i - 1]
      OBVIOUS
    <3>1. CASE i \in 2..Len(line)
      <4>1. i \in 1..Len(line) /\ i - 1 \in 1..Len(line)
        BY <3>1, <2>3
      <4>2. line[i] \in Calls /\ line[i] # c /\ longer[i] = line[i] /\ longer[i - 1] = line[i - 1]
        BY <1>1, <1>7, <2>1, <2>2, <4>1
      <4>3. before[line[i]] = line[i - 1]
        BY <2>1, <3>1 DEF Line
      <4> QED BY <1>3, <4>2, <4>3
    <3>2. CASE i = Len(line) + 1
      <4>1. line # <<>> /\ i - 1 = Len(line) /\ Len(line) \in 1..Len(line)
        BY <2>2, <2>3, <3>2
      <4>2. before'[longer[i]] = lane[s]
        BY <1>3, <2>2, <3>2
      <4> QED BY <2>1, <2>2, <4>1, <4>2 DEF Line
    <3> QED BY <2>2, <2>3, <3>1, <3>2
  <2>8. ASSUME NEW d \in Calls, ScheduleOf[d] = s, HasTurn(d)' PROVE d = longer[1]
    <3>1. d # c /\ HasTurn(d)
      BY <1>4, <2>8 DEF HasTurn
    <3>2. line # <<>> /\ d = line[1] /\ 1 \in 1..Len(line)
      BY <2>1, <2>3, <2>8, <3>1 DEF Line
    <3> QED BY <2>2, <3>2
  <2>9. Line(s, longer)'
    BY <1>5, <2>2, <2>3, <2>4, <2>5, <2>6, <2>7, <2>8 DEF Line
  <2> QED BY <2>2, <2>9
<1> QED BY <1>6, <1>8, <1>9 DEF LanesKept

\* What a call leaves behind: it has ended, and the first in the queue may have its slot.
LEMMA ReleaseMoves ==
    ASSUME FactoriesTyped, QueueExact, NEW slots, NEW c \in Calls, stage[c] # "queued", Factories(slots)!Release(c, stage')
    PROVE  /\ stage'[c] = "ended"
           /\ \A d \in Calls : d # c => \/ stage'[d] = stage[d]
                                        \/ stage[d] = "queued" /\ stage'[d] = "granted"
<1>1. CASE c \in holding /\ waiters # <<>>
  <2>1. Head(waiters) \in Calls /\ Head(waiters) = waiters[1] /\ 1 \in 1..Len(waiters)
    BY <1>1 DEF QueueExact
  <2>2. stage[Head(waiters)] = "queued"
    BY <2>1 DEF QueueExact
  <2>3. stage' = [stage EXCEPT ![c] = "ended", ![Head(waiters)] = "granted"]
    BY <1>1 DEF Factories!Release
  <2> QED BY <2>1, <2>2, <2>3 DEF FactoriesTyped
<1>2. CASE ~(c \in holding /\ waiters # <<>>)
  BY <1>2 DEF FactoriesTyped, Factories!Release
<1> QED BY <1>1, <1>2

LEMMA ReleaseKeepsLanes ==
    ASSUME FactoriesAssumption, FactoriesTyped, QueueExact, LanesKept, NEW slots, NEW c \in Calls,
           stage[c] \in {"running", "failing"}, Factories(slots)!Release(c, stage')
    PROVE  LanesKept'
<1> DEFINE s == ScheduleOf[c]
<1>1. s \in Schedules /\ c # NoCall
  BY DEF FactoriesAssumption, Factories!PayloadFactoriesAssumption
<1>2. /\ unlocked' = unlocked \cup {c} /\ before' = before
      /\ lane' = IF lane[s] = c THEN [lane EXCEPT ![s] = NoCall] ELSE lane
  BY DEF Factories!Release
<1>3. /\ stage'[c] = "ended"
      /\ \A d \in Calls : d # c => \/ stage'[d] = stage[d]
                                   \/ stage[d] = "queued" /\ stage'[d] = "granted"
  BY ReleaseMoves
<1>4. \A d \in Calls : d # c => (Evaluated(d)' <=> Evaluated(d)) /\ (HasTurn(d)' <=> HasTurn(d))
  BY <1>3 DEF Evaluated, HasTurn
<1>5. ~Evaluated(c)' /\ ~HasTurn(c)' /\ Evaluated(c) /\ HasTurn(c)
  BY <1>3 DEF Evaluated, HasTurn
<1>6. lane'[s] = (IF lane[s] = c THEN NoCall ELSE lane[s]) /\ \A r \in Schedules : r # s => lane'[r] = lane[r]
  BY <1>1, <1>2 DEF FactoriesTyped
<1>7. unlocked' = {d \in Calls : stage'[d] = "ended"}
  BY <1>2, <1>3 DEF LanesKept
<1> HIDE DEF s
<1>8. ASSUME NEW r \in Schedules, r # s PROVE \E line \in Seq(Calls) : Line(r, line)'
  <2>1. PICK line \in Seq(Calls) : Line(r, line)
    BY DEF LanesKept
  <2>2. \A d \in Calls : ScheduleOf[d] = r => d # c
    BY <1>8 DEF s
  <2>3. Line(r, line)'
    BY <1>2, <1>4, <1>6, <1>8, <2>1, <2>2 DEF Line
  <2> QED BY <2>3
<1>9. \E line \in Seq(Calls) : Line(s, line)'
  <2>1. PICK line \in Seq(Calls) : Line(s, line)
    BY <1>1 DEF LanesKept
  <2>2. line # <<>> /\ c = line[1] /\ Len(line) \in Nat \ {0}
    BY <1>5, <2>1 DEF Line, s
  <2> DEFINE rest == Tail(line)
  <2>3. /\ rest \in Seq(Calls) /\ Len(rest) = Len(line) - 1
        /\ \A i \in 1..Len(rest) : rest[i] = line[i + 1] /\ i + 1 \in 2..Len(line)
    BY <2>2
  <2>4. rest = <<>> <=> Len(line) = 1
    <3>1. \A q \in Seq(Calls) : q = <<>> <=> Len(q) = 0
      OBVIOUS
    <3>2. rest \in Seq(Calls)
      BY <2>3
    <3>3. rest = <<>> <=> Len(rest) = 0
      BY <3>1, <3>2
    <3>4. \A n \in Nat \ {0} : n - 1 = 0 <=> n = 1
      OBVIOUS
    <3> QED BY <2>2, <2>3, <3>3, <3>4
  <2> HIDE DEF rest
  <2>5. \A i \in 2..Len(line) : line[i] # c /\ i - 1 \in 1..Len(rest) /\ rest[i - 1] = line[i]
    BY <2>1, <2>2, <2>3 DEF Line
  <2>6. ASSUME NEW d \in Calls
        PROVE (ScheduleOf[d] = s /\ Evaluated(d)') <=> \E i \in 1..Len(rest) : rest[i] = d
    <3>1. CASE d = c
      BY <1>5, <2>3, <2>5, <3>1
    <3>2. CASE d # c
      <4>1. (ScheduleOf[d] = s /\ Evaluated(d)') <=> \E i \in 1..Len(line) : line[i] = d
        BY <1>4, <2>1, <3>2 DEF Line
      <4>2. ASSUME NEW i \in 1..Len(line), line[i] = d PROVE \E k \in 1..Len(rest) : rest[k] = d
        <5>1. i \in 2..Len(line)
          BY <2>2, <3>2, <4>2
        <5> QED BY <2>5, <4>2, <5>1
      <4>3. ASSUME NEW i \in 1..Len(rest), rest[i] = d PROVE \E k \in 1..Len(line) : line[k] = d
        BY <2>3, <4>3
      <4> QED BY <4>1, <4>2, <4>3
    <3> QED BY <3>1, <3>2
  <2>7. \A i, j \in 1..Len(rest) : rest[i] = rest[j] => i = j
    <3> SUFFICES ASSUME NEW i \in 1..Len(rest), NEW j \in 1..Len(rest), rest[i] = rest[j] PROVE i = j
      OBVIOUS
    <3>1. line[i + 1] = line[j + 1] /\ i + 1 \in 1..Len(line) /\ j + 1 \in 1..Len(line)
      <4>1. \A k \in 2..Len(line) : k \in 1..Len(line)
        OBVIOUS
      <4> QED BY <2>3, <4>1
    <3>2. i + 1 = j + 1
      BY <2>1, <3>1 DEF Line
    <3> QED BY <3>2
  <2>8. rest # <<>> => before'[rest[1]] = NoCall \/ before'[rest[1]] \in unlocked'
    <3> SUFFICES ASSUME rest # <<>> PROVE before'[rest[1]] \in unlocked'
      OBVIOUS
    <3>1. 1 \in 1..Len(rest) /\ 2 \in 2..Len(line)
      BY <2>2, <2>3, <2>4
    <3>2. rest[1] = line[2] /\ before[line[2]] = line[1]
      BY <2>1, <2>3, <3>1 DEF Line
    <3> QED BY <1>2, <2>2, <3>2
  <2>9. \A i \in 2..Len(rest) : before'[rest[i]] = rest[i - 1]
    <3> SUFFICES ASSUME NEW i \in 2..Len(rest) PROVE before[rest[i]] = rest[i - 1]
      BY <1>2
    <3>1. i \in 1..Len(rest) /\ i - 1 \in 1..Len(rest) /\ (i - 1) + 1 = i /\ (i + 1) - 1 = i
      BY <2>2, <2>3
    <3> QED BY <2>1, <2>3, <3>1 DEF Line
  <2>10. lane'[s] = IF rest = <<>> THEN NoCall ELSE rest[Len(rest)]
    <3>1. lane[s] = line[Len(line)]
      BY <2>1, <2>2 DEF Line
    <3>2. CASE Len(line) = 1
      BY <1>6, <2>2, <2>4, <3>1, <3>2
    <3>3. CASE Len(line) # 1
      <4>1. Len(line) \in 2..Len(line)
        <5>1. \A n \in Nat \ {0} : n # 1 => n \in 2..n
          OBVIOUS
        <5> QED BY <2>2, <3>3, <5>1
      <4>2. lane[s] # c /\ rest[Len(rest)] = line[Len(line)]
        BY <2>3, <2>5, <3>1, <4>1
      <4> QED BY <1>6, <2>4, <3>1, <3>3, <4>2
    <3> QED BY <3>2, <3>3
  <2>11. \A d \in Calls : ScheduleOf[d] = s => ~HasTurn(d)'
    BY <1>4, <1>5, <2>1, <2>2 DEF Line
  <2>12. Line(s, rest)'
    BY <2>3, <2>6, <2>7, <2>8, <2>9, <2>10, <2>11 DEF Line
  <2> QED BY <2>3, <2>12
<1> QED BY <1>7, <1>8, <1>9 DEF LanesKept

\* Slots stay held when neither the count nor the queue nor the holders change, and a call
\* only moves on.
LEMMA SameSlots ==
    ASSUME NEW slots, SlotsHeld(slots), QueueExact, UNCHANGED <<active, waiters, holding>>,
           \A c \in Calls : stage'[c] = "queued" <=> stage[c] = "queued",
           \A c \in Calls : stage'[c] \in {"granted", "running"} => stage[c] \in {"granted", "running"},
           \A c \in holding : stage'[c] \in {"granted", "running", "failing"}
    PROVE  SlotsHeld(slots)' /\ QueueExact'
<1>1. SlotsHeld(slots)'
  BY DEF SlotsHeld
<1>2. QueueExact'
  BY DEF QueueExact
<1> QED BY <1>1, <1>2

\* A call that takes one of the free slots.
LEMMA TakeSlotKeeps ==
    ASSUME FactoriesAssumption, NEW slots \in Nat \ {0}, FactoriesInvariant(slots),
           NEW c \in Calls, Factories(slots)!TakeSlot(c)
    PROVE  FactoriesInvariant(slots)'
<1>1. /\ stage[c] = "lane" /\ stage' = [stage EXCEPT ![c] = "granted"]
      /\ active < slots /\ waiters = <<>> /\ active' = active + 1 /\ holding' = holding \cup {c}
      /\ UNCHANGED <<aborted, lane, before, unlocked, waiters, stopped, swept>>
      /\ before[c] = NoCall \/ before[c] \in unlocked
  BY DEF Factories!TakeSlot, Factories!At, Factories!LaneIsFree, Factories!SlotIsFree
<1>2. stage'[c] = "granted" /\ \A d \in Calls : d # c => stage'[d] = stage[d]
  BY <1>1 DEF FactoriesInvariant, FactoriesTyped
<1>3. FactoriesTyped'
  BY <1>1 DEF FactoriesInvariant, FactoriesTyped
<1>4. c \notin holding
  BY <1>1 DEF FactoriesInvariant, SlotsHeld
<1>5. IsFiniteSet(holding') /\ Cardinality(holding') = Cardinality(holding) + 1
  <2>1. IsFiniteSet(holding)
    BY DEF FactoriesInvariant, SlotsHeld
  <2>2. /\ IsFiniteSet(holding \cup {c})
        /\ Cardinality(holding \cup {c}) = IF c \in holding THEN Cardinality(holding) ELSE Cardinality(holding) + 1
    BY <2>1, FS_AddElement
  <2> QED BY <1>1, <1>4, <2>2
<1>6. active \in Nat
  BY FS_CardinalityType DEF FactoriesInvariant, SlotsHeld
<1>7. SlotsHeld(slots)'
  BY <1>1, <1>2, <1>5, <1>6 DEF FactoriesInvariant, SlotsHeld
<1>8. QueueExact'
  BY <1>1, <1>2 DEF FactoriesInvariant, QueueExact
<1>9. LanesKept'
  <2>1. \A d \in Calls : Evaluated(d)' <=> Evaluated(d)
    BY <1>1, <1>2 DEF Evaluated
  <2>2. \A d \in Calls : stage'[d] = "ended" <=> stage[d] = "ended"
    BY <1>1, <1>2
  <2>3. \A d \in Calls : HasTurn(d)' => HasTurn(d) \/ before[d] = NoCall \/ before[d] \in unlocked
    BY <1>1, <1>2 DEF HasTurn
  <2> QED BY <1>1, <2>1, <2>2, <2>3, SameLines DEF FactoriesInvariant
<1> QED BY <1>3, <1>7, <1>8, <1>9 DEF FactoriesInvariant

\* A call that joins the queue, because no slot is free.
LEMMA QueueForSlotKeeps ==
    ASSUME FactoriesAssumption, NEW slots \in Nat \ {0}, FactoriesInvariant(slots),
           NEW c \in Calls, Factories(slots)!QueueForSlot(c)
    PROVE  FactoriesInvariant(slots)'
<1>1. /\ stage[c] = "lane" /\ stage' = [stage EXCEPT ![c] = "queued"]
      /\ ~(active < slots /\ waiters = <<>>) /\ waiters' = Append(waiters, c)
      /\ UNCHANGED <<aborted, lane, before, unlocked, active, holding, stopped, swept>>
      /\ before[c] = NoCall \/ before[c] \in unlocked
  BY DEF Factories!QueueForSlot, Factories!At, Factories!LaneIsFree, Factories!SlotIsFree
<1>2. stage'[c] = "queued" /\ \A d \in Calls : d # c => stage'[d] = stage[d]
  BY <1>1 DEF FactoriesInvariant, FactoriesTyped
<1>3. FactoriesTyped'
  BY <1>1 DEF FactoriesInvariant, FactoriesTyped
<1>4. active \in Nat
  BY FS_CardinalityType DEF FactoriesInvariant, SlotsHeld
<1>5. active = slots
  BY <1>1, <1>4 DEF FactoriesInvariant, SlotsHeld
<1>6. SlotsHeld(slots)'
  BY <1>1, <1>2, <1>5 DEF FactoriesInvariant, SlotsHeld
<1>7. QueueExact'
  <2>1. waiters \in Seq(Calls) /\ \A i \in 1..Len(waiters) : stage[waiters[i]] = "queued" /\ waiters[i] # c
    BY <1>1 DEF FactoriesInvariant, QueueExact
  <2>2. /\ waiters' \in Seq(Calls) /\ Len(waiters') = Len(waiters) + 1 /\ Len(waiters) \in Nat
        /\ waiters'[Len(waiters) + 1] = c /\ \A i \in 1..Len(waiters) : waiters'[i] = waiters[i]
    BY <1>1, <2>1
  <2>3. ASSUME NEW d \in Calls PROVE stage'[d] = "queued" <=> \E i \in 1..Len(waiters') : waiters'[i] = d
    <3>1. CASE d = c
      BY <1>2, <2>2, <3>1
    <3>2. CASE d # c
      <4>1. stage'[d] = "queued" <=> \E i \in 1..Len(waiters) : waiters[i] = d
        BY <1>2, <3>2 DEF FactoriesInvariant, QueueExact
      <4>2. (\E i \in 1..Len(waiters) : waiters[i] = d) <=> \E i \in 1..Len(waiters') : waiters'[i] = d
        BY <2>2, <3>2
      <4> QED BY <4>1, <4>2
    <3> QED BY <3>1, <3>2
  <2>4. ASSUME NEW i \in 1..Len(waiters'), NEW j \in 1..Len(waiters'), waiters'[i] = waiters'[j] PROVE i = j
    <3>1. CASE i \in 1..Len(waiters) /\ j \in 1..Len(waiters)
      BY <2>2, <2>4, <3>1 DEF FactoriesInvariant, QueueExact
    <3>2. CASE i = Len(waiters) + 1 \/ j = Len(waiters) + 1
      BY <2>1, <2>2, <2>4, <3>2
    <3> QED BY <2>2, <3>1, <3>2
  <2> QED BY <2>2, <2>3, <2>4 DEF QueueExact
<1>8. LanesKept'
  <2>1. \A d \in Calls : Evaluated(d)' <=> Evaluated(d)
    BY <1>1, <1>2 DEF Evaluated
  <2>2. \A d \in Calls : stage'[d] = "ended" <=> stage[d] = "ended"
    BY <1>1, <1>2
  <2>3. \A d \in Calls : HasTurn(d)' => HasTurn(d) \/ before[d] = NoCall \/ before[d] \in unlocked
    BY <1>1, <1>2 DEF HasTurn
  <2> QED BY <1>1, <2>1, <2>2, <2>3, SameLines DEF FactoriesInvariant
<1> QED BY <1>3, <1>6, <1>7, <1>8 DEF FactoriesInvariant

\* Whatever ends the call, its slot passes to the first of the queue or becomes free.
LEMMA ReleaseKeeps ==
    ASSUME FactoriesAssumption, NEW slots \in Nat \ {0}, FactoriesInvariant(slots),
           NEW c \in Calls, stage[c] \in {"running", "failing"}, Factories(slots)!Release(c, stage')
    PROVE  FactoriesInvariant(slots)'
<1> USE DEF FactoriesInvariant
<1>1. LanesKept'
  BY ReleaseKeepsLanes
<1>2. FactoriesTyped'
  <2>1. stage' \in [Calls -> {"new", "lane", "queued", "granted", "running", "failing", "ended"}]
    BY DEF FactoriesTyped, Factories!Release
  <2>2. lane' \in [Schedules -> Calls \cup {NoCall}]
    BY DEF FactoriesTyped, Factories!Release
  <2> QED BY <2>1, <2>2 DEF FactoriesTyped, Factories!Release
<1>3. IsFiniteSet(holding) /\ active \in Nat /\ active = Cardinality(holding)
  BY FS_CardinalityType DEF SlotsHeld
<1>4. /\ IsFiniteSet(holding \ {c})
      /\ Cardinality(holding \ {c}) = IF c \in holding THEN Cardinality(holding) - 1 ELSE Cardinality(holding)
  BY <1>3, FS_RemoveElement
<1>5. CASE c \in holding /\ waiters # <<>>
  <2> DEFINE h == Head(waiters)
  <2>1. h \in Calls /\ h = waiters[1] /\ waiters \in Seq(Calls) /\ Len(waiters) \in Nat \ {0}
    BY <1>5 DEF QueueExact
  <2>2. stage[h] = "queued" /\ h \notin holding /\ h # c
    BY <2>1 DEF QueueExact, SlotsHeld
  <2>3. /\ stage' = [stage EXCEPT ![c] = "ended", ![h] = "granted"]
        /\ waiters' = Tail(waiters) /\ active' = active /\ holding' = (holding \ {c}) \cup {h}
    BY <1>5 DEF Factories!Release
  <2> HIDE DEF h
  <2>4. stage'[c] = "ended" /\ stage'[h] = "granted" /\ \A d \in Calls : d # c /\ d # h => stage'[d] = stage[d]
    BY <2>1, <2>2, <2>3 DEF FactoriesTyped
  <2>5. IsFiniteSet(holding') /\ Cardinality(holding') = Cardinality(holding)
    <3>1. /\ IsFiniteSet((holding \ {c}) \cup {h})
          /\ Cardinality((holding \ {c}) \cup {h}) = IF h \in holding \ {c} THEN Cardinality(holding \ {c})
                                                      ELSE Cardinality(holding \ {c}) + 1
      BY <1>4, FS_AddElement
    <3> QED BY <1>3, <1>4, <1>5, <2>2, <2>3, <3>1
  <2>6. SlotsHeld(slots)'
    BY <1>3, <1>5, <2>1, <2>2, <2>3, <2>4, <2>5 DEF SlotsHeld
  <2>7. /\ waiters' \in Seq(Calls) /\ Len(waiters') = Len(waiters) - 1
        /\ \A i \in 1..Len(waiters') : waiters'[i] = waiters[i + 1] /\ i + 1 \in 2..Len(waiters)
    BY <2>1, <2>3
  <2>8. \A i \in 2..Len(waiters) : i \in 1..Len(waiters) /\ i - 1 \in 1..Len(waiters') /\ waiters'[i - 1] = waiters[i]
    <3> SUFFICES ASSUME NEW i \in 2..Len(waiters)
                 PROVE  i \in 1..Len(waiters) /\ i - 1 \in 1..Len(waiters') /\ waiters'[i - 1] = waiters[i]
      OBVIOUS
    <3>1. i \in 1..Len(waiters) /\ i - 1 \in 1..Len(waiters') /\ (i - 1) + 1 = i
      BY <2>1, <2>7
    <3> QED BY <2>7, <3>1
  <2>9. ASSUME NEW d \in Calls PROVE stage'[d] = "queued" <=> \E i \in 1..Len(waiters') : waiters'[i] = d
    <3>1. stage[d] = "queued" <=> \E i \in 1..Len(waiters) : waiters[i] = d
      BY DEF QueueExact
    <3>2. CASE d = h
      <4>1. \A i \in 1..Len(waiters) : waiters[i] = h => i = 1
        BY <2>1 DEF QueueExact
      <4> QED BY <2>4, <2>7, <2>8, <3>2, <4>1
    <3>3. CASE d = c
      BY <2>4, <2>7, <2>8, <3>1, <3>3
    <3>4. CASE d # h /\ d # c
      <4>1. stage'[d] = "queued" <=> \E i \in 1..Len(waiters) : waiters[i] = d
        BY <2>4, <3>1, <3>4
      <4>2. ASSUME NEW i \in 1..Len(waiters), waiters[i] = d PROVE \E k \in 1..Len(waiters') : waiters'[k] = d
        <5>1. i \in 2..Len(waiters)
          BY <2>1, <3>4, <4>2
        <5> QED BY <2>8, <4>2, <5>1
      <4>3. ASSUME NEW i \in 1..Len(waiters'), waiters'[i] = d PROVE \E k \in 1..Len(waiters) : waiters[k] = d
        BY <2>7, <2>8, <4>3
      <4> QED BY <4>1, <4>2, <4>3
    <3> QED BY <3>2, <3>3, <3>4
  <2>10. ASSUME NEW i \in 1..Len(waiters'), NEW j \in 1..Len(waiters'), waiters'[i] = waiters'[j] PROVE i = j
    <3>1. waiters[i + 1] = waiters[j + 1] /\ i + 1 \in 1..Len(waiters) /\ j + 1 \in 1..Len(waiters)
      BY <2>7, <2>8, <2>10
    <3>2. i + 1 = j + 1
      BY <3>1 DEF QueueExact
    <3> QED BY <3>2
  <2>11. QueueExact'
    BY <2>7, <2>9, <2>10 DEF QueueExact
  <2> QED BY <1>1, <1>2, <2>6, <2>11
<1>6. CASE ~(c \in holding /\ waiters # <<>>)
  <2>1. /\ stage' = [stage EXCEPT ![c] = "ended"] /\ waiters' = waiters /\ holding' = holding \ {c}
        /\ active' = IF c \in holding THEN active - 1 ELSE active
    BY <1>6 DEF Factories!Release
  <2>2. stage'[c] = "ended" /\ \A d \in Calls : d # c => stage'[d] = stage[d]
    BY <2>1 DEF FactoriesTyped
  <2>3. active' = Cardinality(holding') /\ IsFiniteSet(holding')
    BY <1>3, <1>4, <2>1
  <2>4. active' <= slots
    BY <1>3, <2>1 DEF SlotsHeld
  <2>5. waiters' # <<>> => active' = slots
    BY <1>6, <2>1 DEF SlotsHeld
  <2>6. SlotsHeld(slots)'
    BY <2>1, <2>2, <2>3, <2>4, <2>5 DEF SlotsHeld
  <2>7. QueueExact'
    BY <2>1, <2>2 DEF QueueExact
  <2> QED BY <1>1, <1>2, <2>6, <2>7
<1> QED BY <1>5, <1>6

\* A call that only moves on, without a slot or a place to give or to take.
LEMMA MovingOnKeeps ==
    ASSUME FactoriesAssumption, NEW slots \in Nat \ {0}, FactoriesInvariant(slots), FactoriesTyped',
           UNCHANGED <<lane, before, unlocked, active, waiters, holding>>, NEW c \in Calls,
           \A d \in Calls : d # c => stage'[d] = stage[d],
           \/ stage[c] = "lane" /\ stage'[c] = "failing" /\ (before[c] = NoCall \/ before[c] \in unlocked)
           \/ stage[c] \in {"granted", "running"} /\ stage'[c] \in {"running", "failing"}
    PROVE  FactoriesInvariant(slots)'
<1> USE DEF FactoriesInvariant
<1>1. SlotsHeld(slots)' /\ QueueExact'
  <2>1. \A d \in Calls : stage'[d] = "queued" <=> stage[d] = "queued"
    OBVIOUS
  <2>2. \A d \in Calls : stage'[d] \in {"granted", "running"} => stage[d] \in {"granted", "running"}
    OBVIOUS
  <2>3. \A d \in holding : stage'[d] \in {"granted", "running", "failing"}
    BY DEF SlotsHeld
  <2> QED BY <2>1, <2>2, <2>3, SameSlots
<1>2. LanesKept'
  <2>1. \A d \in Calls : Evaluated(d)' <=> Evaluated(d)
    BY DEF Evaluated
  <2>2. \A d \in Calls : stage'[d] = "ended" <=> stage[d] = "ended"
    OBVIOUS
  <2>3. \A d \in Calls : HasTurn(d)' => HasTurn(d) \/ before[d] = NoCall \/ before[d] \in unlocked
    BY DEF HasTurn
  <2> QED BY <2>1, <2>2, <2>3, SameLines
<1> QED BY <1>1, <1>2

LEMMA CallKeeps ==
    ASSUME FactoriesAssumption, NEW slots \in Nat \ {0}, FactoriesInvariant(slots),
           NEW c \in Calls, Factories(slots)!Call(c)
    PROVE  FactoriesInvariant(slots)'
<1> USE DEF FactoriesInvariant
<1>1. LanesKept'
  BY CallKeepsLanes
<1>2. /\ stage[c] = "new" /\ stage' = [stage EXCEPT ![c] = "lane"]
      /\ before' = [before EXCEPT ![c] = lane[ScheduleOf[c]]] /\ lane' = [lane EXCEPT ![ScheduleOf[c]] = c]
      /\ UNCHANGED <<aborted, active, waiters, holding, stopped, swept>>
  BY DEF Factories!Call, Factories!At
<1>3. ScheduleOf[c] \in Schedules
  BY DEF FactoriesAssumption, Factories!PayloadFactoriesAssumption
<1>4. FactoriesTyped'
  BY <1>2, <1>3 DEF FactoriesTyped
<1>5. SlotsHeld(slots)' /\ QueueExact'
  <2>1. stage'[c] = "lane" /\ \A d \in Calls : d # c => stage'[d] = stage[d]
    BY <1>2 DEF FactoriesTyped
  <2>2. \A d \in Calls : stage'[d] = "queued" <=> stage[d] = "queued"
    BY <1>2, <2>1
  <2>3. \A d \in Calls : stage'[d] \in {"granted", "running"} => stage[d] \in {"granted", "running"}
    BY <1>2, <2>1
  <2>4. \A d \in holding : stage'[d] \in {"granted", "running", "failing"}
    BY <1>2, <2>1 DEF SlotsHeld
  <2> QED BY <1>2, <2>2, <2>3, <2>4, SameSlots
<1> QED BY <1>1, <1>4, <1>5

\* The sweep of shutdown: the queue empties, and what ran or waited is to end.
LEMMA AbortFactoriesKeeps ==
    ASSUME FactoriesAssumption, NEW slots \in Nat \ {0}, FactoriesInvariant(slots), Factories(slots)!AbortFactories
    PROVE  FactoriesInvariant(slots)'
<1> USE DEF FactoriesInvariant
<1>1. /\ stage' = [c \in Calls |-> IF stage[c] \in {"queued", "running"} THEN "failing" ELSE stage[c]]
      /\ swept' = TRUE /\ waiters' = <<>> /\ UNCHANGED <<lane, before, unlocked, active, holding, stopped>>
      /\ aborted' = aborted \cup {c \in Calls : Factories(slots)!Registered(c)}
  BY DEF Factories!AbortFactories
<1>2. FactoriesTyped'
  BY <1>1 DEF FactoriesTyped
<1>3. SlotsHeld(slots)'
  <2>1. \A c \in Calls : stage'[c] \in {"granted", "running"} => stage[c] = "granted"
    BY <1>1
  <2>2. \A c \in holding : stage'[c] \in {"granted", "running", "failing"}
    BY <1>1 DEF SlotsHeld
  <2> QED BY <1>1, <2>1, <2>2 DEF SlotsHeld
<1>4. QueueExact'
  <2>1. waiters' \in Seq(Calls) /\ Len(waiters') = 0
    BY <1>1
  <2>2. \A c \in Calls : stage'[c] # "queued"
    BY <1>1
  <2> QED BY <2>1, <2>2 DEF QueueExact
<1>5. LanesKept'
  <2>1. \A d \in Calls : Evaluated(d)' <=> Evaluated(d)
    BY <1>1 DEF Evaluated
  <2>2. \A d \in Calls : stage'[d] = "ended" <=> stage[d] = "ended"
    BY <1>1
  <2>3. \A d \in Calls : HasTurn(d)' => HasTurn(d) \/ before[d] = NoCall \/ before[d] \in unlocked
    BY <1>1 DEF HasTurn
  <2> QED BY <1>1, <2>1, <2>2, <2>3, SameLines
<1> QED BY <1>2, <1>3, <1>4, <1>5

LEMMA FactoriesNextKeeps ==
    ASSUME FactoriesAssumption, NEW slots \in Nat \ {0}, FactoriesInvariant(slots), Factories(slots)!Next
    PROVE  FactoriesInvariant(slots)'
<1>1. CASE Factories(slots)!Stop
  <2>1. UNCHANGED <<stage, aborted, lane, before, unlocked, active, waiters, holding, swept>> /\ stopped' = TRUE
    BY <1>1 DEF Factories!Stop
  <2> QED BY <2>1 DEF FactoriesInvariant, FactoriesTyped, SlotsHeld, QueueExact, LanesKept, Line, Evaluated, HasTurn
<1>2. CASE Factories(slots)!AbortFactories
  BY <1>2, AbortFactoriesKeeps
<1>3. ASSUME NEW c \in Calls, Factories(slots)!RefuseInLane(c) PROVE FactoriesInvariant(slots)'
  <2>1. /\ stage[c] = "lane" /\ stage' = [stage EXCEPT ![c] = "failing"] /\ (before[c] = NoCall \/ before[c] \in unlocked)
        /\ UNCHANGED <<aborted, lane, before, unlocked, active, waiters, holding, stopped, swept>>
    BY <1>3 DEF Factories!RefuseInLane, Factories!At, Factories!LaneIsFree
  <2>2. FactoriesTyped' /\ stage'[c] = "failing" /\ \A d \in Calls : d # c => stage'[d] = stage[d]
    BY <2>1 DEF FactoriesInvariant, FactoriesTyped
  <2> QED BY <2>1, <2>2, MovingOnKeeps
<1>4. ASSUME NEW c \in Calls, Factories(slots)!Start(c) PROVE FactoriesInvariant(slots)'
  <2>1. /\ stage[c] = "granted"
        /\ \E to \in {"failing", "running"} : stage' = [stage EXCEPT ![c] = to]
        /\ UNCHANGED <<aborted, lane, before, unlocked, active, waiters, holding, stopped, swept>>
    BY <1>4 DEF Factories!Start
  <2>2. /\ FactoriesTyped' /\ stage'[c] \in {"failing", "running"}
        /\ \A d \in Calls : d # c => stage'[d] = stage[d]
    BY <2>1 DEF FactoriesInvariant, FactoriesTyped
  <2> QED BY <2>1, <2>2, MovingOnKeeps
<1>5. ASSUME NEW c \in Calls, Factories(slots)!FactoryFails(c) \/ Factories(slots)!Timeout(c)
      PROVE  FactoriesInvariant(slots)'
  <2>1. /\ stage[c] = "running" /\ stage' = [stage EXCEPT ![c] = "failing"] /\ aborted' \subseteq aborted \cup {c}
        /\ UNCHANGED <<lane, before, unlocked, active, waiters, holding, stopped, swept>>
    BY <1>5 DEF Factories!FactoryFails, Factories!Timeout, Factories!At
  <2>2. FactoriesTyped' /\ stage'[c] = "failing" /\ \A d \in Calls : d # c => stage'[d] = stage[d]
    BY <2>1 DEF FactoriesInvariant, FactoriesTyped
  <2> QED BY <2>1, <2>2, MovingOnKeeps
<1>6. ASSUME NEW c \in Calls, Factories(slots)!FailureLogged(c) \/ Factories(slots)!FactoryReturns(c)
      PROVE  FactoriesInvariant(slots)'
  <2>1. stage[c] \in {"running", "failing"} /\ Factories(slots)!Release(c, stage')
    BY <1>6 DEF Factories!FailureLogged, Factories!FactoryReturns
  <2> QED BY <2>1, ReleaseKeeps
<1> QED BY <1>1, <1>2, <1>3, <1>4, <1>5, <1>6, CallKeeps, TakeSlotKeeps, QueueForSlotKeeps
        DEF Factories!Next, Factories!Advance

LEMMA FactoriesStart ==
    ASSUME FactoriesAssumption, Factories(Slots)!Init, NEW slots \in Nat \ {0}
    PROVE  FactoriesInvariant(slots)
<1>1. /\ stage = [c \in Calls |-> "new"] /\ aborted = {} /\ unlocked = {} /\ holding = {}
      /\ lane = [s \in Schedules |-> NoCall] /\ before = [c \in Calls |-> NoCall]
      /\ active = 0 /\ waiters = <<>> /\ stopped = FALSE /\ swept = FALSE
  BY DEF Factories!Init
<1>2. FactoriesTyped
  BY <1>1 DEF FactoriesTyped
<1>3. SlotsHeld(slots)
  BY <1>1, FS_EmptySet DEF SlotsHeld
<1>4. QueueExact
  BY <1>1 DEF QueueExact
<1>5. LanesKept
  <2>1. ASSUME NEW s \in Schedules PROVE Line(s, <<>>)
    <3>1. <<>> \in Seq(Calls) /\ Len(<<>>) = 0
      OBVIOUS
    <3> QED BY <1>1, <3>1 DEF Line, Evaluated, HasTurn
  <2>2. unlocked = {c \in Calls : stage[c] = "ended"}
    BY <1>1
  <2>3. <<>> \in Seq(Calls)
    OBVIOUS
  <2> QED BY <2>1, <2>2, <2>3 DEF LanesKept
<1> QED BY <1>2, <1>3, <1>4, <1>5 DEF FactoriesInvariant

LEMMA FactoriesAtRest ==
    ASSUME NEW slots, FactoriesInvariant(slots), UNCHANGED factoryVars
    PROVE  FactoriesInvariant(slots)'
<1>1. FactoriesTyped' /\ SlotsHeld(slots)' /\ QueueExact'
  BY DEF FactoriesInvariant, factoryVars, FactoriesTyped, SlotsHeld, QueueExact
<1>2. LanesKept'
  <2>1. unlocked' = {c \in Calls : stage'[c] = "ended"}
    BY DEF FactoriesInvariant, factoryVars, LanesKept
  <2>2. ASSUME NEW s \in Schedules PROVE \E line \in Seq(Calls) : Line(s, line)'
    <3>1. PICK line \in Seq(Calls) : Line(s, line)
      BY DEF FactoriesInvariant, LanesKept
    <3>2. Line(s, line)'
      BY <3>1 DEF factoryVars, Line, Evaluated, HasTurn
    <3> QED BY <3>2
  <2> QED BY <2>1, <2>2 DEF LanesKept
<1> QED BY <1>1, <1>2 DEF FactoriesInvariant

\* The invariant says what the run asks of either instance.
LEMMA FactoriesAreInTurn ==
    ASSUME FactoriesAssumption, NEW slots \in Nat \ {0}, FactoriesInvariant(slots)
    PROVE  Factories(slots)!TypeOK /\ Factories(slots)!FactoriesTakeTurns
<1> USE DEF FactoriesInvariant
<1>1. Factories(slots)!Cardinality(holding) = Cardinality(holding)
  BY DEF Factories!Cardinality, Cardinality
<1>2. active \in 0..slots
  BY FS_CardinalityType DEF SlotsHeld
<1>3. Factories(slots)!TypeOK
  BY <1>2 DEF FactoriesTyped, SlotsHeld, QueueExact, LanesKept, Factories!TypeOK, Factories!Stages
<1>4. Factories(slots)!SlotsAreConserved /\ Factories(slots)!NoIdleSlot
  BY <1>1 DEF SlotsHeld, Factories!SlotsAreConserved, Factories!NoIdleSlot
<1>5. Factories(slots)!WaitersAreQueued
  BY DEF QueueExact, Factories!WaitersAreQueued
<1>6. Factories(slots)!OneAtATimeInOrder
  <2> SUFFICES ASSUME NEW c \in Calls, NEW d \in Calls, c # d, ScheduleOf[c] = ScheduleOf[d],
                      stage[c] \in {"queued", "granted", "running"}
               PROVE  stage[d] \notin {"queued", "granted", "running"} /\ (before[c] = d => stage[d] = "ended")
    BY DEF Factories!OneAtATimeInOrder, Factories!InLane
  <2>1. ScheduleOf[c] \in Schedules /\ d # NoCall
    BY DEF FactoriesAssumption, Factories!PayloadFactoriesAssumption
  <2>2. PICK line \in Seq(Calls) : Line(ScheduleOf[c], line)
    BY <2>1 DEF LanesKept
  <2>3. line # <<>> /\ c = line[1] /\ (before[c] = NoCall \/ before[c] \in unlocked)
    BY <2>2 DEF Line, HasTurn
  <2>4. ~HasTurn(d)
    BY <2>2, <2>3 DEF Line
  <2> QED BY <2>1, <2>3, <2>4 DEF HasTurn, LanesKept
<1> QED BY <1>3, <1>4, <1>5, <1>6 DEF Factories!FactoriesTakeTurns

\* With any number of slots, the payload factories of any set of calls take turns: no slot
\* is lost, invented or idle while a call waits for one, the queue holds the calls that can
\* still be granted one, and a Schedule's factory runs for one occurrence at a time, in order,
\* whatever is refused, fails, times out or is aborted by shutdown.
THEOREM FactoriesServeInTurn == MCSpec => []FactoriesTakeTurns
<1> USE FactoriesAssumption
<1> DEFINE Inv == /\ part = "all slots" => FactoriesInvariant(Slots)
                  /\ part = "one slot" => FactoriesInvariant(1)
<1>1. Slots \in Nat \ {0} /\ 1 \in Nat \ {0}
  BY DEF FactoriesAssumption, Factories!PayloadFactoriesAssumption
<1>2. MCInit => Inv
  BY <1>1, FactoriesStart DEF MCInit
<1>3. ASSUME Inv, [MCNext]_allVars PROVE Inv'
  <2>1. CASE part = "all slots" /\ Factories(Slots)!Next /\ UNCHANGED <<part, vars>>
    BY <1>1, <1>3, <2>1, FactoriesNextKeeps
  <2>2. CASE part = "one slot" /\ Factories(1)!Next /\ UNCHANGED <<part, vars>>
    BY <1>1, <1>3, <2>2, FactoriesNextKeeps
  <2>3. CASE UNCHANGED <<part, factoryVars>>
    BY <1>3, <2>3, FactoriesAtRest
  <2>4. CASE UNCHANGED allVars
    BY <2>3, <2>4 DEF allVars
  <2> QED BY <1>3, <2>1, <2>2, <2>3, <2>4 DEF MCNext
<1>4. Inv => FactoriesTakeTurns
  BY <1>1, FactoriesAreInTurn DEF FactoriesTakeTurns
<1> QED BY <1>2, <1>3, <1>4, PTL DEF MCSpec

=============================================================================
