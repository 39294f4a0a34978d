------------------------------ MODULE JobTimers ------------------------------
(***************************************************************************)
(* What makes the Job queue move: the 0 ms worker timer and its rerun      *)
(* request, the wake timer of the earliest delayed Job, and the            *)
(* single-flight lease recovery chain with its own timer, in one process   *)
(* that stops, crashes and starts again over the same rows.                *)
(*                                                                         *)
(* JobQueue has the claims, cancellations and concurrent runtimes; here a  *)
(* row keeps what the timers depend on.  An instant is stored as the ticks *)
(* still to go, 0 once it has passed, so the clock itself has no bound.    *)
(***************************************************************************)
EXTENDS Integers, FiniteSets

CONSTANTS
    Jobs,           \* identities of job rows
    Waits,          \* bound: how far ahead a caller asks for availableAt
    MaxAttempts,    \* retry.maxAttempts
    RetryDelay,     \* retry.delayMs, in ticks
    LeaseTicks,     \* RUNTIME_CLAIM_LEASE_MS, in ticks
    ScanRetry,      \* the 1000 ms after a failed recovery scan, in ticks
    MaxNativeDelay, \* MAX_NATIVE_TIMER_DELAY_MS, in ticks
    MaxFaults       \* bound: crashes, shutdowns, deferrals and failed scans together

ASSUME TimerAssumption ==
    /\ Waits \subseteq Nat
    /\ MaxAttempts \in Nat \ {0}
    /\ RetryDelay \in Nat
    /\ LeaseTicks \in Nat \ {0}
    /\ ScanRetry \in Nat \ {0}
    /\ MaxNativeDelay \in Nat \ {0}
    /\ MaxFaults \in Nat

VARIABLES
    row,            \* [sporades_jobs]: status, ticks to availableAt and to lease expiry
    phase,          \* life cycle of the process; __jobStopped unless "active"
    undispatched,   \* Jobs committed whose scheduleCurrentUserJobWorker call is to come
    workerTimer,    \* __jobWorkerScheduled: the 0 ms timer is armed
    rerun,          \* __jobWorkerRerunRequested
    wk,             \* the worker loop
    wake,           \* __jobWakeTimer, in ticks to go
    leaseTimer,     \* __jobLeaseRecoveryTimer, in ticks to go
    leaseDue,       \* __jobLeaseRecoveryDueAt, in ticks to go
    chain,          \* the lease recovery chain and __jobLeaseRecoveryRequestedAt
    retained,       \* the earliest unexpired lease found while starting
    faults          \* how many faults there have been

timers == <<workerTimer, rerun, wake, leaseTimer, leaseDue>>
vars == <<row, phase, undispatched, timers, wk, chain, retained, faults>>

None == -1

Statuses == {"absent", "delayed", "queued", "running", "succeeded", "failed"}

Absent == [status |-> "absent", wait |-> 0, attempts |-> 0, lease |-> 0]

\* later: rows available only after the clock reading this turn of the loop works with;
\* target: ticks to the availableAt that scheduleNextDelayedJob has read.
Off == [pc |-> "off", job |-> "none", later |-> {}, target |-> None]

\* next: what the scan returned; requested: __jobLeaseRecoveryRequestedAt.
NoChain == [pc |-> "off", next |-> None, requested |-> None, wakeWorker |-> FALSE]

Init ==
    /\ row = [j \in Jobs |-> Absent]
    /\ phase = "down"
    /\ undispatched = {}
    /\ workerTimer = FALSE /\ rerun = FALSE
    /\ wk = Off
    /\ wake = None /\ leaseTimer = None /\ leaseDue = None
    /\ chain = NoChain
    /\ retained = None
    /\ faults = 0

-----------------------------------------------------------------------------
(* Time.                                                                   *)

Less(t) == IF t > 0 THEN t - 1 ELSE t

Tick ==
    /\ row' = [j \in Jobs |-> [row[j] EXCEPT !.wait = Less(@), !.lease = Less(@)]]
    /\ wk' = [wk EXCEPT !.target = Less(@),
                        !.later = IF wk.pc = "select"
                                  THEN @ \cup {j \in Jobs : row[j].status = "absent"} ELSE @]
    /\ wake' = Less(wake)
    /\ leaseTimer' = Less(leaseTimer)
    /\ leaseDue' = Less(leaseDue)
    /\ chain' = [chain EXCEPT !.next = Less(@), !.requested = Less(@)]
    /\ retained' = Less(retained)
    /\ UNCHANGED <<phase, undispatched, workerTimer, rerun, faults>>

Smaller(s, t) == IF s = None THEN t ELSE IF t = None \/ s <= t THEN s ELSE t

\* A timer never runs longer than the platform allows; its callback looks again.
Native(t) == IF t > MaxNativeDelay THEN MaxNativeDelay ELSE t

Active == phase = "active"
Running == wk.pc # "off"

\* Mutant: a dispatch that meets a running worker is dropped.
ScheduleWorkerNoRerun ==
    /\ workerTimer' = (workerTimer \/ (Active /\ ~Running))
    /\ UNCHANGED rerun

\* scheduleCurrentUserJobWorker.
ScheduleWorker ==
    /\ workerTimer' = (workerTimer \/ (Active /\ ~Running))
    /\ rerun' = (rerun \/ (Active /\ Running))

-----------------------------------------------------------------------------
(* Enqueue, and the dispatch that follows the commit.                      *)

Enqueue(j, w) ==
    /\ phase # "down"
    /\ row[j].status = "absent"
    /\ row' = [row EXCEPT ![j] = [Absent EXCEPT !.wait = w,
                                   !.status = IF w > 0 THEN "delayed" ELSE "queued"]]
    /\ undispatched' = undispatched \cup {j}
    /\ UNCHANGED <<phase, timers, wk, chain, retained, faults>>

\* deferOrScheduleJobDispatch outside a transaction, dispatchPendingJobs after one.
Dispatch(j) ==
    /\ j \in undispatched
    /\ undispatched' = undispatched \ {j}
    /\ ScheduleWorker
    /\ UNCHANGED <<row, phase, wk, wake, leaseTimer, leaseDue, chain, retained, faults>>

-----------------------------------------------------------------------------
(* The worker loop.                                                        *)

WorkerTimerFires ==
    /\ workerTimer
    /\ workerTimer' = FALSE
    /\ wk' = [Off EXCEPT !.pc = "head"]
    /\ UNCHANGED <<row, phase, undispatched, rerun, wake, leaseTimer, leaseDue, chain,
                   retained, faults>>

WakeFires ==
    /\ wake = 0
    /\ wake' = None
    /\ ScheduleWorker
    /\ UNCHANGED <<row, phase, undispatched, wk, leaseTimer, leaseDue, chain, retained, faults>>

\* The finally block: the pass is over, a request that came meanwhile starts another.
WorkerReturns ==
    /\ wk' = Off
    /\ rerun' = FALSE
    /\ workerTimer' = (workerTimer \/ (rerun /\ Active))

Continue(pc) == wk' = [wk EXCEPT !.pc = pc] /\ UNCHANGED <<workerTimer, rerun>>

Promote ==
    /\ wk.pc = "head"
    /\ \/ ~Active /\ WorkerReturns /\ UNCHANGED row
       \/ /\ Active
          /\ row' = [j \in Jobs |->
                      IF row[j].status = "delayed" /\ row[j].wait = 0
                      THEN [row[j] EXCEPT !.status = "queued"] ELSE row[j]]
          /\ wk' = [Off EXCEPT !.pc = "select", !.later = {j \in Jobs : row[j].wait > 0}]
          /\ UNCHANGED <<workerTimer, rerun>>
    /\ UNCHANGED <<phase, undispatched, wake, leaseTimer, leaseDue, chain, retained, faults>>

Runnable == {j \in Jobs \ wk.later : row[j].status = "queued"}

Select ==
    /\ wk.pc = "select"
    /\ \/ ~Active /\ WorkerReturns
       \/ /\ Active /\ Runnable = {}
          /\ wk' = [Off EXCEPT !.pc = "next"]
          /\ UNCHANGED <<workerTimer, rerun>>
       \/ /\ Active
          /\ \E j \in Runnable : wk' = [Off EXCEPT !.pc = "claim", !.job = j]
          /\ UNCHANGED <<workerTimer, rerun>>
    /\ UNCHANGED <<row, phase, undispatched, wake, leaseTimer, leaseDue, chain, retained, faults>>

Claim ==
    /\ wk.pc = "claim"
    /\ row' = [row EXCEPT ![wk.job].status = "running",
                          ![wk.job].attempts = @ + 1,
                          ![wk.job].lease = LeaseTicks]
    /\ Continue("claimed")
    /\ UNCHANGED <<phase, undispatched, wake, leaseTimer, leaseDue, chain, retained, faults>>

Owned == row[wk.job].status = "running"

\* Every stop check up to the handler boundary relinquishes the attempt.
Start ==
    /\ wk.pc = "claimed"
    /\ \/ /\ ~Active
          /\ row' = IF Owned THEN [row EXCEPT ![wk.job].status = "queued",
                                              ![wk.job].attempts = @ - 1] ELSE row
          /\ WorkerReturns
       \/ Active /\ Owned /\ Continue("handler") /\ UNCHANGED row
       \/ Active /\ ~Owned /\ Continue("head") /\ UNCHANGED row
    /\ UNCHANGED <<phase, undispatched, wake, leaseTimer, leaseDue, chain, retained, faults>>

\* Mutant: the wake is armed without looking whether the runtime has been stopped.
ScheduleWakeStopped(t) == wake' = Native(t)

\* scheduleJobWorkerWake replaces whatever wake was armed.
ScheduleWake(t) == wake' = IF Active THEN Native(t) ELSE wake

RetryLeft(j) == row[j].attempts < MaxAttempts

Succeed ==
    /\ wk.pc = "handler"
    /\ row' = IF Owned THEN [row EXCEPT ![wk.job].status = "succeeded"] ELSE row
    /\ Continue("head")
    /\ UNCHANGED <<phase, undispatched, wake, leaseTimer, leaseDue, chain, retained, faults>>

Fail ==
    /\ wk.pc = "handler"
    /\ LET j == wk.job
       IN /\ row' = IF ~Owned THEN row
                    ELSE IF RetryLeft(j) THEN [row EXCEPT ![j].status = "delayed",
                                                   ![j].wait = RetryDelay]
                    ELSE [row EXCEPT ![j].status = "failed"]
          /\ IF Owned /\ RetryLeft(j) THEN ScheduleWake(RetryDelay + 1) ELSE UNCHANGED wake
    /\ Continue("head")
    /\ UNCHANGED <<phase, undispatched, leaseTimer, leaseDue, chain, retained, faults>>

Delayed == {j \in Jobs : row[j].status = "delayed"}
Earliest(S) == {j \in S : \A k \in S : row[j].wait <= row[k].wait}

\* scheduleNextDelayedJob, read part.
ReadDelayed ==
    /\ wk.pc = "next"
    /\ \/ Delayed = {} /\ Continue("done")
       \/ /\ \E j \in Earliest(Delayed) : wk' = [wk EXCEPT !.pc = "arm", !.target = row[j].wait]
          /\ UNCHANGED <<workerTimer, rerun>>
    /\ UNCHANGED <<row, phase, undispatched, wake, leaseTimer, leaseDue, chain, retained, faults>>

ArmWake ==
    /\ wk.pc = "arm"
    /\ ScheduleWake(wk.target + 1)
    /\ Continue("done")
    /\ UNCHANGED <<row, phase, undispatched, leaseTimer, leaseDue, chain, retained, faults>>

EndPass ==
    /\ wk.pc = "done"
    /\ WorkerReturns
    /\ UNCHANGED <<row, phase, undispatched, wake, leaseTimer, leaseDue, chain, retained, faults>>

-----------------------------------------------------------------------------
(* Lease recovery.                                                         *)

Orphans == {j \in Jobs : row[j].status = "running"}
Expired == {j \in Orphans : row[j].lease = 0}

\* recoverExpiredJobLeases on the rows of D.
Recovered(D) ==
    [j \in Jobs |->
        IF j \notin D THEN row[j]
        ELSE IF RetryLeft(j)
        THEN [row[j] EXCEPT !.status = "delayed", !.wait = RetryDelay]
        ELSE [row[j] EXCEPT !.status = "failed"]]

\* The earliest lease still running, its result.
EarliestLease ==
    IF Orphans = Expired THEN None
    ELSE CHOOSE t \in {row[j].lease : j \in Orphans \ Expired} :
            \A j \in Orphans \ Expired : t <= row[j].lease

ChainOff == chain.pc = "off"

\* runJobLeaseRecoveryChain, entered from startJobLeaseRecovery.
StartChain ==
    chain' = IF ChainOff THEN [NoChain EXCEPT !.pc = "scan"]
             ELSE [chain EXCEPT !.requested = 0]

\* Mutant: the timer's callback forgets the lease it was armed for when it fires early.
LeaseTimerFiresOnlyDue ==
    /\ leaseTimer = 0
    /\ leaseTimer' = None
    /\ leaseDue' = None
    /\ IF leaseDue = 0 THEN StartChain ELSE UNCHANGED chain
    /\ UNCHANGED <<row, phase, undispatched, workerTimer, rerun, wk, wake, retained, faults>>

LeaseTimerFires ==
    /\ leaseTimer = 0
    /\ leaseTimer' = None
    /\ leaseDue' = None
    /\ StartChain
    /\ UNCHANGED <<row, phase, undispatched, workerTimer, rerun, wk, wake, retained, faults>>

ScanLeases ==
    /\ chain.pc = "scan"
    /\ row' = Recovered(Expired)
    /\ chain' = [chain EXCEPT !.pc = "install", !.next = EarliestLease, !.wakeWorker = TRUE]
    /\ UNCHANGED <<phase, undispatched, timers, wk, retained, faults>>

\* The scan rejects, maybe after some of its rows were recovered.
ScanFails ==
    /\ chain.pc = "scan"
    /\ faults < MaxFaults
    /\ \E D \in SUBSET Expired : row' = Recovered(D)
    /\ chain' = [chain EXCEPT !.pc = "install", !.next = ScanRetry]
    /\ faults' = faults + 1
    /\ UNCHANGED <<phase, undispatched, timers, wk, retained>>

\* scheduleJobLeaseRecoveryTimer of a process that is not stopped.
InstallLeaseTimer(t) == leaseDue' = t /\ leaseTimer' = Native(t)

\* What follows the scan: a request that is due scans again, otherwise the next wake is
\* installed and the recovered rows are handed to the worker.
EndScan ==
    /\ chain.pc = "install"
    /\ \/ ~Active /\ chain' = NoChain /\ UNCHANGED timers
       \/ /\ Active /\ chain.requested = 0
          /\ chain' = [chain EXCEPT !.pc = "scan", !.requested = None]
          /\ UNCHANGED timers
       \/ /\ Active /\ chain.requested # 0
          /\ InstallLeaseTimer(Smaller(chain.next, chain.requested))
          /\ IF chain.wakeWorker THEN ScheduleWorker ELSE UNCHANGED <<workerTimer, rerun>>
          /\ chain' = NoChain
          /\ UNCHANGED wake
    /\ UNCHANGED <<row, phase, undispatched, wk, retained, faults>>

\* scheduleJobLeaseRecoveryAt.
ScheduleLeaseRecovery(t) ==
    IF ~ChainOff
    THEN /\ chain' = [chain EXCEPT !.requested = Smaller(@, t)]
         /\ UNCHANGED <<leaseTimer, leaseDue>>
    ELSE /\ UNCHANGED chain
         /\ IF t # None /\ leaseTimer # None /\ leaseDue <= t
            THEN UNCHANGED <<leaseTimer, leaseDue>> ELSE InstallLeaseTimer(t)

-----------------------------------------------------------------------------
(* Life of the process.                                                    *)

\* openDevDatabase and init up to activation: expired leases are recovered, the
\* earliest unexpired one is remembered, no timer is armed.
Open ==
    /\ phase = "down"
    /\ phase' = "opened"
    /\ row' = Recovered(Expired)
    /\ retained' = EarliestLease
    /\ UNCHANGED <<undispatched, timers, wk, chain, faults>>

\* activateCurrentUserJobExecution: a fresh runtime passes the lease it retained, the
\* candidate of a replacement the present instant.  A deferred worker was awaited.
ActivateAt(t) ==
    /\ phase \in {"opened", "deferred"}
    /\ wk.pc = "off"
    /\ phase' = "active"
    /\ ScheduleLeaseRecovery(t)
    /\ workerTimer' = TRUE
    /\ retained' = None
    /\ UNCHANGED <<row, undispatched, rerun, wk, wake, faults>>

Activate == ActivateAt(0) \/ (phase = "opened" /\ ActivateAt(retained))

\* stopCurrentUserJobWorker.
StopWorker ==
    /\ workerTimer' = FALSE /\ rerun' = FALSE
    /\ wake' = None /\ leaseTimer' = None /\ leaseDue' = None
    /\ chain' = [chain EXCEPT !.requested = None]

\* Shutdown, or __deferJobExecution of a runtime that is to be activated again.
Stop(to) ==
    /\ phase = "active"
    /\ faults < MaxFaults
    /\ phase' = to
    /\ StopWorker
    /\ faults' = faults + 1
    /\ UNCHANGED <<row, undispatched, wk, retained>>

\* Teardown waits for the worker and the chain.
Close ==
    /\ phase = "stopped"
    /\ wk.pc = "off" /\ ChainOff
    /\ phase' = "down"
    /\ undispatched' = {}
    /\ UNCHANGED <<row, timers, wk, chain, retained, faults>>

\* The process dies: killed, or by the unhandled rejection of a worker whose statement
\* failed.  Nothing in memory survives.
Crash ==
    /\ phase # "down"
    /\ faults < MaxFaults
    /\ phase' = "down"
    /\ undispatched' = {}
    /\ workerTimer' = FALSE /\ rerun' = FALSE
    /\ wk' = Off
    /\ wake' = None /\ leaseTimer' = None /\ leaseDue' = None
    /\ chain' = NoChain
    /\ retained' = None
    /\ faults' = faults + 1
    /\ UNCHANGED row

-----------------------------------------------------------------------------
Handler == Succeed \/ Fail

WorkerStep ==
    Promote \/ Select \/ Claim \/ Start \/ Handler \/ ReadDelayed \/ ArmWake \/ EndPass

Next ==
    \/ Tick
    \/ \E j \in Jobs, w \in Waits : Enqueue(j, w)
    \/ \E j \in Jobs : Dispatch(j)
    \/ WorkerTimerFires \/ WakeFires \/ LeaseTimerFires
    \/ WorkerStep
    \/ ScanLeases \/ ScanFails \/ EndScan
    \/ Open \/ Activate \/ Stop("stopped") \/ Stop("deferred") \/ Close \/ Crash

Spec == Init /\ [][Next]_vars

-----------------------------------------------------------------------------
(* Properties.                                                             *)

Instants == Nat \cup {None}

Rows == [status : Statuses, wait : Nat, attempts : 0..MaxAttempts, lease : Nat]
Workers == [pc : {"off", "head", "select", "claim", "claimed", "handler", "next", "arm", "done"},
            job : Jobs \cup {"none"}, later : SUBSET Jobs, target : Instants]
Chains == [pc : {"off", "scan", "install"}, next : Instants, requested : Instants,
           wakeWorker : BOOLEAN]

\* Every variable has its type, attempts stay within the policy, and a worker past its
\* selection knows its Job.
TypeOK ==
    /\ row \in [Jobs -> Rows]
    /\ phase \in {"down", "opened", "active", "deferred", "stopped"}
    /\ undispatched \subseteq Jobs
    /\ workerTimer \in BOOLEAN /\ rerun \in BOOLEAN
    /\ wk \in Workers
    /\ wake \in Instants /\ leaseTimer \in Instants /\ leaseDue \in Instants
    /\ chain \in Chains
    /\ retained \in Instants
    /\ faults \in 0..MaxFaults
    /\ wk.pc \in {"claim", "claimed", "handler"} => wk.job \in Jobs

\* No code is on its way that would arm a timer.
Quiescent ==
    Active /\ ~Running /\ ~workerTimer /\ undispatched = {} /\ ChainOff

\* A scan is about to be repeated because the last one failed, or is due anyway.
RescanIsNear == leaseTimer # None /\ leaseDue <= ScanRetry

\* A quiet runtime forgets no waiting Job: the wake is armed, and comes no later than
\* one tick after the Job is due, whichever of the enqueues, retries, recoveries and
\* chunked wakes armed or replaced it last.  Only a Job recovered by a scan that then
\* failed has no wake of its own and waits for that scan to be repeated.
WaitingIsCovered ==
    Quiescent =>
        \A j \in Jobs : row[j].status \in {"queued", "delayed"}
            => (wake # None /\ wake <= row[j].wait + 1) \/ RescanIsNear

\* A quiet runtime forgets no running row left by an earlier process: the recovery
\* timer is armed no later than the row's lease ends, or retries a failed scan.
OrphansAreCovered ==
    Quiescent =>
        \A j \in Orphans : (leaseTimer # None /\ leaseDue <= row[j].lease) \/ RescanIsNear

\* What a quiet runtime still has to do, one of its timers will bring up.
NothingIsForgotten == TypeOK /\ WaitingIsCovered /\ OrphansAreCovered

\* A stopped runtime arms nothing, although its worker and its scan run on and reach
\* the statements that arm timers (jobs-and-schedules.md 180-200).
StoppedArmsNothing ==
    ~Active => ~workerTimer /\ wake = None /\ leaseTimer = None /\ ~rerun

\* Every Job that was committed ends, whatever the faults in between.
EveryJobSettles ==
    <>[](\A j \in Jobs : row[j].status \in {"absent", "succeeded", "failed"})
=============================================================================
