------------------------------ MODULE JobQueue ------------------------------
(***************************************************************************)
(* The durable Job queue of a Capsule: the rows of [sporades_jobs] and the *)
(* runtimes that claim, run, settle, cancel and recover them.  Several     *)
(* runtimes may share one store: replicas, an outgoing and a candidate     *)
(* Dev runtime, a process and the one restarted after its crash.           *)
(*                                                                         *)
(* One action is one database statement, or one stretch of JavaScript      *)
(* between two awaits.  WHEN a worker pass or a recovery scan starts is    *)
(* left open here (any time its runtime is active); the timers that decide *)
(* it are the subject of JobTimers.                                        *)
(***************************************************************************)
EXTENDS Integers, FiniteSets

CONSTANTS
    Jobs,           \* identities of job rows
    Legacy,         \* rows stored as running before claims existed
    StripeJobs,     \* rows whose handler may meet atomic Stripe fence contention
    Runtimes,       \* processes sharing the store
    MaxAttempts,    \* retry.maxAttempts of each job
    RetryDelay,     \* retry.delayMs of each job, in ticks
    ContentionDelay,\* the 25 ms of deferAtomicStripeFenceContention
    LeaseTicks,     \* RUNTIME_CLAIM_LEASE_MS in ticks
    Availabilities, \* bound: the instants a caller may ask for as availableAt
    MaxTime,        \* bound: last instant of the clock
    MaxClaims       \* bound: claim tokens that may be issued

ASSUME LegacyAssumption == Legacy \subseteq Jobs /\ StripeJobs \subseteq Jobs
ASSUME RetryAssumption ==
    /\ MaxAttempts \in [Jobs -> Nat \ {0}]
    /\ RetryDelay \in [Jobs -> Nat]
    /\ ContentionDelay \in Nat \ {0}
ASSUME ClockAssumption ==
    /\ LeaseTicks \in Nat \ {0}
    /\ Availabilities \subseteq Nat
    /\ MaxTime \in Nat /\ MaxClaims \in Nat

VARIABLES
    now,        \* the runtimes' clock
    issued,     \* how many claim tokens exist; a token is its serial number
    row,        \* [sporades_jobs]
    phase,      \* life cycle of each runtime; __jobStopped unless "active"
    wk,         \* the worker loop of each runtime
    canceller,  \* the ctx.jobs.cancel call in progress, on one of the runtimes
    scan,       \* the lease recovery scan in progress on each runtime
    charged     \* history: handler starts of each job whose attempt was kept

vars == <<now, issued, row, phase, wk, canceller, scan, charged>>

NoToken == 0
NoLease == 0

Statuses == {"absent", "delayed", "queued", "running",
             "succeeded", "failed", "cancelled"}
Terminal == {"succeeded", "failed", "cancelled"}

Absent == [status |-> "absent", availableAt |-> 0, attempts |-> 0, hist |-> 0,
           lease |-> NoLease, token |-> NoToken, cancel |-> FALSE]

\* Where a worker stands; "handler" is the only place Capsule code runs in.  The
\* head of the loop is "idle" too: it keeps nothing, and a pass may start any time.
Pcs == {"idle", "select", "nextDelayed", "failQueued", "failDelayed", "claim",
        "claimed", "recheck", "start", "handler", "readCancel", "contention",
        "settle", "relinquish"}

Outcomes == {"none", "ok", "error", "permanent", "cancelled"}

Idle == [pc |-> "idle", job |-> "none", wnow |-> 0, availableAt |-> 0,
         attempts |-> 0, hist |-> 0, token |-> NoToken, lease |-> NoLease,
         aborted |-> FALSE, outcome |-> "none"]

NoCall == [pc |-> "idle", on |-> "none", job |-> "none", status |-> "absent",
           token |-> NoToken]

Init ==
    /\ now = 0
    /\ issued = 0
    /\ row \in [Jobs -> {Absent}
                  \cup {[Absent EXCEPT !.status = "running", !.attempts = 1, !.lease = l] :
                            l \in {NoLease, 1}}]
    /\ \A j \in Jobs : row[j].status = "running" <=> j \in Legacy
    /\ phase = [r \in Runtimes |-> "down"]
    /\ wk = [r \in Runtimes |-> Idle]
    /\ canceller = NoCall
    /\ scan = [r \in Runtimes |-> {}]
    /\ charged = [j \in Jobs |-> 0]

-----------------------------------------------------------------------------
(* The clock, and ctx.jobs.enqueue.                                        *)

Tick ==
    /\ now < MaxTime
    /\ now' = now + 1
    /\ UNCHANGED <<issued, row, phase, wk, canceller, scan, charged>>

\* The INSERT of createCurrentUserJobApi().enqueue.
Enqueue(j, at) ==
    /\ row[j].status = "absent"
    /\ at >= now
    /\ row' = [row EXCEPT ![j] =
                [Absent EXCEPT !.status = IF at > now THEN "delayed" ELSE "queued",
                               !.availableAt = at]]
    /\ UNCHANGED <<now, issued, phase, wk, canceller, scan, charged>>

-----------------------------------------------------------------------------
(* runCurrentUserJobWorker.                                                *)

Stopped(r) == phase[r] # "active"

Goto(r, state) == wk' = [wk EXCEPT ![r] = state]

\* invalidStoredJobFailure of a stored queued or delayed row: no attempt is left.
Invalid(j) == row[j].attempts >= MaxAttempts[j]

\* The head of the loop: the clock is read and every due delayed row is queued.
Promote(r) ==
    /\ ~Stopped(r)
    /\ wk[r].pc = "idle"
    /\ row' = [j \in Jobs |->
                IF row[j].status = "delayed" /\ row[j].availableAt <= now
                THEN [row[j] EXCEPT !.status = "queued"] ELSE row[j]]
    /\ Goto(r, [Idle EXCEPT !.pc = "select", !.wnow = now])
    /\ UNCHANGED <<now, issued, phase, canceller, scan, charged>>

Runnable(r) == {j \in Jobs : row[j].status = "queued" /\ row[j].availableAt <= wk[r].wnow}
Delayed == {j \in Jobs : row[j].status = "delayed"}

\* Earliest availableAt first; the random id breaks ties.
Earliest(S) == {j \in S : \A k \in S : row[j].availableAt <= row[k].availableAt}

\* Mutant: the worker forgets which row it selected.
SnapshotWithoutJob(r, j, pc) ==
    [wk[r] EXCEPT !.pc = pc, !.availableAt = row[j].availableAt,
                  !.attempts = row[j].attempts, !.hist = row[j].hist]

\* What the worker remembers of the row it read.
Snapshot(r, j, pc) ==
    [wk[r] EXCEPT !.pc = pc, !.job = j, !.availableAt = row[j].availableAt,
                  !.attempts = row[j].attempts, !.hist = row[j].hist]

Select(r) ==
    /\ wk[r].pc = "select"
    /\ \/ /\ Stopped(r)
          /\ Goto(r, Idle)
       \/ /\ ~Stopped(r) /\ Runnable(r) = {}
          /\ Goto(r, [wk[r] EXCEPT !.pc = "nextDelayed"])
       \/ /\ ~Stopped(r)
          /\ \E j \in Earliest(Runnable(r)) :
                Goto(r, Snapshot(r, j, IF Invalid(j) THEN "failQueued" ELSE "claim"))
    /\ UNCHANGED <<now, issued, row, phase, canceller, scan, charged>>

\* scheduleNextDelayedJob: the first valid delayed row arms the wake and ends the pass.
NextDelayed(r) ==
    /\ wk[r].pc = "nextDelayed"
    /\ \/ Delayed = {} /\ Goto(r, Idle)
       \/ \E j \in Earliest(Delayed) :
            Goto(r, IF Invalid(j) THEN Snapshot(r, j, "failDelayed") ELSE Idle)
    /\ UNCHANGED <<now, issued, row, phase, canceller, scan, charged>>

\* failInvalidQueuedJob: guarded by the status and availableAt that were read.
FailInvalid(r) ==
    /\ wk[r].pc \in {"failQueued", "failDelayed"}
    /\ LET j == wk[r].job
           read == IF wk[r].pc = "failQueued" THEN "queued" ELSE "delayed"
       IN row' = IF row[j].status = read /\ row[j].availableAt = wk[r].availableAt
                 THEN [row EXCEPT ![j].status = "failed"] ELSE row
    /\ Goto(r, IF wk[r].pc = "failQueued" THEN Idle
               ELSE [Idle EXCEPT !.pc = "nextDelayed", !.wnow = wk[r].wnow])
    /\ UNCHANGED <<now, issued, phase, canceller, scan, charged>>

\* Mutant: the claim is not guarded by the availableAt that was read.
ClaimableByStatus(r) == row[wk[r].job].status = "queued"

Claimable(r) ==
    LET j == wk[r].job
    IN row[j].status = "queued" /\ row[j].availableAt = wk[r].availableAt

\* The claim UPDATE wins only while the row still looks as it was read.
Claim(r) ==
    /\ wk[r].pc = "claim"
    /\ Claimable(r)
    /\ issued < MaxClaims
    /\ LET j == wk[r].job
           lease == wk[r].wnow + LeaseTicks
       IN /\ row' = [row EXCEPT ![j].status = "running",
                                ![j].attempts = row[j].attempts + 1,
                                ![j].lease = lease,
                                ![j].token = issued + 1]
          /\ Goto(r, [wk[r] EXCEPT !.pc = "claimed", !.token = issued + 1,
                                   !.lease = lease, !.wnow = 0, !.availableAt = 0])
    /\ issued' = issued + 1
    /\ UNCHANGED <<now, phase, canceller, scan, charged>>

ClaimLost(r) ==
    /\ wk[r].pc = "claim"
    /\ ~Claimable(r)
    /\ Goto(r, Idle)
    /\ UNCHANGED <<now, issued, row, phase, canceller, scan, charged>>

\* __jobAbortControllers.set, or the first relinquishing stop check.
Register(r) ==
    /\ wk[r].pc = "claimed"
    /\ Goto(r, [wk[r] EXCEPT !.pc = IF Stopped(r) THEN "relinquish" ELSE "recheck"])
    /\ UNCHANGED <<now, issued, row, phase, canceller, scan, charged>>

Owns(r) == row[wk[r].job].status = "running" /\ row[wk[r].job].token = wk[r].token

\* Mutant: the exact claim is rechecked but not its cancellation marker.
RecheckClaimOnly(r) ==
    /\ wk[r].pc = "recheck"
    /\ Goto(r, IF Owns(r) THEN [wk[r] EXCEPT !.pc = "start"] ELSE Idle)
    /\ UNCHANGED <<now, issued, row, phase, canceller, scan, charged>>

\* SELECT cancelRequestedAt of the exact claim, once the controller exists: a lost
\* claim is dropped, a marker that is already there aborts.
Recheck(r) ==
    /\ wk[r].pc = "recheck"
    /\ Goto(r, IF Owns(r) THEN [wk[r] EXCEPT !.pc = "start",
                                  !.aborted = @ \/ row[wk[r].job].cancel]
               ELSE Idle)
    /\ UNCHANGED <<now, issued, row, phase, canceller, scan, charged>>

\* The code between that read and the handler boundary.
Start(r) ==
    /\ wk[r].pc = "start"
    /\ \/ /\ Stopped(r)
          /\ Goto(r, [wk[r] EXCEPT !.pc = "relinquish"])
          /\ UNCHANGED charged
       \/ /\ ~Stopped(r)
          /\ Goto(r, [wk[r] EXCEPT !.pc = "handler"])
          /\ charged' = [charged EXCEPT ![wk[r].job] = @ + 1]
       \* UNKNOWN_JOB_HANDLER is retried, JOB_ACTOR_UNAVAILABLE is not.
       \/ /\ ~Stopped(r)
          /\ \E o \in {"error", "permanent"} :
               Goto(r, [wk[r] EXCEPT !.pc = "settle", !.outcome = o])
          /\ UNCHANGED charged
    /\ UNCHANGED <<now, issued, row, phase, canceller, scan>>

\* Mutant: a stopped worker relinquishes although its handler has started.
HandlerEndsUnstarted(r) ==
    /\ wk[r].pc = "handler"
    /\ \/ Stopped(r) /\ Goto(r, [wk[r] EXCEPT !.pc = "relinquish"])
       \/ \E o \in {"ok", "error", "permanent"} :
            Goto(r, [wk[r] EXCEPT !.pc = "settle", !.outcome = o])
    /\ UNCHANGED <<now, issued, row, phase, canceller, scan, charged>>

\* The Capsule handler returns, throws, or observes its abort signal.
HandlerEnds(r) ==
    /\ wk[r].pc = "handler"
    /\ \/ \E o \in {"ok", "error", "permanent"} :
            Goto(r, [wk[r] EXCEPT !.pc = "settle", !.outcome = o])
       \/ Goto(r, [wk[r] EXCEPT !.pc = "readCancel"])
       \/ wk[r].job \in StripeJobs /\ Goto(r, [wk[r] EXCEPT !.pc = "contention"])
    /\ UNCHANGED <<now, issued, row, phase, canceller, scan, charged>>

\* An abort-shaped error is a cancellation only when the exact claim carries the marker.
ReadCancellation(r) ==
    /\ wk[r].pc = "readCancel"
    /\ Goto(r, [wk[r] EXCEPT !.pc = "settle",
                  !.outcome = IF Owns(r) /\ row[wk[r].job].cancel
                              THEN "cancelled" ELSE "error"])
    /\ UNCHANGED <<now, issued, row, phase, canceller, scan, charged>>

Released(j, status) ==
    [row[j] EXCEPT !.status = status, !.lease = NoLease, !.token = NoToken]

\* deferAtomicStripeFenceContention: the attempt is refunded unless cancelled or lost.
DeferContention(r) ==
    /\ wk[r].pc = "contention"
    /\ LET j == wk[r].job
       IN \/ /\ Owns(r) /\ ~row[j].cancel
             /\ row' = [row EXCEPT ![j] =
                         [Released(j, "delayed") EXCEPT
                             !.availableAt = now + ContentionDelay,
                             !.attempts = IF @ > 0 THEN @ - 1 ELSE 0]]
             /\ charged' = [charged EXCEPT ![j] = @ - 1]
             /\ Goto(r, Idle)
          \/ /\ Owns(r) /\ row[j].cancel
             /\ Goto(r, [wk[r] EXCEPT !.pc = "readCancel", !.aborted = TRUE])
             /\ UNCHANGED <<row, charged>>
          \/ /\ ~Owns(r)
             /\ Goto(r, [wk[r] EXCEPT !.pc = "settle", !.outcome = "error"])
             /\ UNCHANGED <<row, charged>>
    /\ UNCHANGED <<now, issued, phase, canceller, scan>>

RetryEligible(r) ==
    wk[r].outcome = "error" /\ wk[r].attempts + 1 < MaxAttempts[wk[r].job]

SettledStatus(r) ==
    CASE wk[r].outcome = "ok" -> "succeeded"
      [] wk[r].outcome = "cancelled" -> "cancelled"
      [] RetryEligible(r) -> "delayed"
      [] OTHER -> "failed"

\* The settled row; its attempt history comes from the snapshot, not from the row.
Settled(r) ==
    [Released(wk[r].job, SettledStatus(r)) EXCEPT
        !.hist = wk[r].hist + 1,
        !.availableAt = IF SettledStatus(r) = "delayed"
                        THEN now + RetryDelay[wk[r].job] ELSE @]

Settle(r) ==
    /\ wk[r].pc = "settle"
    /\ row' = IF Owns(r) THEN [row EXCEPT ![wk[r].job] = Settled(r)] ELSE row
    /\ Goto(r, Idle)
    /\ UNCHANGED <<now, issued, phase, canceller, scan, charged>>

\* relinquishUnstartedJobClaim: the attempt is given back, a cancellation wins.
Relinquish(r) ==
    /\ wk[r].pc = "relinquish"
    /\ LET j == wk[r].job
       IN row' = IF Owns(r)
                 THEN [row EXCEPT ![j] =
                        [Released(j, IF row[j].cancel THEN "cancelled" ELSE "queued")
                            EXCEPT !.attempts = IF @ > 0 THEN @ - 1 ELSE 0]]
                 ELSE row
    /\ Goto(r, Idle)
    /\ UNCHANGED <<now, issued, phase, canceller, scan, charged>>

\* A statement rejects.  Before the handler it is an ordinary failure; a rejected
\* success settlement is settled again as a failure; anywhere else the pass ends
\* and whatever claim it held stays in the row.
WorkerThrows(r) ==
    /\ \/ /\ wk[r].pc = "recheck"
          /\ Goto(r, IF Stopped(r) THEN [wk[r] EXCEPT !.pc = "relinquish"]
                     ELSE [wk[r] EXCEPT !.pc = "settle", !.outcome = "error"])
       \/ /\ wk[r].pc = "settle" /\ wk[r].outcome = "ok"
          /\ Goto(r, [wk[r] EXCEPT !.outcome = "error"])
       \/ /\ wk[r].pc \in {"select", "nextDelayed", "failQueued", "failDelayed",
                            "claim", "relinquish", "readCancel", "contention", "settle"}
          /\ wk[r].outcome # "ok"
          /\ Goto(r, Idle)
    /\ UNCHANGED <<now, issued, row, phase, canceller, scan, charged>>

-----------------------------------------------------------------------------
(* cancelJob: an authorized read, a guarded write, then the local abort.   *)

CancelRead(r, j) ==
    /\ phase[r] # "down"
    /\ canceller = NoCall
    /\ row[j].status \in {"queued", "delayed", "running"}
    /\ canceller' = [pc |-> "write", on |-> r, job |-> j, status |-> row[j].status,
                     token |-> row[j].token]
    /\ UNCHANGED <<now, issued, row, phase, wk, scan, charged>>

\* Mutant: a waiting Job is cancelled without comparing its status again.
CancelWaitingUnguarded ==
    /\ canceller.pc = "write"
    /\ canceller.status \in {"queued", "delayed"}
    /\ row' = [row EXCEPT ![canceller.job] = Released(canceller.job, "cancelled")]
    /\ canceller' = NoCall
    /\ UNCHANGED <<now, issued, phase, wk, scan, charged>>

CancelWaiting ==
    /\ canceller.pc = "write"
    /\ canceller.status \in {"queued", "delayed"}
    /\ LET j == canceller.job
       IN row' = IF row[j].status = canceller.status
                 THEN [row EXCEPT ![j] = Released(j, "cancelled")] ELSE row
    /\ canceller' = NoCall
    /\ UNCHANGED <<now, issued, phase, wk, scan, charged>>

\* The marker is durable first; in a transaction the abort follows the commit.
CancelRunning ==
    /\ canceller.pc = "write"
    /\ canceller.status = "running"
    /\ LET j == canceller.job
           exact == row[j].status = "running" /\ row[j].token = canceller.token
       IN /\ row' = IF exact THEN [row EXCEPT ![j].cancel = TRUE] ELSE row
          /\ canceller' = IF exact THEN [canceller EXCEPT !.pc = "abort"] ELSE NoCall
    /\ UNCHANGED <<now, issued, phase, wk, scan, charged>>

\* The controller of r's worker for job j exists between Register and the finally block.
Registered(r, j) ==
    wk[r].job = j /\ wk[r].pc \in {"recheck", "start", "handler", "readCancel",
                                   "contention", "settle"}

\* abortRuntimeJobClaim: only the controller of the exact claim is aborted.
CancelAbort ==
    /\ canceller.pc = "abort"
    /\ LET r == canceller.on
       IN wk' = IF Registered(r, canceller.job) /\ wk[r].token = canceller.token
                THEN [wk EXCEPT ![r].aborted = TRUE] ELSE wk
    /\ canceller' = NoCall
    /\ UNCHANGED <<now, issued, row, phase, scan, charged>>

-----------------------------------------------------------------------------
(* recoverExpiredJobLeases: one scan of the running rows, then one guarded *)
(* UPDATE per row.                                                         *)

Read(j) == [job |-> j, at |-> now, lease |-> row[j].lease, token |-> row[j].token,
            attempts |-> row[j].attempts, hist |-> row[j].hist]

\* Mutant: recovery takes every running row, its lease expired or not.
DueAnyLease == {j \in Jobs : row[j].status = "running"}

\* Rows whose lease is still running only set the next recovery wake.
Due == {j \in Jobs : row[j].status = "running" /\ row[j].lease <= now}

ScanLeases(r) ==
    /\ phase[r] # "down"
    /\ scan[r] = {}
    /\ Due # {}
    /\ scan' = [scan EXCEPT ![r] = {Read(j) : j \in Due}]
    /\ UNCHANGED <<now, issued, row, phase, wk, canceller, charged>>

\* The row an expired or unreadable lease leaves behind.
Recovered(s) ==
    IF s.lease = NoLease THEN Released(s.job, "failed")
    ELSE IF s.attempts < MaxAttempts[s.job]
    THEN [Released(s.job, "delayed") EXCEPT !.availableAt = s.at + RetryDelay[s.job],
                                            !.hist = s.hist + 1]
    ELSE [Released(s.job, "failed") EXCEPT !.hist = s.hist + 1]

Unchanged(s) ==
    /\ row[s.job].status = "running"
    /\ row[s.job].lease = s.lease
    /\ row[s.job].token = s.token

RecoverRow(r) ==
    \E s \in scan[r] :
        /\ scan' = [scan EXCEPT ![r] = @ \ {s}]
        /\ row' = IF Unchanged(s)
                  THEN [row EXCEPT ![s.job] = Recovered(s)] ELSE row
        /\ UNCHANGED <<now, issued, phase, wk, canceller, charged>>

-----------------------------------------------------------------------------
(* Life of a runtime.                                                      *)

\* openDevDatabase, and init up to the activation boundary: __jobStopped holds.
Open(r) ==
    /\ phase[r] = "down"
    /\ phase' = [phase EXCEPT ![r] = "opened"]
    /\ row' = [j \in Jobs |->
                IF row[j].status \in {"queued", "delayed"} /\ Invalid(j)
                THEN [row[j] EXCEPT !.status = "failed"] ELSE row[j]]
    /\ UNCHANGED <<now, issued, wk, canceller, scan, charged>>

\* activateCurrentUserJobExecution.
Activate(r) ==
    /\ phase[r] = "opened"
    /\ phase' = [phase EXCEPT ![r] = "active"]
    /\ UNCHANGED <<now, issued, row, wk, canceller, scan, charged>>

\* stopCurrentUserJobWorker aborts every registered controller.
Stop(r) ==
    /\ phase[r] = "active"
    /\ phase' = [phase EXCEPT ![r] = "stopped"]
    /\ wk' = IF wk[r].job \in Jobs /\ Registered(r, wk[r].job)
             THEN [wk EXCEPT ![r].aborted = TRUE] ELSE wk
    /\ UNCHANGED <<now, issued, row, canceller, scan, charged>>

\* Teardown closes the adapter once the worker and the scan have settled.
Close(r) ==
    /\ phase[r] \in {"opened", "stopped"}
    /\ wk[r].pc = "idle" /\ scan[r] = {} /\ canceller.on # r
    /\ phase' = [phase EXCEPT ![r] = "down"]
    /\ UNCHANGED <<now, issued, row, wk, canceller, scan, charged>>

\* The process dies: everything in memory is gone, the rows stay.
Crash(r) ==
    /\ phase[r] # "down"
    /\ phase' = [phase EXCEPT ![r] = "down"]
    /\ wk' = [wk EXCEPT ![r] = Idle]
    /\ canceller' = IF canceller.on = r THEN NoCall ELSE canceller
    /\ scan' = [scan EXCEPT ![r] = {}]
    /\ UNCHANGED <<now, issued, row, charged>>

-----------------------------------------------------------------------------
WorkerStep(r) ==
    \/ Promote(r) \/ Select(r) \/ NextDelayed(r) \/ FailInvalid(r)
    \/ Claim(r) \/ ClaimLost(r) \/ Register(r) \/ Recheck(r) \/ Start(r)
    \/ HandlerEnds(r) \/ ReadCancellation(r) \/ DeferContention(r)
    \/ Settle(r) \/ Relinquish(r) \/ WorkerThrows(r)

CancelStep ==
    \/ \E r \in Runtimes, j \in Jobs : CancelRead(r, j)
    \/ CancelWaiting \/ CancelRunning \/ CancelAbort

RuntimeStep(r) ==
    ScanLeases(r) \/ RecoverRow(r) \/ Open(r) \/ Activate(r) \/ Stop(r) \/ Close(r) \/ Crash(r)

Next ==
    \/ Tick
    \/ \E j \in Jobs, at \in Availabilities : Enqueue(j, at)
    \/ \E r \in Runtimes : WorkerStep(r) \/ RuntimeStep(r)
    \/ CancelStep

Spec == Init /\ [][Next]_vars

-----------------------------------------------------------------------------
(* Properties.                                                             *)

Rows == [status : Statuses, availableAt : Nat, attempts : Nat, hist : Nat,
         lease : Nat, token : 0..MaxClaims, cancel : BOOLEAN]

Workers == [pc : Pcs, job : Jobs \cup {"none"}, wnow : Nat, availableAt : Nat,
            attempts : Nat, hist : Nat, token : 0..MaxClaims, lease : Nat,
            aborted : BOOLEAN, outcome : Outcomes]

Calls == [pc : {"idle", "write", "abort"}, on : Runtimes \cup {"none"},
          job : Jobs \cup {"none"}, status : Statuses, token : 0..MaxClaims]

Reads == [job : Jobs, at : Nat, lease : Nat, token : 0..MaxClaims,
          attempts : Nat, hist : Nat]

\* Every variable has its type; whatever has left "idle" knows which job it is about.
TypeOK ==
    /\ now \in Nat
    /\ issued \in 0..MaxClaims
    /\ row \in [Jobs -> Rows]
    /\ phase \in [Runtimes -> {"down", "opened", "active", "stopped"}]
    /\ wk \in [Runtimes -> Workers]
    /\ canceller \in Calls
    /\ scan \in [Runtimes -> SUBSET Reads]
    /\ charged \in [Jobs -> Int]
    /\ \A r \in Runtimes : wk[r].pc \notin {"idle", "select", "nextDelayed"} => wk[r].job \in Jobs
    /\ canceller.pc # "idle" => canceller.job \in Jobs /\ canceller.on \in Runtimes

InHandler(r) == wk[r].pc = "handler"

\* The claim a handler runs under is its own until the lease runs out: no shutdown,
\* recovery, cancellation, completion or second runtime takes the row from it
\* earlier (jobs-and-schedules.md 186-188).  So two handlers of one Job overlap
\* only after a lease expired, which is what "at least once" allows.
OwnedUntilExpiry ==
    \A r \in Runtimes : InHandler(r) => Owns(r) \/ wk[r].lease <= now

Holding == {"claimed", "recheck", "start", "handler", "readCancel", "contention",
            "settle", "relinquish"}

\* A worker past its claim still owns the row, under the lease it remembers, or that
\* lease has run out.
HoldersOwn ==
    \A r \in Runtimes :
        wk[r].pc \in Holding =>
            /\ wk[r].token \in 1..issued
            /\ \/ Owns(r) /\ row[wk[r].job].lease = wk[r].lease
               \/ wk[r].lease <= now

\* No two workers hold the same claim.
TokensDistinct ==
    \A r, q \in Runtimes :
        r # q /\ wk[r].pc \in Holding /\ wk[q].pc \in Holding => wk[r].token # wk[q].token

\* A recovery scan only remembers leases that have run out.
ScansExpired == \A r \in Runtimes : \A s \in scan[r] : s.lease <= now

\* The inductive invariant behind OwnedUntilExpiry, for every step of a claim and not
\* the handler alone.
ClaimInvariant == HoldersOwn /\ TokensDistinct /\ ScansExpired

\* A settled Job stays as it settled, whatever stale worker, scan or cancel call
\* still holds a copy of the row it read before.
TerminalIsFinal ==
    [][\A j \in Jobs : row[j].status \in Terminal => row'[j] = row[j]]_vars

\* Every handler start has cost the row an attempt, but for those given back by
\* fence contention: relinquishing never makes a started attempt free.
StartsAreCharged ==
    \A j \in Jobs \ Legacy : charged[j] <= row[j].attempts

\* No row uses more attempts than its retry policy allows.
AttemptsWithinPolicy ==
    \A j \in Jobs : row[j].attempts <= MaxAttempts[j]

\* attemptHistory has exactly one entry for each attempt that was used up: no
\* settlement or recovery appends to an outdated copy of it.
HistoryIsComplete ==
    \A j \in Jobs \ Legacy :
        row[j].hist = row[j].attempts - (IF row[j].status = "running" THEN 1 ELSE 0)

\* With one runtime, a handler whose claim carries a cancellation marker has its
\* abort signal raised, or the cancel call is about to raise it: the window between
\* the claim and the registration of its controller loses no request.
CancelReachesHandler ==
    \A r \in Runtimes :
        InHandler(r) /\ Owns(r) /\ row[wk[r].job].cancel
            => wk[r].aborted \/ canceller.pc = "abort"
=============================================================================
