------------------------ MODULE RuntimeReplacement -------------------------
(***************************************************************************)
(* Replacement of the runtime of a Dev session (src/server-runtime-        *)
(* source.ts 516-655, 1116-1370; restart in src/cli/sporades.ts): a        *)
(* candidate is initialised with its Jobs stopped, then the outgoing       *)
(* runtime is shut down and closed, then the candidate runs Jobs and the   *)
(* server points at it.  Both share one store: the Jobs, and the Schedules *)
(* with the runtime whose publication has authority over them.             *)
(*                                                                         *)
(* Job workers and lease recovery are those of JobTimers, cut down to what *)
(* a change of runtime can disturb: a lease has expired or not, and an     *)
(* attempt ends its Job unless shutdown aborts it.                         *)
(***************************************************************************)
EXTENDS Naturals

CONSTANTS
  Runtimes,        \* runtimes opened in the session, each used once
  First,           \* the one it starts with
  Restarters,      \* what may call restart: the file watcher, the fatal handler
  Jobs,
  Overruns,        \* whether a handler may outlive its lease
  Degrades,        \* whether a fault may leave a runtime without the dispatch it needs:
                   \* a worker that fails in service, an activation without timers
  MaxFaults        \* bound: steps that fail

ASSUME RuntimeReplacementAssumption ==
  /\ First \in Runtimes /\ Jobs # {}
  /\ Overruns \in BOOLEAN /\ Degrades \in BOOLEAN /\ MaxFaults \in Nat

VARIABLES
  live,       \* database of createDevRuntime: the runtime the server uses
  restart,    \* restart[s]: the replacement s is in
  rt,         \* the runtimes
  jobs,       \* [sporades_jobs]
  authority,  \* the runtime that last published the Schedules
  faults

vars == <<live, restart, rt, jobs, authority, faults>>

NoRestart == [pc |-> "idle", current |-> First, candidate |-> First]

\* adapter: its database connection; worker: where its Job worker is, with job; rerun:
\* __jobWorkerRerunRequested; recovery: the lease recovery timer; timers: its Schedules are
\* armed; down: where its shutdown is; broken: a step of it failed; hooked: its hook has run.
NoRuntime ==
  [adapter |-> "none", initialized |-> FALSE, jobStopped |-> TRUE,
   worker |-> "off", job |-> CHOOSE j \in Jobs : TRUE, rerun |-> FALSE, recovery |-> "off",
   timers |-> FALSE, down |-> "no", broken |-> FALSE, hooked |-> FALSE]

Opened == [NoRuntime EXCEPT !.adapter = "open"]

NoJob == [status |-> "absent", owner |-> First, expired |-> FALSE]

Init ==
  /\ live = First
  /\ restart = [s \in Restarters |-> NoRestart]
  /\ rt = [r \in Runtimes |->
             IF r = First
             THEN [Opened EXCEPT !.initialized = TRUE, !.jobStopped = FALSE, !.timers = TRUE]
             ELSE NoRuntime]
  /\ jobs = [j \in Jobs |-> NoJob]
  /\ authority = First
  /\ faults = 0

Fault == faults < MaxFaults /\ faults' = faults + 1
Sound == UNCHANGED faults

Goes(s, from, to) ==
  /\ restart[s].pc = from
  /\ restart' = [restart EXCEPT ![s].pc = to]

-----------------------------------------------------------------------------
(* Jobs, and the workers and timers of a runtime x.                        *)

Orphans == {j \in Jobs : jobs[j].status = "running"}
Queued == {j \in Jobs : jobs[j].status = "queued"}

\* recoverExpiredJobLeases.
Recovered ==
  [j \in Jobs |-> IF j \in Orphans /\ jobs[j].expired
                  THEN [jobs[j] EXCEPT !.status = "queued"] ELSE jobs[j]]

\* scheduleCurrentUserJobWorker.
Dispatched(x) ==
  IF x.jobStopped THEN x
  ELSE IF x.worker = "off" THEN [x EXCEPT !.worker = "due"]
  ELSE IF x.worker = "due" THEN x
  ELSE [x EXCEPT !.rerun = TRUE]

\* The finally block of the worker.
Returned(x) ==
  IF x.rerun THEN Dispatched([x EXCEPT !.worker = "off", !.rerun = FALSE])
  ELSE [x EXCEPT !.worker = "off"]

\* stopCurrentUserJobWorker.
JobsStopped(x) ==
  [x EXCEPT !.jobStopped = TRUE, !.rerun = FALSE, !.recovery = "off",
            !.worker = IF @ = "due" THEN "off" ELSE @]

\* Mutant: the lease recovery of the candidate is not refreshed.
JobsActiveWithoutRecovery(x) == Dispatched([x EXCEPT !.jobStopped = FALSE])

\* __activateJobExecution.
JobsActive(x) ==
  Dispatched([x EXCEPT !.jobStopped = FALSE, !.recovery = "due"])

\* A request to the server commits a Job and dispatches it.
Enqueue(j) ==
  /\ rt[live].adapter = "open" /\ jobs[j].status = "absent"
  /\ jobs' = [jobs EXCEPT ![j].status = "queued"]
  /\ rt' = [rt EXCEPT ![live] = Dispatched(@)]
  /\ UNCHANGED <<live, restart, authority, faults>>

\* A Schedule timer: only the runtime whose generation is published may enqueue, any other
\* disables its copy of the Schedule.
ScheduleFires(r, j) ==
  /\ rt[r].timers /\ jobs[j].status = "absent"
  /\ IF authority = r
     THEN /\ jobs' = [jobs EXCEPT ![j].status = "queued"]
          /\ rt' = [rt EXCEPT ![r] = Dispatched(@)]
     ELSE rt' = [rt EXCEPT ![r].timers = FALSE] /\ UNCHANGED jobs
  /\ UNCHANGED <<live, restart, authority, faults>>

WorkerFires(r) ==
  /\ rt[r].worker = "due"
  /\ rt' = [rt EXCEPT ![r].worker = "scan"]
  /\ UNCHANGED <<live, restart, jobs, authority, faults>>

\* It claims a queued Job, or returns because there is none or Jobs are stopped.
WorkerScans(r) ==
  /\ rt[r].worker = "scan"
  /\ \/ /\ ~rt[r].jobStopped
        /\ \E j \in Queued :
             /\ jobs' = [jobs EXCEPT ![j] = [status |-> "running", owner |-> r, expired |-> FALSE]]
             /\ rt' = [rt EXCEPT ![r].worker = "claimed", ![r].job = j]
     \/ /\ rt[r].jobStopped \/ Queued = {}
        /\ rt' = [rt EXCEPT ![r] = Returned(@)]
        /\ UNCHANGED jobs
  /\ UNCHANGED <<live, restart, authority, faults>>

Owns(r, j) == jobs[j].status = "running" /\ jobs[j].owner = r

\* The claim is read once more: a lost one is left alone, and it is given back if Jobs were
\* stopped before the handler.
HandlerStarts(r) ==
  LET j == rt[r].job IN
  /\ rt[r].worker = "claimed"
  /\ \/ /\ ~Owns(r, j)
        /\ rt' = [rt EXCEPT ![r].worker = "scan"]
        /\ UNCHANGED jobs
     \/ /\ Owns(r, j) /\ rt[r].jobStopped
        /\ rt' = [rt EXCEPT ![r] = Returned(@)]
        /\ jobs' = [jobs EXCEPT ![j].status = "queued"]
     \/ /\ Owns(r, j) /\ ~rt[r].jobStopped
        /\ rt' = [rt EXCEPT ![r].worker = "handler"]
        /\ UNCHANGED jobs
  /\ UNCHANGED <<live, restart, authority, faults>>

\* The attempt is settled under its claim; one that shutdown aborted may be retried.
HandlerEnds(r) ==
  LET j == rt[r].job IN
  /\ rt[r].worker = "handler" /\ rt[r].adapter = "open"
  /\ \E status \in {"done"} \cup (IF rt[r].jobStopped THEN {"queued"} ELSE {}) :
       jobs' = IF Owns(r, j) THEN [jobs EXCEPT ![j].status = status] ELSE jobs
  /\ rt' = [rt EXCEPT ![r].worker = "scan"]
  /\ UNCHANGED <<live, restart, authority, faults>>

\* The statement fails: the row keeps its claim, and the worker's promise rejects, which
\* is an error of the shutdown that awaits it.
SettlementFails(r) ==
  /\ Fault
  /\ rt[r].worker = "handler" /\ (Degrades \/ rt[r].down = "worker")
  /\ rt' = [rt EXCEPT ![r] = [Returned(@) EXCEPT !.broken = (rt[r].down = "worker")]]
  /\ UNCHANGED <<live, restart, jobs, authority>>

LeaseExpires(j) ==
  /\ j \in Orphans /\ ~jobs[j].expired
  /\ Overruns \/ LET r == jobs[j].owner IN rt[r].worker = "off" \/ rt[r].job # j
  /\ jobs' = [jobs EXCEPT ![j].expired = TRUE]
  /\ UNCHANGED <<live, restart, rt, authority, faults>>

\* The recovery timer fires: at once, or when the earliest lease it knows of ends.
RecoveryFires(r) ==
  /\ rt[r].recovery = "due" \/ (rt[r].recovery = "armed" /\ \E j \in Orphans : jobs[j].expired)
  /\ jobs' = Recovered
  /\ rt' = [rt EXCEPT ![r] =
              Dispatched([@ EXCEPT !.recovery = IF \E j \in Orphans : ~jobs[j].expired
                                                THEN "armed" ELSE "off"])]
  /\ UNCHANGED <<live, restart, authority, faults>>

-----------------------------------------------------------------------------
(* shutdown and close of a runtime.                                        *)

Settled(x) == x.worker = "off"

\* shutdown: one at a time; a later call shares it, or repeats it after a failure.
ShutdownStarts(x) ==
  IF x.down \in {"no", "failed"}
  THEN [JobsStopped(x) EXCEPT !.down = "worker", !.broken = FALSE]
  ELSE x

\* Timers are cleared and the worker has settled; the hook is for initialised runtimes.
ShutdownSettles(r) ==
  /\ rt[r].down = "worker" /\ Settled(rt[r])
  /\ rt' = [rt EXCEPT ![r].timers = FALSE, ![r].down = IF rt[r].initialized THEN "hook" ELSE "mail"]
  /\ UNCHANGED <<live, restart, jobs, authority, faults>>

ShutdownHook(r) ==
  /\ rt[r].down = "hook"
  /\ \/ Sound /\ rt' = [rt EXCEPT ![r].down = "mail", ![r].hooked = TRUE]
     \/ Fault /\ rt' = [rt EXCEPT ![r].down = "mail", ![r].hooked = TRUE, ![r].broken = TRUE]
  /\ UNCHANGED <<live, restart, jobs, authority>>

\* The last steps, attempted whatever failed before.
ShutdownEnds(r) ==
  /\ rt[r].down = "mail"
  /\ \E failed \in BOOLEAN :
       /\ IF failed THEN Fault ELSE Sound
       /\ rt' = [rt EXCEPT ![r].initialized = FALSE,
                           ![r].down = IF failed \/ rt[r].broken THEN "failed" ELSE "down"]
  /\ UNCHANGED <<live, restart, jobs, authority>>

IsDown(r) == rt[r].down \in {"down", "failed"}

\* close: it stops and settles the work, and attempts every closer.
Closed(x) == [JobsStopped(x) EXCEPT !.adapter = "closed", !.timers = FALSE]

-----------------------------------------------------------------------------
(* restart, replacePreparedRuntimeDatabase and replaceRuntimeDatabase.     *)

\* The candidate is opened, and the runtime the server has by then is the one to replace.
Open(s, r) ==
  /\ restart[s].pc = "idle" /\ rt[r].adapter = "none"
  /\ restart' = [restart EXCEPT ![s] = [pc |-> "prepare", current |-> live, candidate |-> r]]
  /\ rt' = [rt EXCEPT ![r] = Opened]
  /\ UNCHANGED <<live, jobs, authority, faults>>

\* prepareCandidate, then __deferJobExecution.
Prepare(s) ==
  LET r == restart[s].candidate IN
  /\ \/ /\ Sound /\ Goes(s, "prepare", "recover")
        /\ rt' = [rt EXCEPT ![r] = JobsStopped(@)]
     \/ /\ Fault /\ Goes(s, "prepare", "idle")
        /\ rt' = [rt EXCEPT ![r] = Closed(@)]
  /\ UNCHANGED <<live, jobs, authority>>

\* init up to its scan of the leases; the wake that follows from it is not armed here.
InitRecovers(s) ==
  /\ \/ Sound /\ Goes(s, "recover", "publish") /\ jobs' = Recovered
     \/ Fault /\ Goes(s, "recover", "abandon") /\ UNCHANGED jobs
  /\ UNCHANGED <<live, rt, authority>>

\* init: reconcileSchedules publishes the declarations, and the timers start.
InitPublishes(s) ==
  LET r == restart[s].candidate IN
  /\ \/ /\ Sound /\ Goes(s, "publish", "sweep")
        /\ authority' = r
        /\ rt' = [rt EXCEPT ![r].timers = TRUE]
     \/ /\ Fault /\ Goes(s, "publish", "abandon")
        /\ UNCHANGED <<authority, rt>>
  /\ UNCHANGED <<live, jobs>>

\* init: what remains after the publication, maintenance and recovery that swallow their
\* errors.  Jobs stay stopped: their execution is deferred.
InitEnds(s) ==
  /\ Goes(s, "sweep", "preflight")
  /\ rt' = [rt EXCEPT ![restart[s].candidate].initialized = TRUE]
  /\ UNCHANGED <<live, jobs, authority, faults>>

\* init failed: the candidate is closed and the error is thrown.
Abandon(s) ==
  LET r == restart[s].candidate IN
  /\ Goes(s, "abandon", "idle")
  /\ rt' = [rt EXCEPT ![r] = Closed(@)]
  /\ UNCHANGED <<live, jobs, authority, faults>>

\* Mutant: a candidate whose preflight fails is left as it is.
PreflightWithoutCleanup(s) ==
  /\ \/ /\ Sound /\ Goes(s, "preflight", "teardown")
        /\ rt' = [rt EXCEPT ![restart[s].current] = ShutdownStarts(@)]
     \/ Fault /\ Goes(s, "preflight", "idle") /\ UNCHANGED rt
  /\ UNCHANGED <<live, jobs, authority>>

\* The preflight of Job timers and __publishAccessKeyScopes; then the outgoing runtime, or
\* the candidate if these failed, is shut down.
Preflight(s) ==
  /\ \/ /\ Sound /\ Goes(s, "preflight", "teardown")
        /\ rt' = [rt EXCEPT ![restart[s].current] = ShutdownStarts(@)]
     \/ /\ Fault /\ Goes(s, "preflight", "discard")
        /\ rt' = [rt EXCEPT ![restart[s].candidate] = ShutdownStarts(@)]
  /\ UNCHANGED <<live, jobs, authority>>

Discard(s) ==
  LET r == restart[s].candidate IN
  /\ IsDown(r) /\ Settled(rt[r])
  /\ Goes(s, "discard", "idle")
  /\ rt' = [rt EXCEPT ![r] = Closed(@)]
  /\ UNCHANGED <<live, jobs, authority, faults>>

\* Mutant: an error of the teardown is thrown.
TeardownRethrown(s) ==
  LET r == restart[s].current IN
  /\ IsDown(r) /\ Settled(rt[r])
  /\ Goes(s, "teardown", IF rt[r].down = "failed" THEN "abandon" ELSE "activate")
  /\ rt' = [rt EXCEPT ![r] = Closed(@)]
  /\ UNCHANGED <<live, jobs, authority, faults>>

\* The outgoing runtime is closed after its shutdown, whether that failed or not.
Teardown(s) ==
  LET r == restart[s].current IN
  /\ IsDown(r) /\ Settled(rt[r])
  /\ Goes(s, "teardown", "activate")
  /\ rt' = [rt EXCEPT ![r] = Closed(@)]
  /\ UNCHANGED <<live, jobs, authority, faults>>

\* The candidate runs Jobs and becomes the server's runtime.
Activate(s) ==
  LET r == restart[s].candidate IN
  /\ Goes(s, "activate", "idle")
  /\ rt' = [rt EXCEPT ![r] = JobsActive(@)]
  /\ live' = r
  /\ UNCHANGED <<jobs, authority, faults>>

\* Activation cannot set its timers: a warning, and the candidate is promoted all the same.
ActivateDegraded(s) ==
  LET r == restart[s].candidate IN
  /\ Degrades /\ Fault
  /\ Goes(s, "activate", "idle")
  /\ \E recovery \in {"off", "due"} :
       rt' = [rt EXCEPT ![r].jobStopped = FALSE, ![r].recovery = recovery]
  /\ live' = r
  /\ UNCHANGED <<jobs, authority>>

-----------------------------------------------------------------------------
JobSteps(r) ==
  \/ WorkerFires(r) \/ WorkerScans(r) \/ HandlerStarts(r) \/ HandlerEnds(r)
  \/ RecoveryFires(r)

ShutdownSteps(r) == ShutdownSettles(r) \/ ShutdownHook(r) \/ ShutdownEnds(r)

RestartSteps(s) ==
  \/ Prepare(s) \/ InitRecovers(s) \/ InitPublishes(s) \/ InitEnds(s) \/ Abandon(s)
  \/ Preflight(s) \/ Discard(s) \/ Teardown(s) \/ Activate(s)

Next ==
  \/ \E r \in Runtimes :
       \/ JobSteps(r) \/ ShutdownSteps(r) \/ SettlementFails(r)
       \/ \E j \in Jobs : ScheduleFires(r, j)
  \/ \E j \in Jobs : Enqueue(j) \/ LeaseExpires(j)
  \/ \E s \in Restarters :
       \/ RestartSteps(s) \/ ActivateDegraded(s)
       \/ \E r \in Runtimes : Open(s, r)

Spec == Init /\ [][Next]_vars

-----------------------------------------------------------------------------
RestartStates ==
  [pc : {"idle", "prepare", "recover", "publish", "sweep", "abandon", "preflight",
         "discard", "teardown", "activate"},
   current : Runtimes, candidate : Runtimes]

RuntimeStates ==
  [adapter : {"none", "open", "closed"}, initialized : BOOLEAN,
   jobStopped : BOOLEAN, worker : {"off", "due", "scan", "claimed", "handler"},
   job : Jobs, rerun : BOOLEAN, recovery : {"off", "armed", "due"}, timers : BOOLEAN,
   down : {"no", "worker", "hook", "mail", "down", "failed"}, broken : BOOLEAN,
   hooked : BOOLEAN]

JobStates ==
  [status : {"absent", "queued", "running", "done"}, owner : Runtimes, expired : BOOLEAN]

TypeOK ==
  /\ live \in Runtimes /\ authority \in Runtimes
  /\ restart \in [Restarters -> RestartStates]
  /\ rt \in [Runtimes -> RuntimeStates]
  /\ jobs \in [Jobs -> JobStates]
  /\ faults \in 0..MaxFaults

Usable(r) == rt[r].adapter = "open" /\ rt[r].initialized /\ rt[r].down = "no"

\* Whatever step of a replacement fails, the server has a runtime that works: its own, or,
\* once that is being torn down, the candidate about to take over; never a closed one with
\* its only replacement destroyed (src/server-runtime-source.ts 610-614).
NeverStranded ==
  \/ Usable(live)
  \/ \E s \in Restarters :
       restart[s].pc \in {"teardown", "activate"} /\ Usable(restart[s].candidate)

\* No database connection outlives the replacement that opened it or retired it: outside
\* of one, only the server's runtime is open (server-runtime-source.ts 639-640).
NothingLeaks ==
  \A r \in Runtimes :
    rt[r].adapter = "open" =>
      r = live \/ \E s \in Restarters : restart[s].pc # "idle" /\ r = restart[s].candidate

\* Handlers of two runtimes never run at the same time: the candidate's Jobs wait until the
\* outgoing runtime has settled its own (jobs-and-schedules.md 204-212).
OneExecutor ==
  \A r, q \in Runtimes : rt[r].worker = "handler" /\ rt[q].worker = "handler" => r = q

\* A worker is settled before the shutdown hook runs and before the database connection
\* closes (jobs-and-schedules.md 179-184).
WorkSettlesFirst ==
  \A r \in Runtimes :
    rt[r].hooked \/ rt[r].adapter # "open" => rt[r].worker \in {"off", "due"}

\* A runtime is done with its work before another takes it up, and with the database before
\* the replacement is over.
RetiredIsQuiet == TypeOK /\ NothingLeaks /\ OneExecutor /\ WorkSettlesFirst

\* After a promotion, every Job that is queued, or was left running by a runtime that is gone,
\* is taken up: a claim retained by a failed teardown or given back does not wait for another
\* enqueue or restart (jobs-and-schedules.md 212-216).
Waiting(j) ==
  jobs[j].status = "queued" \/ (jobs[j].status = "running" /\ rt[jobs[j].owner].adapter = "closed")

HandedOver == <>[](live # First => \A j \in Jobs : ~Waiting(j))

\* Every replacement comes to an end (there is a bounded number of them).
RestartsEnd == <>[](\A s \in Restarters : restart[s].pc = "idle")
=============================================================================
