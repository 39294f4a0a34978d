---------------------------- MODULE RuntimeProofs ----------------------------
(***************************************************************************)
(* Proofs about a runtime and what it stands on.  RuntimeReplacement, for  *)
(* any set of runtimes and of Jobs and any number of faults: some theorems *)
(* hold whoever calls restart; that the server always has a runtime, and   *)
(* only one of them works, holds if one caller waits for a replacement to  *)
(* end before it begins the next.  FileReplacement, for any number of      *)
(* files and of failed operations.  RateLimits, for any rules, keys and    *)
(* reloads, any bound of the table and of the clock and the counter.       *)
(***************************************************************************)
EXTENDS MCRuntime, FiniteSetTheorems, WellFoundedInduction, TLAPS

\* A hypothesis of the theorems that need it: restart has one caller.
OneRestarter == \A s, q \in Restarters : s = q

-----------------------------------------------------------------------------
(* The inductive invariant                                                 *)

Quiet(x) == x.jobStopped /\ x.worker = "off"

\* What a runtime is in itself: stopped, it has nothing due; a shutdown stops it and settles
\* its worker before the hook; it is quiet from then on, and once it is closed.
SoundState(x) ==
  /\ x.jobStopped => x.worker # "due" /\ x.recovery = "off"
  /\ x.down # "no" => x.jobStopped
  /\ x.down \in {"hook", "mail", "down", "failed"} => x.worker = "off"
  /\ x.hooked => Quiet(x)
  /\ x.adapter # "open" => Quiet(x)

AllSound == \A r \in Runtimes : SoundState(rt[r])

\* A candidate that is not being discarded is as it was prepared.
Waits(x) == x.adapter = "open" /\ x.down = "no" /\ ~x.hooked /\ Quiet(x)

\* The candidate of a replacement is its own: the server does not use it, no other
\* replacement knows it, and nothing but the replacement shuts it down.
Owned(s) ==
  LET r == restart[s].candidate IN
  restart[s].pc # "idle" =>
    /\ r # live /\ rt[r].adapter = "open"
    /\ restart[s].pc # "discard" => Waits(rt[r])
    /\ restart[s].pc \in {"preflight", "teardown", "activate"} => rt[r].initialized
    /\ rt[restart[s].current].adapter # "none"
    /\ \A q \in Restarters :
         restart[q].pc # "idle" =>
           restart[q].current # r /\ (q # s => restart[q].candidate # r)

CandidatesAreOwned == \A s \in Restarters : Owned(s)

Invariant ==
  /\ TypeOK /\ AllSound /\ CandidatesAreOwned
  /\ rt[live].adapter # "none"

\* With one caller, the runtime to retire is the server's; it is in service unless it is
\* being retired, and closed before its successor starts; nobody else works or is open.
Retiring == \E s \in Restarters : restart[s].pc \in {"teardown", "activate"}

Serving ==
  /\ ~Retiring => Usable(live)
  /\ \A s \in Restarters :
       /\ restart[s].pc # "idle" => restart[s].current = live
       /\ restart[s].pc = "activate" => rt[live].adapter = "closed"
  /\ \A r \in Runtimes \ {live} : Quiet(rt[r])

OneInvariant == Invariant /\ Serving /\ NothingLeaks

-----------------------------------------------------------------------------
(* What the steps of the code do to one runtime                            *)

LEMMA OpenedIsSound == Opened \in RuntimeStates /\ SoundState(Opened) /\ Waits(Opened)
BY RuntimeReplacementAssumption
DEF Opened, NoRuntime, RuntimeStates, SoundState, Waits, Quiet

\* What no step on the work of a runtime changes.
Same(x, y) ==
  /\ y.adapter = x.adapter /\ y.initialized = x.initialized /\ y.down = x.down
  /\ y.hooked = x.hooked

\* scheduleCurrentUserJobWorker leaves a stopped runtime alone, and never stops one.
LEMMA DispatchedIsSound ==
    ASSUME NEW x \in RuntimeStates
    PROVE  /\ Dispatched(x) \in RuntimeStates
           /\ Same(x, Dispatched(x)) /\ Dispatched(x).jobStopped = x.jobStopped
           /\ x.jobStopped => Dispatched(x) = x
           /\ x.worker # "off" => Dispatched(x).worker = x.worker
           /\ SoundState(x) => SoundState(Dispatched(x))
<1>1. CASE x.jobStopped
  BY <1>1 DEF Dispatched, Same
<1>2. CASE ~x.jobStopped /\ x.worker = "off"
  <2> DEFINE y == [x EXCEPT !.worker = "due"]
  <2>1. y \in RuntimeStates /\ Same(x, y) /\ y.jobStopped = x.jobStopped
    BY DEF RuntimeStates, Same
  <2>2. SoundState(x) => SoundState(y)
    BY <1>2 DEF RuntimeStates, SoundState, Quiet
  <2>3. Dispatched(x) = y
    BY <1>2 DEF Dispatched
  <2> QED BY <1>2, <2>1, <2>2, <2>3
<1>3. CASE ~x.jobStopped /\ x.worker = "due"
  BY <1>3 DEF Dispatched, Same
<1>4. CASE ~x.jobStopped /\ x.worker \notin {"off", "due"}
  <2> DEFINE y == [x EXCEPT !.rerun = TRUE]
  <2>1. y \in RuntimeStates /\ Same(x, y) /\ y.jobStopped = x.jobStopped /\ y.worker = x.worker
    BY DEF RuntimeStates, Same
  <2>2. SoundState(x) => SoundState(y)
    BY <1>4 DEF RuntimeStates, SoundState, Quiet
  <2>3. Dispatched(x) = y
    BY <1>4 DEF Dispatched
  <2> QED BY <1>4, <2>1, <2>2, <2>3
<1> QED BY <1>1, <1>2, <1>3, <1>4

LEMMA ReturnedIsSound ==
    ASSUME NEW x \in RuntimeStates, SoundState(x), x.worker # "off", x.worker # "due"
    PROVE  /\ Returned(x) \in RuntimeStates
           /\ Same(x, Returned(x)) /\ Returned(x).jobStopped = x.jobStopped
           /\ SoundState(Returned(x))
<1> DEFINE y == [x EXCEPT !.worker = "off"]
           z == [x EXCEPT !.worker = "off", !.rerun = FALSE]
<1>1. y \in RuntimeStates /\ SoundState(y) /\ Same(x, y) /\ y.jobStopped = x.jobStopped
  BY DEF RuntimeStates, SoundState, Quiet, Same
<1>2. z \in RuntimeStates /\ SoundState(z) /\ Same(x, z) /\ z.jobStopped = x.jobStopped
  BY DEF RuntimeStates, SoundState, Quiet, Same
<1>3. Returned(x) = IF x.rerun THEN Dispatched(z) ELSE y
  BY DEF Returned
<1> HIDE DEF y, z
<1> QED BY <1>1, <1>2, <1>3, DispatchedIsSound DEF Same

LEMMA StoppedIsSound ==
    ASSUME NEW x \in RuntimeStates
    PROVE  /\ JobsStopped(x) \in RuntimeStates
           /\ Same(x, JobsStopped(x)) /\ JobsStopped(x).jobStopped
           /\ JobsStopped(x).worker \in {"off", x.worker}
           /\ SoundState(x) => SoundState(JobsStopped(x))
           /\ Waits(x) => Waits(JobsStopped(x))
<1> DEFINE y == JobsStopped(x)
<1>1. /\ y \in RuntimeStates /\ Same(x, y) /\ y.jobStopped /\ y.recovery = "off"
      /\ y.worker = IF x.worker = "due" THEN "off" ELSE x.worker
  BY DEF JobsStopped, RuntimeStates, Same
<1> HIDE DEF y
<1>2. SoundState(x) => SoundState(y)
  BY <1>1 DEF RuntimeStates, Same, SoundState, Quiet
<1>3. Waits(x) => Waits(y)
  BY <1>1 DEF RuntimeStates, Same, Waits, Quiet
<1> QED BY <1>1, <1>2, <1>3 DEF y

LEMMA ActiveIsSound ==
    ASSUME NEW x \in RuntimeStates, SoundState(x), Waits(x)
    PROVE  /\ JobsActive(x) \in RuntimeStates
           /\ Same(x, JobsActive(x)) /\ SoundState(JobsActive(x))
<1> DEFINE y == [x EXCEPT !.jobStopped = FALSE, !.recovery = "due"]
<1>1. y \in RuntimeStates /\ Same(x, y)
  BY DEF RuntimeStates, Same
<1>2. SoundState(y)
  BY DEF RuntimeStates, SoundState, Quiet, Waits
<1>3. JobsActive(x) = Dispatched(y)
  BY DEF JobsActive
<1> HIDE DEF y
<1> QED BY <1>1, <1>2, <1>3, DispatchedIsSound DEF Same

LEMMA ClosedIsSound ==
    ASSUME NEW x \in RuntimeStates, SoundState(x), x.worker \in {"off", "due"}
    PROVE  /\ Closed(x) \in RuntimeStates /\ SoundState(Closed(x))
           /\ Closed(x).adapter = "closed" /\ Quiet(Closed(x))
BY DEF Closed, JobsStopped, RuntimeStates, SoundState, Quiet

LEMMA ShutdownIsSound ==
    ASSUME NEW x \in RuntimeStates, SoundState(x)
    PROVE  /\ ShutdownStarts(x) \in RuntimeStates /\ SoundState(ShutdownStarts(x))
           /\ ShutdownStarts(x).adapter = x.adapter
           /\ Quiet(x) => Quiet(ShutdownStarts(x))
<1> DEFINE y == JobsStopped(x)
           z == [y EXCEPT !.down = "worker", !.broken = FALSE]
<1>1. y \in RuntimeStates /\ SoundState(y) /\ y.jobStopped
  /\ y.adapter = x.adapter /\ y.worker \in {"off", x.worker}
  BY StoppedIsSound DEF Same
<1>2. ShutdownStarts(x) \in {x, z}
  BY DEF ShutdownStarts
<1> HIDE DEF y
<1>3. z \in RuntimeStates /\ z.adapter = y.adapter /\ z.worker = y.worker
      /\ z.jobStopped
  <2>1. z \in RuntimeStates
    BY <1>1 DEF RuntimeStates
  <2>2. z.adapter = y.adapter /\ z.worker = y.worker /\ z.jobStopped = y.jobStopped
    BY <1>1 DEF RuntimeStates
  <2> QED BY <1>1, <2>1, <2>2
<1>4. SoundState(z)
  BY <1>1 DEF RuntimeStates, SoundState, Quiet
<1> HIDE DEF z
<1> QED BY <1>1, <1>2, <1>3, <1>4 DEF Quiet

-----------------------------------------------------------------------------
(* The steps of a runtime                                                  *)

\* What a replacement relies on when a runtime goes from x to y by itself.
Keeps(x, y) ==
  /\ y.adapter = x.adapter
  /\ x.down = "no" => y.down = "no" /\ y.initialized = x.initialized
  /\ Waits(x) => Waits(y)
  /\ y.jobStopped = x.jobStopped
  /\ Quiet(x) => Quiet(y)

TablesOK == jobs \in [Jobs -> JobStates] /\ authority \in Runtimes /\ faults \in 0..MaxFaults

Moves(r) ==
  /\ UNCHANGED <<live, restart>>
  /\ TablesOK'
  /\ \E y \in RuntimeStates :
       rt' = [rt EXCEPT ![r] = y] /\ SoundState(y) /\ Keeps(rt[r], y)

LEMMA FaultIsCounted == ASSUME faults \in 0..MaxFaults, Fault PROVE faults' \in 0..MaxFaults
BY RuntimeReplacementAssumption DEF Fault

LEMMA JobUpdates ==
    ASSUME jobs \in [Jobs -> JobStates], NEW j \in Jobs
    PROVE  /\ \A status \in {"queued", "done"} :
                [jobs EXCEPT ![j].status = status] \in [Jobs -> JobStates]
           /\ [jobs EXCEPT ![j].expired = TRUE] \in [Jobs -> JobStates]
           /\ \A r \in Runtimes :
                [jobs EXCEPT ![j] = [status |-> "running", owner |-> r, expired |-> FALSE]]
                  \in [Jobs -> JobStates]
           /\ Recovered \in [Jobs -> JobStates]
<1>1. \A i \in Jobs : jobs[i] \in JobStates
  OBVIOUS
<1>2. \A i \in Jobs : /\ \A status \in {"queued", "done"} : [jobs[i] EXCEPT !.status = status] \in JobStates
                       /\ [jobs[i] EXCEPT !.expired = TRUE] \in JobStates
  BY <1>1 DEF JobStates
<1>3. \A r \in Runtimes : [status |-> "running", owner |-> r, expired |-> FALSE] \in JobStates
  BY DEF JobStates
<1> QED BY <1>2, <1>3 DEF Recovered

LEMMA WorkMoves ==
    ASSUME Invariant, NEW r \in Runtimes, JobSteps(r)
    PROVE  Moves(r)
<1> DEFINE x == rt[r]
<1>1. x \in RuntimeStates /\ SoundState(x) /\ x.job \in Jobs /\ jobs \in [Jobs -> JobStates]
  BY DEF Invariant, TypeOK, AllSound, RuntimeStates
<1>2. UNCHANGED <<live, restart, authority, faults>>
  BY DEF JobSteps, WorkerFires, WorkerScans, HandlerStarts, HandlerEnds, RecoveryFires
<1>3. authority' \in Runtimes /\ faults' \in 0..MaxFaults
  BY <1>2 DEF Invariant, TypeOK
<1>4. ASSUME x.worker \notin {"off", "due"}
      PROVE  /\ Returned(x) \in RuntimeStates /\ SoundState(Returned(x)) /\ Keeps(x, Returned(x))
  BY <1>1, <1>4, ReturnedIsSound DEF Same, Keeps, Waits, Quiet
<1>5. CASE WorkerFires(r)
  <2> DEFINE y == [x EXCEPT !.worker = "scan"]
  <2>1. y \in RuntimeStates /\ SoundState(y) /\ Keeps(x, y)
    BY <1>1, <1>5 DEF WorkerFires, RuntimeStates, SoundState, Quiet, Keeps, Waits
  <2>2. rt' = [rt EXCEPT ![r] = y] /\ jobs' = jobs
    BY <1>5 DEF WorkerFires
  <2> QED BY <1>1, <1>2, <1>3, <2>1, <2>2 DEF Moves, TablesOK
<1>6. CASE WorkerScans(r)
  <2>1. CASE rt' = [rt EXCEPT ![r] = Returned(@)] /\ jobs' = jobs
    <3>1. rt' = [rt EXCEPT ![r] = Returned(x)]
      BY <2>1
    <3> QED BY <1>1, <1>2, <1>3, <1>4, <1>6, <2>1, <3>1 DEF Moves, TablesOK, WorkerScans
  <2>2. ASSUME NEW j \in Jobs, ~x.jobStopped,
               jobs' = [jobs EXCEPT ![j] = [status |-> "running", owner |-> r, expired |-> FALSE]],
               rt' = [rt EXCEPT ![r].worker = "claimed", ![r].job = j]
        PROVE  Moves(r)
    <3> DEFINE y == [x EXCEPT !.worker = "claimed", !.job = j]
    <3>1. y \in RuntimeStates /\ SoundState(y) /\ Keeps(x, y)
      BY <1>1, <1>6, <2>2 DEF WorkerScans, RuntimeStates, SoundState, Quiet, Keeps, Waits
    <3>2. rt' = [rt EXCEPT ![r] = y]
      BY <2>2 DEF Invariant, TypeOK
    <3>3. jobs' \in [Jobs -> JobStates]
      BY <1>1, <2>2, JobUpdates
    <3> QED BY <1>2, <1>3, <3>1, <3>2, <3>3 DEF Moves, TablesOK
  <2> QED BY <1>6, <2>1, <2>2 DEF WorkerScans, Queued
<1>7. CASE HandlerStarts(r)
  <2>1. jobs' \in [Jobs -> JobStates]
    <3>1. jobs' \in {jobs, [jobs EXCEPT ![x.job].status = "queued"]}
      BY <1>7 DEF HandlerStarts
    <3>2. [jobs EXCEPT ![x.job].status = "queued"] \in [Jobs -> JobStates]
      BY <1>1, JobUpdates
    <3> QED BY <1>1, <3>1, <3>2
  <2>2. \E y \in {Returned(x), [x EXCEPT !.worker = "scan"], [x EXCEPT !.worker = "handler"]} :
          rt' = [rt EXCEPT ![r] = y]
    BY <1>7 DEF HandlerStarts
  <2>3. \A worker \in {"scan", "handler"} :
          LET y == [x EXCEPT !.worker = worker] IN
          y \in RuntimeStates /\ SoundState(y) /\ Keeps(x, y)
    BY <1>1, <1>7 DEF HandlerStarts, RuntimeStates, SoundState, Quiet, Keeps, Waits
  <2>4. x.worker = "claimed"
    BY <1>7 DEF HandlerStarts
  <2> QED BY <1>2, <1>3, <1>4, <2>1, <2>2, <2>3, <2>4 DEF Moves, TablesOK
<1>8. CASE HandlerEnds(r)
  <2> DEFINE y == [x EXCEPT !.worker = "scan"]
  <2>1. y \in RuntimeStates /\ SoundState(y) /\ Keeps(x, y)
    BY <1>1, <1>8 DEF HandlerEnds, RuntimeStates, SoundState, Quiet, Keeps, Waits
  <2>2. rt' = [rt EXCEPT ![r] = y]
    BY <1>8 DEF HandlerEnds
  <2>3. jobs' \in [Jobs -> JobStates]
    <3>1. PICK status \in {"queued", "done"} :
            jobs' \in {jobs, [jobs EXCEPT ![x.job].status = status]}
      BY <1>8 DEF HandlerEnds
    <3>2. [jobs EXCEPT ![x.job].status = status] \in [Jobs -> JobStates]
      BY <1>1, JobUpdates
    <3> QED BY <1>1, <3>1, <3>2
  <2> QED BY <1>2, <1>3, <2>1, <2>2, <2>3 DEF Moves, TablesOK
<1>9. CASE RecoveryFires(r)
  <2>1. PICK recovery \in {"armed", "off"} :
          rt' = [rt EXCEPT ![r] = Dispatched([x EXCEPT !.recovery = recovery])]
    BY <1>9 DEF RecoveryFires
  <2> DEFINE z == [x EXCEPT !.recovery = recovery]
  <2>2. ~x.jobStopped
    BY <1>1, <1>9 DEF RecoveryFires, SoundState
  <2>3. z \in RuntimeStates /\ SoundState(z) /\ Same(x, z) /\ z.jobStopped = x.jobStopped
    BY <1>1, <2>2 DEF RuntimeStates, SoundState, Quiet, Same
  <2> HIDE DEF z
  <2> DEFINE y == Dispatched(z)
  <2>4. y \in RuntimeStates /\ SoundState(y) /\ Keeps(x, y)
    BY <2>2, <2>3, DispatchedIsSound DEF Keeps, Same, Waits, Quiet
  <2>5. jobs' \in [Jobs -> JobStates]
    BY <1>1, <1>9, JobUpdates DEF RecoveryFires
  <2>6. rt' = [rt EXCEPT ![r] = y]
    BY <2>1 DEF z
  <2> HIDE DEF y
  <2> QED BY <1>2, <1>3, <2>4, <2>5, <2>6 DEF Moves, TablesOK
<1> QED BY <1>5, <1>6, <1>7, <1>8, <1>9 DEF JobSteps

\* Enqueue is a step of the server's runtime.
LEMMA EnqueueMoves ==
    ASSUME Invariant, NEW j \in Jobs, Enqueue(j)
    PROVE  Moves(live)
<1> DEFINE x == rt[live]
           y == Dispatched(x)
<1>1. live \in Runtimes /\ x \in RuntimeStates /\ SoundState(x) /\ jobs \in [Jobs -> JobStates]
  BY DEF Invariant, TypeOK, AllSound
<1>2. y \in RuntimeStates /\ SoundState(y) /\ Keeps(x, y)
  BY <1>1, DispatchedIsSound DEF Keeps, Same, Waits, Quiet
<1>3. rt' = [rt EXCEPT ![live] = y] /\ UNCHANGED <<live, restart, authority, faults>>
  BY DEF Enqueue
<1>4. jobs' \in [Jobs -> JobStates]
  BY <1>1, JobUpdates DEF Enqueue
<1> HIDE DEF y
<1> QED BY <1>2, <1>3, <1>4 DEF Moves, TablesOK, Invariant, TypeOK

LEMMA ScheduleMoves ==
    ASSUME Invariant, NEW r \in Runtimes, NEW j \in Jobs, ScheduleFires(r, j)
    PROVE  Moves(r)
<1> DEFINE x == rt[r]
           y == Dispatched(x)
           z == [x EXCEPT !.timers = FALSE]
<1>1. x \in RuntimeStates /\ SoundState(x) /\ jobs \in [Jobs -> JobStates]
  BY DEF Invariant, TypeOK, AllSound
<1>2. y \in RuntimeStates /\ SoundState(y) /\ Keeps(x, y)
  BY <1>1, DispatchedIsSound DEF Keeps, Same, Waits, Quiet
<1>3. z \in RuntimeStates /\ SoundState(z) /\ Keeps(x, z)
  BY <1>1 DEF RuntimeStates, SoundState, Quiet, Keeps, Waits
<1>4. rt' = [rt EXCEPT ![r] = y] \/ rt' = [rt EXCEPT ![r] = z]
  BY DEF ScheduleFires
<1>5. UNCHANGED <<live, restart, authority, faults>>
  BY DEF ScheduleFires
<1>6. jobs' \in [Jobs -> JobStates]
  BY <1>1, JobUpdates DEF ScheduleFires
<1> HIDE DEF y, z
<1> QED BY <1>2, <1>3, <1>4, <1>5, <1>6 DEF Moves, TablesOK, Invariant, TypeOK

LEMMA LeaseMoves ==
    ASSUME Invariant, NEW j \in Jobs, LeaseExpires(j)
    PROVE  Moves(live)
<1>1. rt[live] \in RuntimeStates /\ SoundState(rt[live]) /\ Keeps(rt[live], rt[live])
  BY DEF Invariant, TypeOK, AllSound, Keeps
<1>2. rt' = [rt EXCEPT ![live] = rt[live]] /\ UNCHANGED <<live, restart, authority, faults>>
  BY DEF LeaseExpires, Invariant, TypeOK
<1>3. jobs' \in [Jobs -> JobStates]
  BY JobUpdates DEF LeaseExpires, Invariant, TypeOK
<1> QED BY <1>1, <1>2, <1>3 DEF Moves, TablesOK, Invariant, TypeOK

LEMMA FailureMoves ==
    ASSUME Invariant, NEW r \in Runtimes, SettlementFails(r)
    PROVE  Moves(r)
<1> DEFINE x == rt[r]
           y == Returned(x)
           b == x.down = "worker"
           z == [y EXCEPT !.broken = b]
<1>1. x \in RuntimeStates /\ SoundState(x) /\ x.worker = "handler"
  BY DEF Invariant, TypeOK, AllSound, SettlementFails
<1>2. y \in RuntimeStates /\ Same(x, y) /\ y.jobStopped = x.jobStopped /\ SoundState(y)
  BY <1>1, ReturnedIsSound
<1>3. rt' = [rt EXCEPT ![r] = z]
  BY DEF SettlementFails
<1> HIDE DEF y
<1>4. z \in RuntimeStates /\ SoundState(z) /\ Keeps(x, z)
  BY <1>1, <1>2 DEF RuntimeStates, SoundState, Quiet, Keeps, Waits, Same
<1>5. UNCHANGED <<live, restart, authority, jobs>> /\ faults' \in 0..MaxFaults
  BY FaultIsCounted DEF SettlementFails, Invariant, TypeOK
<1> HIDE DEF z
<1> QED BY <1>3, <1>4, <1>5 DEF Moves, TablesOK, Invariant, TypeOK

\* A shutdown that has begun is of no candidate that waits and of no runtime in service.
LEMMA ShutdownMoves ==
    ASSUME Invariant, NEW r \in Runtimes, ShutdownSteps(r)
    PROVE  Moves(r)
<1> DEFINE x == rt[r]
<1>1. x \in RuntimeStates /\ SoundState(x)
  BY DEF Invariant, TypeOK, AllSound
<1>2. UNCHANGED <<live, restart, authority, jobs>> /\ faults' \in 0..MaxFaults
  BY FaultIsCounted
  DEF ShutdownSteps, ShutdownSettles, ShutdownHook, ShutdownEnds, Sound, Invariant, TypeOK
<1>3. CASE ShutdownSettles(r)
  <2>1. PICK down \in {"hook", "mail"} : rt' = [rt EXCEPT ![r].timers = FALSE, ![r].down = down]
    BY <1>3 DEF ShutdownSettles
  <2> DEFINE y == [x EXCEPT !.timers = FALSE, !.down = down]
  <2>2. y \in RuntimeStates /\ SoundState(y) /\ Keeps(x, y)
    BY <1>1, <1>3 DEF ShutdownSettles, Settled, RuntimeStates, SoundState, Quiet, Keeps, Waits
  <2>3. rt' = [rt EXCEPT ![r] = y]
    BY <2>1 DEF Invariant, TypeOK
  <2> HIDE DEF y
  <2> QED BY <1>2, <2>2, <2>3 DEF Moves, TablesOK, Invariant, TypeOK
<1>4. CASE ShutdownHook(r)
  <2> DEFINE y == [x EXCEPT !.down = "mail", !.hooked = TRUE]
             z == [x EXCEPT !.down = "mail", !.hooked = TRUE, !.broken = TRUE]
  <2>1. rt' = [rt EXCEPT ![r] = y] \/ rt' = [rt EXCEPT ![r] = z]
    BY <1>4 DEF ShutdownHook, Invariant, TypeOK
  <2>2. y \in RuntimeStates /\ SoundState(y) /\ Keeps(x, y)
    BY <1>1, <1>4 DEF ShutdownHook, RuntimeStates, SoundState, Quiet, Keeps, Waits
  <2>3. z \in RuntimeStates /\ SoundState(z) /\ Keeps(x, z)
    BY <1>1, <1>4 DEF ShutdownHook, RuntimeStates, SoundState, Quiet, Keeps, Waits
  <2> HIDE DEF y, z
  <2> QED BY <1>2, <2>1, <2>2, <2>3 DEF Moves, TablesOK, Invariant, TypeOK
<1>5. CASE ShutdownEnds(r)
  <2>1. PICK down \in {"failed", "down"} :
          rt' = [rt EXCEPT ![r].initialized = FALSE, ![r].down = down]
    BY <1>5 DEF ShutdownEnds
  <2> DEFINE y == [x EXCEPT !.initialized = FALSE, !.down = down]
  <2>2. y \in RuntimeStates /\ SoundState(y) /\ Keeps(x, y)
    BY <1>1, <1>5 DEF ShutdownEnds, RuntimeStates, SoundState, Quiet, Keeps, Waits
  <2>3. rt' = [rt EXCEPT ![r] = y]
    BY <2>1 DEF Invariant, TypeOK
  <2> HIDE DEF y
  <2> QED BY <1>2, <2>2, <2>3 DEF Moves, TablesOK, Invariant, TypeOK
<1> QED BY <1>3, <1>4, <1>5 DEF ShutdownSteps

\* What a step of a runtime leaves true.
LEMMA MovesKeepInvariant ==
    ASSUME Invariant, NEW r \in Runtimes, Moves(r)
    PROVE  Invariant'
<1> PICK y \in RuntimeStates : rt' = [rt EXCEPT ![r] = y] /\ SoundState(y) /\ Keeps(rt[r], y)
  BY DEF Moves
<1>1. \A q \in Runtimes : rt'[q] = IF q = r THEN y ELSE rt[q]
  BY DEF Invariant, TypeOK
<1>2. TypeOK'
  BY DEF Moves, TablesOK, Invariant, TypeOK
<1>3. AllSound'
  BY <1>1 DEF Invariant, AllSound
<1>4. UNCHANGED <<live, restart>>
  BY DEF Moves
<1>5. \A q \in Runtimes : Keeps(rt[q], rt'[q])
  BY <1>1 DEF Keeps
<1>6. CandidatesAreOwned'
  <2> SUFFICES ASSUME NEW s \in Restarters, restart[s].pc # "idle" PROVE Owned(s)'
    BY <1>4 DEF CandidatesAreOwned, Owned
  <2>1. restart[s].candidate \in Runtimes /\ restart[s].current \in Runtimes
    BY DEF Invariant, TypeOK, RestartStates
  <2>2. Owned(s)
    BY DEF Invariant, CandidatesAreOwned
  <2> DEFINE c == restart[s].candidate
  <2>3. c # live /\ rt'[c].adapter = "open" /\ rt'[restart[s].current].adapter # "none"
    BY <1>5, <2>1, <2>2 DEF Owned, Keeps
  <2>4. restart[s].pc # "discard" => Waits(rt'[c])
    BY <1>5, <2>1, <2>2 DEF Owned, Keeps
  <2>5. restart[s].pc \in {"preflight", "teardown", "activate"} => rt'[c].initialized
    BY <1>5, <2>1, <2>2 DEF Owned, Keeps, Waits
  <2> QED BY <1>4, <2>2, <2>3, <2>4, <2>5 DEF Owned
<1> QED BY <1>2, <1>3, <1>4, <1>5, <1>6 DEF Invariant, TypeOK, Keeps

-----------------------------------------------------------------------------
(* The steps of a replacement                                              *)

\* A replacement s goes on with its own candidate or current runtime r.
Turns(s, r, y) ==
  /\ rt' = [rt EXCEPT ![r] = y] /\ y \in RuntimeStates /\ SoundState(y)
  /\ y.adapter # "none"
  /\ restart' \in [Restarters -> RestartStates]
  /\ \A q \in Restarters \ {s} : restart'[q] = restart[q]
  /\ TablesOK'

\* It is enough to look at s, if no other replacement cares for r.
LEMMA TurnsKeepInvariant ==
    ASSUME Invariant, NEW s \in Restarters, NEW r \in Runtimes, NEW y, Turns(s, r, y),
           live' \in Runtimes,
           rt'[live'].adapter # "none",
           \A q \in Restarters \ {s} :
             restart[q].pc # "idle" => r # restart[q].candidate /\ live' # restart[q].candidate,
           restart'[s].pc # "idle" =>
             /\ Owned(s)'
             /\ \A q \in Restarters \ {s} : restart[q].pc # "idle" =>
                  restart'[s].current # restart[q].candidate
    PROVE  Invariant'
<1>1. \A q \in Runtimes : rt'[q] = IF q = r THEN y ELSE rt[q]
  BY DEF Invariant, TypeOK, Turns
<1>2. TypeOK'
  BY DEF Invariant, TypeOK, Turns, TablesOK
<1>3. AllSound'
  BY <1>1 DEF Invariant, AllSound, Turns
<1>4. ASSUME NEW q \in Restarters, q # s, restart[q].pc # "idle" PROVE Owned(q)'
  <2> DEFINE c == restart[q].candidate
  <2>1. Owned(q) /\ c \in Runtimes /\ restart[q].current \in Runtimes /\ restart'[q] = restart[q]
    BY <1>4 DEF Invariant, CandidatesAreOwned, TypeOK, RestartStates, Turns
  <2>2. c # live' /\ rt'[c] = rt[c]
    BY <1>1, <1>4, <2>1
  <2>3. rt'[restart[q].current].adapter # "none"
    BY <1>1, <1>4, <2>1 DEF Owned, Turns
  <2>4. ASSUME NEW p \in Restarters, restart'[p].pc # "idle"
        PROVE  restart'[p].current # c /\ (p # q => restart'[p].candidate # c)
    <3>1. CASE p = s
      BY <1>4, <2>1, <2>4, <3>1 DEF Owned
    <3>2. CASE p # s
      BY <1>4, <2>1, <2>4, <3>2 DEF Owned, Turns
    <3> QED BY <3>1, <3>2
  <2> QED BY <1>4, <2>1, <2>2, <2>3, <2>4 DEF Owned
<1>5. CandidatesAreOwned'
  <2> SUFFICES ASSUME NEW q \in Restarters, restart'[q].pc # "idle" PROVE Owned(q)'
    BY DEF CandidatesAreOwned, Owned
  <2> QED BY <1>4 DEF Turns
<1> QED BY <1>2, <1>3, <1>5 DEF Invariant

LEMMA OfOneReplacement ==
    ASSUME Invariant, NEW s \in Restarters, restart[s].pc # "idle"
    PROVE  /\ restart[s] \in RestartStates /\ Owned(s)
           /\ restart[s].candidate \in Runtimes /\ restart[s].current \in Runtimes
           /\ restart[s].current # restart[s].candidate
           /\ \A r \in Runtimes : rt[r] \in RuntimeStates /\ SoundState(rt[r])
           /\ \A q \in Restarters \ {s} : restart[q].pc # "idle" =>
                restart[q].candidate \notin {live, restart[s].candidate, restart[s].current}
           /\ TablesOK
<1>1. \A q \in Restarters : Owned(q) /\ restart[q] \in RestartStates
  BY DEF Invariant, CandidatesAreOwned, TypeOK
<1>2. \A r \in Runtimes : rt[r] \in RuntimeStates /\ SoundState(rt[r])
  BY DEF Invariant, AllSound, TypeOK
<1>3. restart[s].candidate \in Runtimes /\ restart[s].current \in Runtimes
  BY <1>1 DEF RestartStates
<1> QED BY <1>1, <1>2, <1>3 DEF Owned, Invariant, TypeOK, TablesOK

\* A step of s on its candidate leaves it in the state that the next step relies on.
LEMMA CandidateSteps ==
    ASSUME Invariant, NEW s \in Restarters, NEW from, NEW to, NEW y,
           Goes(s, from, to), from # "idle",
           [restart[s] EXCEPT !.pc = to] \in RestartStates,
           rt' = [rt EXCEPT ![restart[s].candidate] = y],
           y \in RuntimeStates, SoundState(y), y.adapter # "none",
           to # "idle" =>
             /\ y.adapter = "open"
             /\ to # "discard" => Waits(y)
             /\ to \in {"preflight", "teardown", "activate"} => y.initialized,
           live' = live, TablesOK'
    PROVE  Invariant'
<1> DEFINE c == restart[s].candidate
<1>1. restart[s].pc = from
  BY DEF Goes
<1>2. /\ restart[s] \in RestartStates /\ Owned(s) /\ c \in Runtimes /\ restart[s].current \in Runtimes
      /\ restart[s].current # c
      /\ \A q \in Restarters \ {s} : restart[q].pc # "idle" =>
           restart[q].candidate \notin {live, c, restart[s].current}
  BY <1>1, OfOneReplacement
<1>3. restart' = [restart EXCEPT ![s] = [restart[s] EXCEPT !.pc = to]]
  BY DEF Goes
<1>4. /\ restart'[s].pc = to /\ restart'[s].candidate = c
      /\ restart'[s].current = restart[s].current
  BY <1>2, <1>3 DEF Invariant, TypeOK, RestartStates
<1>5. Turns(s, c, y)
  BY <1>3 DEF Turns, Invariant, TypeOK
<1>6. \A q \in Runtimes : rt'[q] = IF q = c THEN y ELSE rt[q]
  BY DEF Invariant, TypeOK
<1>7. live \in Runtimes /\ rt'[live].adapter # "none"
  BY <1>6 DEF Invariant, TypeOK
<1>8. restart'[s].pc # "idle" => Owned(s)'
  <2> SUFFICES ASSUME to # "idle" PROVE Owned(s)'
    BY <1>4
  <2>1. rt'[c] = y /\ rt'[restart[s].current].adapter # "none" /\ c # live'
    BY <1>1, <1>2, <1>6 DEF Owned
  <2>2. \A q \in Restarters : restart'[q].pc # "idle" =>
          restart'[q].current # c /\ (q # s => restart'[q].candidate # c)
    BY <1>1, <1>2, <1>4, <1>5 DEF Owned, Turns
  <2> QED BY <1>4, <2>1, <2>2 DEF Owned
<1> HIDE DEF c
<1> QED BY <1>2, <1>4, <1>5, <1>7, <1>8, TurnsKeepInvariant

\* A step of s on the runtime it retires.
LEMMA CurrentSteps ==
    ASSUME Invariant, NEW s \in Restarters, NEW from, NEW to, NEW y,
           Goes(s, from, to), from \in {"preflight", "teardown"}, to \in {"teardown", "activate"},
           rt' = [rt EXCEPT ![restart[s].current] = y],
           y \in RuntimeStates, SoundState(y), y.adapter # "none",
           live' = live, TablesOK'
    PROVE  Invariant'
<1> DEFINE c == restart[s].candidate
           k == restart[s].current
<1>1. restart[s].pc = from
  BY DEF Goes
<1>2. /\ restart[s] \in RestartStates /\ Owned(s) /\ c \in Runtimes /\ k \in Runtimes /\ k # c
      /\ \A q \in Restarters \ {s} : restart[q].pc # "idle" =>
           restart[q].candidate \notin {live, c, k}
  BY <1>1, OfOneReplacement
<1>3. restart' = [restart EXCEPT ![s] = [restart[s] EXCEPT !.pc = to]]
  BY DEF Goes
<1>4. /\ restart'[s].pc = to /\ restart'[s].candidate = c /\ restart'[s].current = k
      /\ [restart[s] EXCEPT !.pc = to] \in RestartStates
  BY <1>2, <1>3 DEF Invariant, TypeOK, RestartStates
<1>5. Turns(s, k, y)
  BY <1>3, <1>4 DEF Turns, Invariant, TypeOK
<1>6. \A q \in Runtimes : rt'[q] = IF q = k THEN y ELSE rt[q]
  BY DEF Invariant, TypeOK
<1>7. live \in Runtimes /\ rt'[live].adapter # "none"
  BY <1>6 DEF Invariant, TypeOK
<1>8. Owned(s)'
  <2>1. rt'[c] = rt[c] /\ rt'[k].adapter # "none" /\ c # live'
    BY <1>1, <1>2, <1>6 DEF Owned
  <2>2. \A q \in Restarters : restart'[q].pc # "idle" =>
          restart'[q].current # c /\ (q # s => restart'[q].candidate # c)
    BY <1>1, <1>2, <1>4, <1>5 DEF Owned, Turns
  <2> QED BY <1>1, <1>2, <1>4, <2>1, <2>2 DEF Owned
<1> HIDE DEF c, k
<1> QED BY <1>2, <1>4, <1>5, <1>7, <1>8, TurnsKeepInvariant DEF k

\* Opening a runtime that nobody knows yet.
LEMMA OpenKeepsInvariant ==
    ASSUME Invariant, NEW s \in Restarters, NEW r \in Runtimes, Open(s, r)
    PROVE  Invariant'
<1> DEFINE x == [pc |-> "prepare", current |-> live, candidate |-> r]
<1>1. x \in RestartStates
  BY DEF RestartStates, Invariant, TypeOK
<1>2. restart' = [restart EXCEPT ![s] = x] /\ restart'[s] = x
  BY DEF Open, Invariant, TypeOK
<1>3. \A q \in Runtimes : rt'[q] = IF q = r THEN Opened ELSE rt[q]
  BY DEF Open, Invariant, TypeOK
<1>4. live' = live /\ live # r
  BY DEF Open, Invariant
<1>5. Opened.adapter # "none"
  BY OpenedIsSound DEF Waits
<1>6. Turns(s, r, Opened)
  BY <1>1, <1>2, <1>5, OpenedIsSound DEF Turns, Open, Invariant, TypeOK, TablesOK
<1>7. \A q \in Restarters \ {s} : restart[q].pc # "idle" =>
        /\ r # restart[q].candidate /\ live # restart[q].candidate /\ r # restart[q].current
  BY OfOneReplacement DEF Open, Owned
<1>8. rt'[live'].adapter # "none" /\ live' \in Runtimes
  BY <1>3, <1>4 DEF Invariant, TypeOK
<1>9. Owned(s)'
  <2>1. rt'[r] = Opened
    BY <1>3
  <2>2. \A q \in Restarters : restart'[q].pc # "idle" =>
          restart'[q].current # r /\ (q # s => restart'[q].candidate # r)
    BY <1>2, <1>4, <1>6, <1>7 DEF Turns
  <2> QED BY <1>2, <1>4, <1>5, <1>8, <2>1, <2>2, OpenedIsSound DEF Owned, Waits
<1> QED BY <1>2, <1>4, <1>6, <1>7, <1>8, <1>9, TurnsKeepInvariant

LEMMA PreparationKeepsInvariant ==
    ASSUME Invariant, NEW s \in Restarters,
           Prepare(s) \/ InitRecovers(s) \/ InitPublishes(s) \/ InitEnds(s) \/ Abandon(s)
    PROVE  Invariant'
<1> DEFINE c == restart[s].candidate
           x == rt[c]
<1> USE DEF Goes
<1>1. restart[s].pc \notin {"idle", "discard"}
  BY DEF Prepare, InitRecovers, InitPublishes, InitEnds, Abandon
<1>2. /\ Waits(x) /\ c \in Runtimes /\ x \in RuntimeStates /\ SoundState(x) /\ TablesOK
      /\ restart[s] \in RestartStates
  BY <1>1, OfOneReplacement DEF Owned
<1>3. \A to \in {"idle", "recover", "publish", "sweep", "abandon", "preflight"} :
        [restart[s] EXCEPT !.pc = to] \in RestartStates
  BY <1>2 DEF RestartStates
<1>4. /\ Closed(x) \in RuntimeStates /\ SoundState(Closed(x)) /\ Closed(x).adapter = "closed"
  BY <1>2, ClosedIsSound DEF Waits, Quiet
<1>5. rt = [rt EXCEPT ![c] = x]
  BY <1>2 DEF Invariant, TypeOK
<1>6. CASE Prepare(s)
  <2>1. live' = live /\ TablesOK'
    BY <1>2, <1>6, FaultIsCounted DEF Prepare, Sound, TablesOK
  <2>2. CASE Goes(s, "prepare", "recover") /\ rt' = [rt EXCEPT ![c] = JobsStopped(@)]
    <3>1. rt' = [rt EXCEPT ![c] = JobsStopped(x)]
      BY <2>2
    <3>2. /\ JobsStopped(x) \in RuntimeStates /\ SoundState(JobsStopped(x)) /\ Waits(JobsStopped(x))
          /\ JobsStopped(x).adapter = "open"
      BY <1>2, StoppedIsSound DEF Same, Waits
    <3> QED BY <1>1, <1>3, <2>1, <2>2, <3>1, <3>2, CandidateSteps
  <2>3. CASE Goes(s, "prepare", "idle") /\ rt' = [rt EXCEPT ![c] = Closed(@)]
    <3>1. rt' = [rt EXCEPT ![c] = Closed(x)]
      BY <2>3
    <3> QED BY <1>1, <1>3, <1>4, <2>1, <2>3, <3>1, CandidateSteps
  <2> QED BY <1>6, <2>2, <2>3 DEF Prepare
<1>7. CASE InitRecovers(s)
  <2>1. live' = live /\ TablesOK' /\ rt' = rt
    <3>1. jobs' \in [Jobs -> JobStates]
      <4>1. PICK j \in Jobs : TRUE
        BY RuntimeReplacementAssumption
      <4> QED BY <1>2, <1>7, JobUpdates DEF InitRecovers, TablesOK
    <3> QED BY <1>2, <1>7, <3>1, FaultIsCounted DEF InitRecovers, Sound, TablesOK
  <2>2. \E to \in {"publish", "abandon"} : Goes(s, "recover", to)
    BY <1>7 DEF InitRecovers
  <2> QED BY <1>1, <1>2, <1>3, <1>5, <2>1, <2>2, CandidateSteps DEF Waits
<1>8. CASE InitPublishes(s)
  <2> DEFINE y == [x EXCEPT !.timers = TRUE]
  <2>1. live' = live /\ TablesOK'
    BY <1>2, <1>8, FaultIsCounted DEF InitPublishes, Sound, TablesOK
  <2>2. CASE Goes(s, "publish", "sweep") /\ rt' = [rt EXCEPT ![c].timers = TRUE]
    <3>1. rt' = [rt EXCEPT ![c] = y]
      BY <2>2
    <3>2. y \in RuntimeStates /\ SoundState(y) /\ Waits(y) /\ y.adapter = "open"
      BY <1>2 DEF RuntimeStates, SoundState, Quiet, Waits
    <3> HIDE DEF y
    <3> QED BY <1>1, <1>3, <2>1, <2>2, <3>1, <3>2, CandidateSteps
  <2>3. CASE Goes(s, "publish", "abandon") /\ rt' = rt
    BY <1>1, <1>2, <1>3, <1>5, <2>1, <2>3, CandidateSteps DEF Waits
  <2> QED BY <1>8, <2>2, <2>3 DEF InitPublishes
<1>9. CASE InitEnds(s)
  <2> DEFINE y == [x EXCEPT !.initialized = TRUE]
  <2>1. live' = live /\ TablesOK' /\ Goes(s, "sweep", "preflight")
    BY <1>2, <1>9 DEF InitEnds, TablesOK
  <2>2. rt' = [rt EXCEPT ![c] = y]
    BY <1>9 DEF InitEnds
  <2>3. y \in RuntimeStates /\ SoundState(y) /\ Waits(y) /\ y.adapter = "open" /\ y.initialized
    BY <1>2 DEF RuntimeStates, SoundState, Quiet, Waits
  <2> HIDE DEF y
  <2> QED BY <1>1, <1>3, <2>1, <2>2, <2>3, CandidateSteps
<1>10. CASE Abandon(s)
  <2>1. live' = live /\ TablesOK' /\ Goes(s, "abandon", "idle")
    BY <1>2, <1>10 DEF Abandon, TablesOK
  <2>2. rt' = [rt EXCEPT ![c] = Closed(x)]
    BY <1>10 DEF Abandon
  <2> QED BY <1>1, <1>3, <1>4, <2>1, <2>2, CandidateSteps
<1> QED BY <1>6, <1>7, <1>8, <1>9, <1>10

LEMMA CutoverKeepsInvariant ==
    ASSUME Invariant, NEW s \in Restarters,
           \/ Preflight(s) \/ Discard(s) \/ Teardown(s)
           \/ Activate(s) \/ ActivateDegraded(s)
    PROVE  Invariant'
<1> DEFINE c == restart[s].candidate
           k == restart[s].current
           x == rt[c]
<1> USE DEF Goes
<1>1. restart[s].pc # "idle"
  BY DEF Preflight, Discard, Teardown, Activate, ActivateDegraded
<1>2. /\ c \in Runtimes /\ k \in Runtimes /\ restart[s] \in RestartStates /\ Owned(s) /\ TablesOK
      /\ \A r \in Runtimes : rt[r] \in RuntimeStates /\ SoundState(rt[r])
      /\ \A q \in Restarters \ {s} : restart[q].pc # "idle" =>
           restart[q].candidate \notin {live, c, k}
  BY <1>1, OfOneReplacement
<1>3. x.adapter = "open" /\ rt[k].adapter # "none"
  BY <1>1, <1>2 DEF Owned
<1>4. [restart[s] EXCEPT !.pc = "idle"] \in RestartStates
      /\ [restart[s] EXCEPT !.pc = "discard"] \in RestartStates
  BY <1>2 DEF RestartStates
<1>5. CASE Preflight(s)
  <2>1. live' = live /\ TablesOK'
    BY <1>2, <1>5, FaultIsCounted DEF Preflight, Sound, TablesOK
  <2>2. CASE Goes(s, "preflight", "teardown") /\ rt' = [rt EXCEPT ![k] = ShutdownStarts(@)]
    <3>1. rt' = [rt EXCEPT ![k] = ShutdownStarts(rt[k])]
      BY <2>2
    <3> QED BY <1>2, <1>3, <2>1, <2>2, <3>1, ShutdownIsSound, CurrentSteps
  <2>3. CASE Goes(s, "preflight", "discard") /\ rt' = [rt EXCEPT ![c] = ShutdownStarts(@)]
    <3>1. rt' = [rt EXCEPT ![c] = ShutdownStarts(x)]
      BY <2>3
    <3>2. /\ ShutdownStarts(x) \in RuntimeStates /\ SoundState(ShutdownStarts(x))
          /\ ShutdownStarts(x).adapter = "open"
      BY <1>2, <1>3, ShutdownIsSound
    <3> QED BY <1>4, <2>1, <2>3, <3>1, <3>2, CandidateSteps
  <2> QED BY <1>5, <2>2, <2>3 DEF Preflight
<1>6. CASE Discard(s)
  <2>1. live' = live /\ TablesOK' /\ Goes(s, "discard", "idle") /\ x.worker = "off"
    BY <1>2, <1>6 DEF Discard, TablesOK, Settled
  <2>2. rt' = [rt EXCEPT ![c] = Closed(x)]
    BY <1>6 DEF Discard
  <2> QED BY <1>2, <1>4, <2>1, <2>2, ClosedIsSound, CandidateSteps
<1>7. CASE Teardown(s)
  <2>1. live' = live /\ TablesOK' /\ Goes(s, "teardown", "activate") /\ rt[k].worker = "off"
    BY <1>2, <1>7 DEF Teardown, TablesOK, Settled
  <2>2. rt' = [rt EXCEPT ![k] = Closed(rt[k])]
    BY <1>7 DEF Teardown
  <2> QED BY <1>2, <2>1, <2>2, ClosedIsSound, CurrentSteps
<1>8. ASSUME Goes(s, "activate", "idle"), NEW y \in RuntimeStates, SoundState(y),
             y.adapter = "open", rt' = [rt EXCEPT ![c] = y], live' = c, TablesOK'
      PROVE  Invariant'
  <2>1. restart' = [restart EXCEPT ![s] = [restart[s] EXCEPT !.pc = "idle"]]
    BY <1>8
  <2>2. restart'[s].pc = "idle"
    BY <1>2, <2>1 DEF Invariant, TypeOK, RestartStates
  <2>3. Turns(s, c, y)
    BY <1>4, <1>8, <2>1 DEF Turns, Invariant, TypeOK
  <2>4. rt'[live'].adapter # "none"
    BY <1>2, <1>8 DEF Invariant, TypeOK
  <2> QED BY <1>2, <1>8, <2>2, <2>3, <2>4, TurnsKeepInvariant
<1>9. ASSUME restart[s].pc = "activate" PROVE Waits(x)
  BY <1>2, <1>9 DEF Owned
<1>10. CASE Activate(s)
  <2>1. Goes(s, "activate", "idle") /\ live' = c /\ rt' = [rt EXCEPT ![c] = JobsActive(x)] /\ TablesOK'
    BY <1>2, <1>10 DEF Activate, TablesOK
  <2> QED BY <1>2, <1>3, <1>8, <1>9, <2>1, ActiveIsSound DEF Same
<1>11. CASE ActivateDegraded(s)
  <2>1. Goes(s, "activate", "idle") /\ live' = c /\ TablesOK'
    BY <1>2, <1>11, FaultIsCounted DEF ActivateDegraded, TablesOK
  <2>2. PICK recovery \in {"off", "due"} :
          rt' = [rt EXCEPT ![c].jobStopped = FALSE, ![c].recovery = recovery]
    BY <1>11 DEF ActivateDegraded
  <2> DEFINE y == [x EXCEPT !.jobStopped = FALSE, !.recovery = recovery]
  <2>3. y \in RuntimeStates /\ SoundState(y) /\ y.adapter = "open"
    <3>1. x \in RuntimeStates /\ SoundState(x) /\ Waits(x)
      BY <1>2, <1>9, <2>1
    <3> QED BY <3>1 DEF RuntimeStates, SoundState, Quiet, Waits
  <2>4. rt' = [rt EXCEPT ![c] = y]
    BY <1>2, <2>2 DEF Invariant, TypeOK
  <2> HIDE DEF y
  <2> QED BY <1>8, <2>1, <2>3, <2>4
<1> QED BY <1>5, <1>6, <1>7, <1>10, <1>11

-----------------------------------------------------------------------------
(* Whoever calls restart                                                   *)

LEMMA InvariantInitially == Init => Invariant
<1> SUFFICES ASSUME Init PROVE Invariant
  OBVIOUS
<1> DEFINE x == [Opened EXCEPT !.initialized = TRUE, !.jobStopped = FALSE, !.timers = TRUE]
<1>1. \A r \in Runtimes : rt[r] = IF r = First THEN x ELSE NoRuntime
  BY DEF Init
<1>2. x \in RuntimeStates /\ SoundState(x) /\ x.adapter = "open"
  BY RuntimeReplacementAssumption DEF Opened, NoRuntime, RuntimeStates, SoundState, Quiet
<1>3. NoRuntime \in RuntimeStates /\ SoundState(NoRuntime)
  BY RuntimeReplacementAssumption DEF NoRuntime, RuntimeStates, SoundState, Quiet
<1> HIDE DEF x
<1>4. TypeOK
  BY <1>2, <1>3, RuntimeReplacementAssumption
  DEF Init, x, TypeOK, NoRestart, RestartStates, NoJob, JobStates
<1>5. AllSound
  BY <1>1, <1>2, <1>3 DEF AllSound
<1>6. rt[live].adapter # "none"
  BY <1>1, <1>2, RuntimeReplacementAssumption DEF Init
<1>7. CandidatesAreOwned
  BY DEF Init, NoRestart, CandidatesAreOwned, Owned
<1> QED BY <1>4, <1>5, <1>6, <1>7 DEF Invariant

\* The steps that are not those of a replacement.
RuntimesMove == \E r \in Runtimes : Moves(r)

LEMMA StepsOfNext ==
    ASSUME Invariant, Next
    PROVE  \/ RuntimesMove
           \/ \E s \in Restarters : RestartSteps(s) \/ ActivateDegraded(s)
           \/ \E s \in Restarters, r \in Runtimes : Open(s, r)
<1>1. ASSUME NEW r \in Runtimes, JobSteps(r) \/ ShutdownSteps(r) \/ SettlementFails(r)
      PROVE  RuntimesMove
  BY <1>1, WorkMoves, ShutdownMoves, FailureMoves DEF RuntimesMove
<1>2. ASSUME NEW r \in Runtimes, NEW j \in Jobs, ScheduleFires(r, j) PROVE RuntimesMove
  BY <1>2, ScheduleMoves DEF RuntimesMove
<1>3. ASSUME NEW j \in Jobs, Enqueue(j) \/ LeaseExpires(j) PROVE RuntimesMove
  BY <1>3, EnqueueMoves, LeaseMoves DEF RuntimesMove, Invariant, TypeOK
<1> QED BY <1>1, <1>2, <1>3 DEF Next

LEMMA NextKeepsInvariant == Invariant /\ [Next]_vars => Invariant'
<1> SUFFICES ASSUME Invariant, [Next]_vars PROVE Invariant'
  OBVIOUS
<1>1. CASE UNCHANGED vars
  BY <1>1 DEF vars, Invariant, TypeOK, AllSound, CandidatesAreOwned, Owned
<1>2. CASE Next
  <2>1. CASE RuntimesMove
    BY <2>1, MovesKeepInvariant DEF RuntimesMove
  <2>2. ASSUME NEW s \in Restarters, RestartSteps(s) \/ ActivateDegraded(s) PROVE Invariant'
    BY <2>2, PreparationKeepsInvariant, CutoverKeepsInvariant DEF RestartSteps
  <2>3. ASSUME NEW s \in Restarters, NEW r \in Runtimes, Open(s, r) PROVE Invariant'
    BY <2>3, OpenKeepsInvariant
  <2> QED BY <1>2, <2>1, <2>2, <2>3, StepsOfNext
<1> QED BY <1>1, <1>2

LEMMA InvariantHolds == Spec => []Invariant
BY InvariantInitially, NextKeepsInvariant, PTL DEF Spec

\* Whoever calls restart, and however often: a worker is settled before the shutdown hook of
\* its runtime runs and before its database connection closes.
THEOREM WorkSettlesBeforeTheHook == Spec => [](TypeOK /\ WorkSettlesFirst)
<1>1. Invariant => TypeOK /\ WorkSettlesFirst
  BY DEF Invariant, AllSound, SoundState, Quiet, WorkSettlesFirst
<1> QED BY <1>1, InvariantHolds, PTL

\* Whoever calls restart: the candidate of a replacement is its own until it is promoted or
\* discarded, and it starts no work before that.
THEOREM CandidatesWait == Spec => []CandidatesAreOwned
<1>1. Invariant => CandidatesAreOwned
  BY DEF Invariant
<1> QED BY <1>1, InvariantHolds, PTL

-----------------------------------------------------------------------------
(* One caller                                                              *)

LEMMA MovesKeepServing ==
    ASSUME OneInvariant, NEW r \in Runtimes, Moves(r)
    PROVE  Serving' /\ NothingLeaks'
<1> PICK y \in RuntimeStates : rt' = [rt EXCEPT ![r] = y] /\ SoundState(y) /\ Keeps(rt[r], y)
  BY DEF Moves
<1>1. \A q \in Runtimes : rt'[q] = IF q = r THEN y ELSE rt[q]
  BY DEF OneInvariant, Invariant, TypeOK
<1>2. \A q \in Runtimes : Keeps(rt[q], rt'[q])
  BY <1>1 DEF Keeps
<1>3. live' = live /\ restart' = restart /\ live \in Runtimes
  BY DEF Moves, OneInvariant, Invariant, TypeOK
<1>4. Serving'
  <2>1. Usable(live) => Usable(live)'
    BY <1>2, <1>3 DEF Usable, Keeps
  <2>2. rt'[live].adapter = rt[live].adapter
    BY <1>2, <1>3 DEF Keeps
  <2>3. \A q \in Runtimes \ {live} : Quiet(rt'[q])
    BY <1>2 DEF OneInvariant, Serving, Keeps
  <2> QED BY <1>3, <2>1, <2>2, <2>3 DEF OneInvariant, Serving, Retiring
<1>5. NothingLeaks'
  BY <1>2, <1>3 DEF OneInvariant, NothingLeaks, Keeps
<1> QED BY <1>4, <1>5

\* What s does to its candidate while the server's runtime serves on.
CandidateMoves(s) ==
  LET c == restart[s].candidate IN
  /\ live' = live /\ restart[s].pc \notin {"idle", "teardown", "activate"}
  /\ \A q \in Runtimes \ {c} : rt'[q] = rt[q]
  /\ Quiet(rt'[c])
  /\ restart'[s].pc \notin {"teardown", "activate"}
  /\ restart'[s].current = restart[s].current /\ restart'[s].candidate = c
  /\ restart'[s].pc = "idle" => rt'[c].adapter = "closed"

LEMMA AsideKeepsServing ==
    ASSUME OneRestarter, OneInvariant, NEW s \in Restarters, CandidateMoves(s)
    PROVE  Serving' /\ NothingLeaks'
<1> DEFINE c == restart[s].candidate
<1>1. \A q \in Restarters : q = s
  BY DEF OneRestarter
<1>2. c \in Runtimes /\ c # live /\ live \in Runtimes
  BY OfOneReplacement DEF CandidateMoves, Owned, OneInvariant, Invariant, TypeOK
<1>3. rt'[live] = rt[live] /\ live' = live
  BY <1>2 DEF CandidateMoves
<1>4. ~Retiring /\ ~Retiring'
  BY <1>1 DEF Retiring, CandidateMoves
<1>5. Usable(live)'
  BY <1>3, <1>4 DEF OneInvariant, Serving, Usable
<1>6. \A q \in Runtimes \ {live'} : Quiet(rt'[q])
  BY <1>3 DEF OneInvariant, Serving, CandidateMoves
<1>7. Serving'
  BY <1>1, <1>3, <1>4, <1>5, <1>6 DEF Serving, CandidateMoves, OneInvariant
<1>8. NothingLeaks'
  <2> SUFFICES ASSUME NEW q \in Runtimes, rt'[q].adapter = "open", q # live'
               PROVE  restart'[s].pc # "idle" /\ q = restart'[s].candidate
    BY DEF NothingLeaks
  <2>1. CASE q = c
    BY <2>1 DEF CandidateMoves
  <2>2. CASE q # c
    BY <1>1, <1>3, <2>2 DEF CandidateMoves, OneInvariant, NothingLeaks
  <2> QED BY <2>1, <2>2
<1> QED BY <1>7, <1>8

LEMMA PreparationStaysAside ==
    ASSUME OneInvariant, NEW s \in Restarters,
           \/ Prepare(s) \/ InitRecovers(s) \/ InitPublishes(s) \/ InitEnds(s) \/ Abandon(s)
           \/ Discard(s) \/ (Preflight(s) /\ ~Goes(s, "preflight", "teardown"))
    PROVE  CandidateMoves(s)
<1> DEFINE c == restart[s].candidate
           x == rt[c]
           pcs == {"idle", "recover", "publish", "sweep", "abandon", "preflight", "discard"}
           ys == {x, JobsStopped(x), Closed(x), ShutdownStarts(x),
                  [x EXCEPT !.timers = TRUE], [x EXCEPT !.initialized = TRUE]}
<1>1. restart[s].pc \notin {"idle", "teardown", "activate"}
  BY DEF Prepare, InitRecovers, InitPublishes, InitEnds, Abandon, Discard, Preflight, Goes
<1>2. /\ c \in Runtimes /\ x \in RuntimeStates /\ SoundState(x) /\ Quiet(x)
      /\ restart[s] \in RestartStates /\ rt = [rt EXCEPT ![c] = x]
  BY <1>1, OfOneReplacement DEF Owned, OneInvariant, Serving, Invariant, TypeOK
<1>3. live' = live
  BY DEF Prepare, InitRecovers, InitPublishes, InitEnds, Abandon, Discard, Preflight
<1>4. Quiet(Closed(x)) /\ Closed(x).adapter = "closed"
  BY <1>2, ClosedIsSound DEF Quiet
<1>5. Quiet(JobsStopped(x)) /\ Quiet(ShutdownStarts(x))
  BY <1>2, StoppedIsSound, ShutdownIsSound DEF Quiet
<1>6. Quiet([x EXCEPT !.timers = TRUE]) /\ Quiet([x EXCEPT !.initialized = TRUE])
  <2>1. /\ [x EXCEPT !.timers = TRUE].jobStopped = x.jobStopped
        /\ [x EXCEPT !.timers = TRUE].worker = x.worker
    BY <1>2 DEF RuntimeStates
  <2>2. /\ [x EXCEPT !.initialized = TRUE].jobStopped = x.jobStopped
        /\ [x EXCEPT !.initialized = TRUE].worker = x.worker
    BY <1>2 DEF RuntimeStates
  <2> QED BY <1>2, <2>1, <2>2, Zenon DEF Quiet
<1>7. \E to \in pcs, y \in ys :
       /\ restart' = [restart EXCEPT ![s].pc = to]
       /\ rt' = [rt EXCEPT ![c] = y] /\ Quiet(y)
       /\ to = "idle" => y.adapter = "closed"
  <2>1. CASE Prepare(s)
    <3>1. \/ restart' = [restart EXCEPT ![s].pc = "recover"] /\ rt' = [rt EXCEPT ![c] = JobsStopped(x)]
          \/ restart' = [restart EXCEPT ![s].pc = "idle"] /\ rt' = [rt EXCEPT ![c] = Closed(x)]
      BY <2>1 DEF Prepare, Goes
    <3> QED BY <1>4, <1>5, <3>1
  <2>2. CASE InitRecovers(s)
    <3>1. PICK to \in {"publish", "abandon"} : restart' = [restart EXCEPT ![s].pc = to]
      BY <2>2 DEF InitRecovers, Goes
    <3>2. rt' = rt
      BY <2>2 DEF InitRecovers
    <3> QED BY <1>2, <3>1, <3>2
  <2>3. CASE InitPublishes(s)
    <3>1. \/ /\ restart' = [restart EXCEPT ![s].pc = "sweep"]
             /\ rt' = [rt EXCEPT ![c] = [x EXCEPT !.timers = TRUE]]
          \/ restart' = [restart EXCEPT ![s].pc = "abandon"] /\ rt' = rt
      BY <2>3 DEF InitPublishes, Goes
    <3> QED BY <1>2, <1>6, <3>1
  <2>4. CASE InitEnds(s)
    <3>1. restart' = [restart EXCEPT ![s].pc = "preflight"]
          /\ rt' = [rt EXCEPT ![c] = [x EXCEPT !.initialized = TRUE]]
      BY <2>4 DEF InitEnds, Goes
    <3> QED BY <1>6, <3>1
  <2>5. CASE Abandon(s) \/ Discard(s)
    <3>1. restart' = [restart EXCEPT ![s].pc = "idle"] /\ rt' = [rt EXCEPT ![c] = Closed(x)]
      BY <2>5 DEF Abandon, Discard, Goes
    <3> QED BY <1>4, <3>1
  <2>6. CASE Preflight(s) /\ ~Goes(s, "preflight", "teardown")
    <3>1. restart' = [restart EXCEPT ![s].pc = "discard"] /\ rt' = [rt EXCEPT ![c] = ShutdownStarts(x)]
      BY <2>6 DEF Preflight, Goes
    <3> QED BY <1>5, <3>1
  <2> QED BY <2>1, <2>2, <2>3, <2>4, <2>5, <2>6
<1>8. PICK to \in pcs, y \in ys :
       /\ restart' = [restart EXCEPT ![s].pc = to]
       /\ rt' = [rt EXCEPT ![c] = y] /\ Quiet(y)
       /\ to = "idle" => y.adapter = "closed"
  BY <1>7
<1>9. restart \in [Restarters -> RestartStates] /\ rt \in [Runtimes -> RuntimeStates] /\ c \in Runtimes
  BY <1>2 DEF OneInvariant, Invariant, TypeOK
<1>10. restart' = [restart EXCEPT ![s].pc = to] /\ rt' = [rt EXCEPT ![c] = y]
  BY <1>8
<1> HIDE DEF x
<1>11. /\ restart'[s].pc = to /\ restart'[s].current = restart[s].current
       /\ restart'[s].candidate = c
  BY <1>9, <1>10 DEF RestartStates
<1>12. rt'[c] = y /\ \A q \in Runtimes \ {c} : rt'[q] = rt[q]
  BY <1>9, <1>10
<1>13. to \notin {"teardown", "activate"} /\ Quiet(rt'[c]) /\ (to = "idle" => rt'[c].adapter = "closed")
  BY <1>8, <1>12
<1> QED BY <1>1, <1>3, <1>11, <1>12, <1>13 DEF CandidateMoves

\* The cutover: the outgoing runtime is shut down, closed, and followed by the candidate.
LEMMA CutoverKeepsServing ==
    ASSUME OneRestarter, OneInvariant, NEW s \in Restarters,
           \/ Preflight(s) /\ Goes(s, "preflight", "teardown")
           \/ Teardown(s) \/ Activate(s) \/ ActivateDegraded(s)
    PROVE  Serving' /\ NothingLeaks'
<1> DEFINE c == restart[s].candidate
<1>1. \A q \in Restarters : q = s
  BY DEF OneRestarter
<1>2. restart[s].pc \in {"preflight", "teardown", "activate"}
  BY DEF Preflight, Teardown, Activate, ActivateDegraded, Goes
<1>3. /\ c \in Runtimes /\ c # live /\ live \in Runtimes /\ restart[s].current = live
      /\ rt[c] \in RuntimeStates /\ rt[live] \in RuntimeStates /\ SoundState(rt[live])
      /\ Waits(rt[c]) /\ SoundState(rt[c]) /\ rt[c].initialized /\ restart[s] \in RestartStates
  BY <1>2, OfOneReplacement DEF Owned, OneInvariant, Serving, Invariant, TypeOK
<1>4. \A q \in Runtimes \ {live, c} : Quiet(rt[q]) /\ rt[q].adapter # "open"
  BY <1>1, <1>2 DEF OneInvariant, Serving, NothingLeaks
<1>5. CASE Preflight(s) /\ Goes(s, "preflight", "teardown")
  <2>1. rt' = [rt EXCEPT ![live] = ShutdownStarts(rt[live])] /\ live' = live
    <3>1. restart'[s].pc = "teardown"
      BY <1>5 DEF Goes, OneInvariant, Invariant, TypeOK, RestartStates
    <3>2. ~Goes(s, "preflight", "discard")
      BY <3>1 DEF Goes, OneInvariant, Invariant, TypeOK, RestartStates
    <3> QED BY <1>3, <1>5, <3>2 DEF Preflight
  <2>2. \A q \in Runtimes \ {live} : rt'[q] = rt[q]
    BY <2>1 DEF OneInvariant, Invariant, TypeOK
  <2>3. restart'[s].pc = "teardown" /\ restart'[s].current = live /\ restart'[s].candidate = c
    BY <1>3, <1>5 DEF Goes, OneInvariant, Invariant, TypeOK, RestartStates
  <2>4. Retiring'
    BY <2>3 DEF Retiring
  <2>5. Serving'
    BY <1>1, <2>1, <2>2, <2>3, <2>4 DEF Serving, OneInvariant
  <2>6. NothingLeaks'
    BY <1>4, <2>1, <2>2, <2>3 DEF NothingLeaks
  <2> QED BY <2>5, <2>6
<1>6. CASE Teardown(s)
  <2>1. rt' = [rt EXCEPT ![live] = Closed(rt[live])] /\ live' = live /\ rt[live].worker = "off"
    BY <1>3, <1>6 DEF Teardown, Settled
  <2>2. Closed(rt[live]).adapter = "closed"
    BY <1>3, <2>1, ClosedIsSound
  <2>3. /\ \A q \in Runtimes \ {live} : rt'[q] = rt[q]
        /\ rt'[live].adapter = "closed"
    BY <1>3, <2>1, <2>2 DEF OneInvariant, Invariant, TypeOK
  <2>4. restart'[s].pc = "activate" /\ restart'[s].current = live /\ restart'[s].candidate = c
    BY <1>3, <1>6 DEF Teardown, Goes, OneInvariant, Invariant, TypeOK, RestartStates
  <2>5. Retiring'
    BY <2>4 DEF Retiring
  <2>6. Serving'
    BY <1>1, <2>1, <2>3, <2>4, <2>5 DEF Serving, OneInvariant
  <2>7. NothingLeaks'
    BY <1>4, <2>1, <2>3, <2>4 DEF NothingLeaks
  <2> QED BY <2>6, <2>7
<1>7. CASE Activate(s) \/ ActivateDegraded(s)
  <2>1. restart[s].pc = "activate" /\ rt[live].adapter = "closed" /\ live' = c
    BY <1>7 DEF Activate, ActivateDegraded, Goes, OneInvariant, Serving
  <2>2. Quiet(rt[live])
    BY <1>3, <2>1 DEF SoundState
  <2>3. /\ \A q \in Runtimes \ {c} : rt'[q] = rt[q]
        /\ rt'[c].adapter = "open" /\ rt'[c].initialized /\ rt'[c].down = "no"
    <3>1. CASE Activate(s)
      <4>1. rt' = [rt EXCEPT ![c] = JobsActive(rt[c])]
        BY <3>1 DEF Activate
      <4> QED BY <1>3, <4>1, ActiveIsSound DEF Same, Waits, OneInvariant, Invariant, TypeOK
    <3>2. CASE ActivateDegraded(s)
      <4>1. PICK recovery \in {"off", "due"} :
              rt' = [rt EXCEPT ![c].jobStopped = FALSE, ![c].recovery = recovery]
        BY <3>2 DEF ActivateDegraded
      <4>2. rt' = [rt EXCEPT ![c] = [rt[c] EXCEPT !.jobStopped = FALSE, !.recovery = recovery]]
        BY <1>3, <4>1 DEF OneInvariant, Invariant, TypeOK
      <4> QED BY <1>3, <4>2 DEF Waits, OneInvariant, Invariant, TypeOK, RuntimeStates
    <3> QED BY <1>7, <3>1, <3>2
  <2>4. restart'[s].pc = "idle"
    BY <1>7 DEF Activate, ActivateDegraded, Goes, OneInvariant, Invariant, TypeOK, RestartStates
  <2>5. Usable(live)'
    BY <2>1, <2>3 DEF Usable
  <2>6. \A q \in Runtimes \ {live'} : Quiet(rt'[q])
    BY <1>4, <2>1, <2>2, <2>3
  <2>7. Serving'
    BY <1>1, <2>4, <2>5, <2>6 DEF Serving
  <2>8. NothingLeaks'
    BY <1>4, <2>1, <2>3 DEF NothingLeaks
  <2> QED BY <2>7, <2>8
<1> QED BY <1>5, <1>6, <1>7

LEMMA OpenKeepsServing ==
    ASSUME OneRestarter, OneInvariant, NEW s \in Restarters, NEW r \in Runtimes, Open(s, r)
    PROVE  Serving' /\ NothingLeaks'
<1>1. \A q \in Restarters : q = s
  BY DEF OneRestarter
<1>2. /\ restart[s].pc = "idle" /\ live' = live /\ live \in Runtimes /\ r # live
      /\ restart'[s] = [pc |-> "prepare", current |-> live, candidate |-> r]
      /\ rt'[r] = Opened /\ \A q \in Runtimes \ {r} : rt'[q] = rt[q]
  BY DEF Open, OneInvariant, Invariant, TypeOK
<1>3. Usable(live)'
  BY <1>1, <1>2 DEF OneInvariant, Serving, Retiring, Usable
<1>4. Serving'
  BY <1>1, <1>2, <1>3, OpenedIsSound DEF OneInvariant, Serving, Waits
<1>5. NothingLeaks'
  BY <1>1, <1>2 DEF OneInvariant, NothingLeaks
<1> QED BY <1>4, <1>5

LEMMA OneInvariantInitially == Init => OneInvariant
<1> SUFFICES ASSUME Init PROVE OneInvariant
  OBVIOUS
<1> DEFINE x == [Opened EXCEPT !.initialized = TRUE, !.jobStopped = FALSE, !.timers = TRUE]
<1>1. Invariant
  BY InvariantInitially
<1>2. live = First /\ live \in Runtimes /\ \A s \in Restarters : restart[s].pc = "idle"
  BY RuntimeReplacementAssumption DEF Init, NoRestart
<1>3. \A r \in Runtimes : rt[r] = IF r = First THEN x ELSE NoRuntime
  BY DEF Init
<1>4. x.adapter = "open" /\ x.initialized /\ x.down = "no"
  BY DEF Opened, NoRuntime
<1>5. Quiet(NoRuntime) /\ NoRuntime.adapter # "open"
  BY DEF NoRuntime, Quiet
<1> HIDE DEF x
<1>6. Serving
  BY <1>2, <1>3, <1>4, <1>5 DEF Serving, Retiring, Usable
<1>7. NothingLeaks
  BY <1>2, <1>3, <1>5 DEF NothingLeaks
<1> QED BY <1>1, <1>6, <1>7 DEF OneInvariant

LEMMA NextKeepsOneInvariant == OneRestarter /\ OneInvariant /\ [Next]_vars => OneInvariant'
<1> SUFFICES ASSUME OneRestarter, OneInvariant, [Next]_vars PROVE OneInvariant'
  OBVIOUS
<1>1. Invariant'
  BY NextKeepsInvariant DEF OneInvariant
<1>2. Serving' /\ NothingLeaks'
  <2>1. CASE UNCHANGED vars
    BY <2>1 DEF vars, OneInvariant, Serving, Retiring, Usable, NothingLeaks
  <2>2. CASE RuntimesMove
    BY <2>2, MovesKeepServing DEF RuntimesMove
  <2>3. ASSUME NEW s \in Restarters, RestartSteps(s) \/ ActivateDegraded(s)
        PROVE  Serving' /\ NothingLeaks'
    BY <2>3, PreparationStaysAside, AsideKeepsServing, CutoverKeepsServing DEF RestartSteps
  <2>4. ASSUME NEW s \in Restarters, NEW r \in Runtimes, Open(s, r)
        PROVE  Serving' /\ NothingLeaks'
    BY <2>4, OpenKeepsServing
  <2> QED BY <2>1, <2>2, <2>3, <2>4, StepsOfNext DEF OneInvariant
<1> QED BY <1>1, <1>2 DEF OneInvariant

LEMMA OneInvariantHolds == ASSUME OneRestarter PROVE Spec => []OneInvariant
<1>1. OneInvariant /\ [Next]_vars => OneInvariant'
  BY NextKeepsOneInvariant
<1> QED BY <1>1, OneInvariantInitially, PTL DEF Spec

\* With one caller of restart, whatever step of a replacement fails: the server has a runtime
\* that works, its own or the candidate about to take over.
THEOREM ServerIsNeverStranded == ASSUME OneRestarter PROVE Spec => []NeverStranded
<1>1. OneInvariant => NeverStranded
  <2> SUFFICES ASSUME OneInvariant PROVE NeverStranded
    OBVIOUS
  <2>1. CASE ~Retiring
    BY <2>1 DEF OneInvariant, Serving, NeverStranded
  <2>2. ASSUME NEW s \in Restarters, restart[s].pc \in {"teardown", "activate"}
        PROVE  Usable(restart[s].candidate)
    BY <2>2 DEF OneInvariant, Invariant, CandidatesAreOwned, Owned, Waits, Usable
  <2> QED BY <2>1, <2>2 DEF Retiring, NeverStranded
<1> QED BY <1>1, OneInvariantHolds, PTL

\* With one caller of restart: a retired runtime is done with its work before another takes it
\* up, and with its database connection before the replacement is over.
THEOREM RetiredRuntimesAreQuiet == ASSUME OneRestarter PROVE Spec => []RetiredIsQuiet
<1>1. OneInvariant => RetiredIsQuiet
  <2> SUFFICES ASSUME OneInvariant PROVE RetiredIsQuiet
    OBVIOUS
  <2>1. OneExecutor
    BY DEF OneInvariant, Serving, Quiet, OneExecutor
  <2>2. WorkSettlesFirst
    BY DEF OneInvariant, Invariant, AllSound, SoundState, Quiet, WorkSettlesFirst
  <2> QED BY <2>1, <2>2 DEF OneInvariant, Invariant, RetiredIsQuiet
<1> QED BY <1>1, OneInvariantHolds, PTL

-----------------------------------------------------------------------------
(* File replacement: the inductive invariant                               *)

\* What a file is like before it was turned to, ...
Untouched(p) ==
  /\ target[p] = original[p] /\ temp[p] = "none" /\ backup[p] = "none"
  /\ ~had[p] /\ ~moved[p] /\ ~mayExist[p]

\* ... once it was looked at, ...
Looked(p) ==
  /\ target[p] = original[p] /\ backup[p] = "none"
  /\ had[p] = (original[p] # "none") /\ ~moved[p] /\ ~mayExist[p]

\* ... when its original is out of the way, and when the new one is in its place.
Aside(p) ==
  /\ target[p] = "none" /\ temp[p] = "new" /\ backup[p] = original[p]
  /\ had[p] = (original[p] # "none") /\ moved[p] = had[p] /\ ~mayExist[p]
Replaced(p) ==
  /\ target[p] = "new" /\ temp[p] = "none" /\ backup[p] = original[p]
  /\ had[p] = (original[p] # "none") /\ moved[p] = had[p] /\ mayExist[p]

\* What moving back may rely on: an original that was seen is in its backup, unless it was
\* never moved; one that was not seen was not touched.
ToUndo(p) ==
  /\ had[p] =>
       /\ original[p] = "old"
       /\ backup[p] = "none" => target[p] = "old" /\ ~moved[p]
  /\ ~had[p] =>
       /\ backup[p] = "none" /\ ~moved[p]
       /\ IF mayExist[p] THEN original[p] = "none" ELSE target[p] = original[p]

Found(p) == original[p] = "old" => "old" \in {target[p], backup[p]}

\* What moving back has reached: a file is as it was, or it is named and can be found.
Undone(p) ==
  Found(p) /\ (p \notin failures => target[p] = original[p] /\ backup[p] = "none")

Pcs == {"stat", "write", "backup", "replace", "restore", "retemp", "report",
        "untemp", "unbackup", "answer", "reported", "crashed"}

\* Where each file stands while new contents are staged and moved in, ...
Committing ==
  /\ pc = "stat" =>
       /\ entries = at - 1
       /\ \A p \in Files!Files : IF p < at THEN Looked(p) /\ temp[p] = "new" ELSE Untouched(p)
  /\ pc = "write" =>
       /\ entries = at
       /\ \A p \in Files!Files :
            /\ p < at => Looked(p) /\ temp[p] = "new"
            /\ p = at => Looked(p) /\ temp[p] = "none"
            /\ p > at => Untouched(p)
  /\ pc = "backup" =>
       /\ entries = FileCount
       /\ \A p \in Files!Files : IF p < at THEN Replaced(p) ELSE Looked(p) /\ temp[p] = "new"
  /\ pc = "replace" =>
       /\ entries = FileCount
       /\ \A p \in Files!Files :
            /\ p < at => Replaced(p)
            /\ p = at => Aside(p)
            /\ p > at => Looked(p) /\ temp[p] = "new"

\* ... while they are moved back, ...
Undoing ==
  /\ pc = "restore" =>
       /\ at <= entries
       /\ \A p \in Files!Files :
            /\ p < at => Undone(p)
            /\ p >= at /\ p <= entries => ToUndo(p)
            /\ p > entries => Untouched(p)
  /\ pc = "retemp" =>
       /\ at <= entries
       /\ \A p \in Files!Files :
            /\ Undone(p)
            /\ (p < at \/ p > entries) /\ p \notin failures => temp[p] = "none"
  /\ pc = "report" =>
       \A p \in Files!Files : Undone(p) /\ (p \notin failures => temp[p] = "none")

\* ... and while what is left over is removed.
CleaningUp ==
  /\ pc \in {"untemp", "unbackup"} =>
       \A p \in Files!Files :
         /\ target[p] = "new" /\ temp[p] = "none"
         /\ p < at /\ p \notin failures => backup[p] = "none"
  /\ pc = "answer" =>
       \A p \in Files!Files :
         target[p] = "new" /\ temp[p] = "none" /\ (p \notin failures => backup[p] = "none")

FilesInvariant ==
  /\ Files!TypeOK /\ pc \in Pcs /\ original \in [Files!Files -> {"none", "old"}]
  /\ Committing /\ Undoing /\ CleaningUp
  /\ pc # "reported" => report = "none"
  /\ Files!Recoverable /\ Files!ReportIsTrue /\ Files!LeftoversAreNamed

LEMMA FilesStart == ASSUME Files!Init PROVE FilesInvariant
<1>1. FileCount \in Nat \ {0} /\ FileFaults \in Nat
  BY FilesAssumption DEF Files!FileReplacementAssumption
<1>2. /\ pc = "stat" /\ at = 1 /\ entries = 0 /\ failures = {} /\ report = "none" /\ failedOps = 0
      /\ target = original /\ original \in [Files!Files -> {"none", "old"}]
      /\ temp = [p \in Files!Files |-> "none"] /\ backup = temp
      /\ had = [p \in Files!Files |-> FALSE] /\ moved = had /\ mayExist = had
  BY DEF Files!Init
<1>3. Files!TypeOK
  BY <1>1, <1>2 DEF Files!TypeOK, Files!Files, Files!Reports
<1>4. \A p \in Files!Files : Untouched(p)
  BY <1>2 DEF Untouched
<1>5. Committing
  BY <1>1, <1>2, <1>4 DEF Committing, Files!Files
<1>6. Undoing /\ CleaningUp
  BY <1>2 DEF Undoing, CleaningUp
<1>7. Files!Recoverable /\ Files!ReportIsTrue /\ Files!LeftoversAreNamed
  BY <1>2 DEF Files!Recoverable, Files!ReportIsTrue, Files!LeftoversAreNamed
<1> QED BY <1>2, <1>3, <1>5, <1>6, <1>7 DEF FilesInvariant, Pcs

\* The files as numbers, and what the invariant says of the types.
LEMMA FilesTypes ==
  ASSUME FilesInvariant
  PROVE  /\ FileCount \in Nat /\ FileCount >= 1 /\ FileFaults \in Nat
         /\ \A p \in Files!Files : p \in Nat /\ 1 <= p /\ p <= FileCount
         /\ \A p \in Nat : 1 <= p /\ p <= FileCount => p \in Files!Files
         /\ at \in Files!Files /\ at \in Nat /\ entries \in Nat /\ entries <= FileCount
         /\ target \in [Files!Files -> {"none", "old", "new"}]
         /\ temp \in [Files!Files -> {"none", "new"}]
         /\ backup \in [Files!Files -> {"none", "old"}]
         /\ had \in [Files!Files -> BOOLEAN] /\ moved \in [Files!Files -> BOOLEAN]
         /\ mayExist \in [Files!Files -> BOOLEAN]
         /\ original \in [Files!Files -> {"none", "old"}]
         /\ failures \subseteq Files!Files
BY FilesAssumption DEF FilesInvariant, Files!TypeOK, Files!Files, Files!FileReplacementAssumption

\* A step costs a number of faults within the bound.
LEMMA CostsAreBounded ==
  ASSUME FilesInvariant, NEW n \in Nat, Files!Costs(n) PROVE failedOps' \in 0..FileFaults
<1>1. failedOps \in Nat /\ failedOps' = failedOps + n /\ failedOps + n <= FileFaults
  BY DEF FilesInvariant, Files!TypeOK, Files!Costs
<1> QED BY <1>1, FilesTypes

\* From any step before the commit it can move back: nothing was removed.
LEMMA OriginalsAreFound ==
  ASSUME NEW p \in Files!Files, original \in [Files!Files -> {"none", "old"}],
         target \in [Files!Files -> {"none", "old", "new"}],
         backup \in [Files!Files -> {"none", "old"}],
         Untouched(p) \/ Looked(p) \/ Aside(p) \/ Replaced(p) \/ ToUndo(p) \/ Undone(p)
  PROVE  Found(p)
BY DEF Untouched, Looked, Aside, Replaced, ToUndo, Undone, Found

LEMMA FoundIsRecoverable ==
  ASSUME \A p \in Files!Files : Found(p) PROVE Files!Recoverable
BY DEF Found, Files!Recoverable

LEMMA AllCanBeUndone ==
  ASSUME NEW p, original[p] \in {"none", "old"}, target[p] \in {"none", "old", "new"},
         backup[p] \in {"none", "old"},
         Untouched(p) \/ Looked(p) \/ Aside(p) \/ Replaced(p)
  PROVE  ToUndo(p)
BY DEF Untouched, Looked, Aside, Replaced, ToUndo

\* Of a step that does not answer, it is enough to say where the files stand.
LEMMA UnansweredIsEnough ==
  ASSUME FilesInvariant, pc # "reported", UNCHANGED <<original, report>>,
         Files!TypeOK', pc' \in Pcs, Committing', Undoing', CleaningUp', Files!Recoverable'
  PROVE  FilesInvariant'
BY DEF FilesInvariant, Files!ReportIsTrue, Files!LeftoversAreNamed

\* The code may move back from wherever each file can be undone.
LEMMA MovingBackIsSafe ==
  ASSUME FilesInvariant, pc # "reported", UNCHANGED <<original, report>>,
         Files!TypeOK', Files!MovesBack, entries' >= 1,
         \A p \in Files!Files : IF p <= entries' THEN ToUndo(p)' ELSE Untouched(p)'
  PROVE  FilesInvariant'
<1>1. pc' = "restore" /\ at' = 1 /\ original' = original
  BY DEF Files!MovesBack, Files!Goes
<1>2. Undoing'
  BY <1>1, FilesTypes DEF Undoing, Files!TypeOK
<1>3. Committing' /\ CleaningUp'
  BY <1>1 DEF Committing, CleaningUp
<1>4. \A p \in Files!Files : Found(p)'
  BY <1>1, FilesTypes DEF ToUndo, Untouched, Found, Files!TypeOK
<1>5. Files!Recoverable'
  BY <1>4 DEF Found, Files!Recoverable
<1> QED BY <1>1, <1>2, <1>3, <1>5, UnansweredIsEnough DEF Pcs

LEMMA LookingIsSafe ==
  ASSUME FilesInvariant, Files!Stat PROVE FilesInvariant'
<1>1. /\ pc = "stat" /\ entries' = at /\ report' = report /\ failures' = failures
      /\ UNCHANGED <<target, temp, backup, original, moved, mayExist>>
  BY DEF Files!Stat, Files!disk
<1>2. \A p \in Files!Files : IF p < at THEN Looked(p) /\ temp[p] = "new" ELSE Untouched(p)
  BY <1>1 DEF FilesInvariant, Committing
<1>3. \A p \in Files!Files : Found(p)
  BY <1>2, FilesTypes, OriginalsAreFound
<1>4. Files!Recoverable'
  BY <1>1, <1>3, FoundIsRecoverable DEF Files!Recoverable, Found, Files!AllNew
<1>5. CASE had' = [had EXCEPT ![at] = target[at] # "none"] /\ Files!Goes("write", at) /\ Files!Costs(0)
  <2>1. pc' = "write" /\ at' = at
    BY <1>5 DEF Files!Goes
  <2>2. Files!TypeOK'
    BY <1>1, <1>5, <2>1, FilesTypes, CostsAreBounded DEF FilesInvariant, Files!TypeOK
  <2>3. ASSUME NEW p \in Files!Files
        PROVE  /\ p < at => Looked(p)' /\ temp'[p] = "new"
               /\ p = at => Looked(p)' /\ temp'[p] = "none"
               /\ p > at => Untouched(p)'
    BY <1>1, <1>2, <1>5, FilesTypes DEF Looked, Untouched
  <2>4. Committing'
    BY <1>1, <2>1, <2>3 DEF Committing
  <2>5. Undoing' /\ CleaningUp'
    BY <2>1 DEF Undoing, CleaningUp
  <2> QED BY <1>1, <1>4, <2>1, <2>2, <2>4, <2>5, UnansweredIsEnough DEF Pcs
<1>6. CASE Files!MovesBack /\ Files!Costs(1) /\ UNCHANGED had
  <2>1. pc' = "restore" /\ at' = 1
    BY <1>6 DEF Files!MovesBack, Files!Goes
  <2>2. Files!TypeOK'
    BY <1>1, <1>6, <2>1, FilesTypes, CostsAreBounded DEF FilesInvariant, Files!TypeOK
  <2>3. ASSUME NEW p \in Files!Files
        PROVE  IF p <= entries' THEN ToUndo(p)' ELSE Untouched(p)'
    <3>1. ToUndo(p)
      BY <1>2, FilesTypes, AllCanBeUndone
    <3> QED BY <1>1, <1>2, <1>6, <3>1, FilesTypes DEF ToUndo, Untouched
  <2> QED BY <1>1, <1>6, <2>2, <2>3, FilesTypes, MovingBackIsSafe
<1> QED BY <1>1, <1>5, <1>6 DEF Files!Stat

LEMMA WritingIsSafe ==
  ASSUME FilesInvariant, Files!Write PROVE FilesInvariant'
<1>1. /\ pc = "write" /\ UNCHANGED <<target, backup, original, had, moved, mayExist>>
      /\ UNCHANGED <<entries, failures, report>>
  BY DEF Files!Write, Files!notes
<1>2. /\ entries = at
      /\ \A p \in Files!Files :
           /\ p < at => Looked(p) /\ temp[p] = "new"
           /\ p = at => Looked(p) /\ temp[p] = "none"
           /\ p > at => Untouched(p)
  BY <1>1 DEF FilesInvariant, Committing
<1>3. \A p \in Files!Files : Untouched(p) \/ Looked(p)
  BY <1>2, FilesTypes
<1>4. CASE temp' = [temp EXCEPT ![at] = "new"] /\ Files!Loops("stat", FileCount, "backup") /\ Files!Costs(0)
  <2>1. IF at = FileCount THEN pc' = "backup" /\ at' = 1 ELSE pc' = "stat" /\ at' = at + 1
    BY <1>4 DEF Files!Loops, Files!Goes
  <2>2. Files!TypeOK'
    BY <1>1, <1>4, <2>1, FilesTypes, CostsAreBounded DEF FilesInvariant, Files!TypeOK
  <2>3. \A p \in Files!Files : IF p <= at THEN Looked(p)' /\ temp'[p] = "new" ELSE Untouched(p)'
    BY <1>1, <1>2, <1>4, FilesTypes DEF Looked, Untouched
  <2>4. Committing'
    BY <1>1, <1>2, <2>1, <2>3, FilesTypes DEF Committing
  <2>5. Undoing' /\ CleaningUp'
    BY <2>1 DEF Undoing, CleaningUp
  <2>6. \A p \in Files!Files : Found(p)
    BY <1>3, FilesTypes, OriginalsAreFound
  <2>7. Files!Recoverable'
    BY <1>1, <2>6 DEF Files!Recoverable, Found
  <2> QED BY <1>1, <2>1, <2>2, <2>4, <2>5, <2>7, UnansweredIsEnough DEF Pcs
<1>5. CASE temp' \in {temp, [temp EXCEPT ![at] = "new"]} /\ Files!MovesBack /\ Files!Costs(1)
  <2>1. pc' = "restore" /\ at' = 1
    BY <1>5 DEF Files!MovesBack, Files!Goes
  <2>2. Files!TypeOK'
    BY <1>1, <1>5, <2>1, FilesTypes, CostsAreBounded DEF FilesInvariant, Files!TypeOK
  <2>3. ASSUME NEW p \in Files!Files
        PROVE  IF p <= entries' THEN ToUndo(p)' ELSE Untouched(p)'
    <3>1. ToUndo(p)
      BY <1>3, FilesTypes, AllCanBeUndone
    <3> QED BY <1>1, <1>2, <1>5, <3>1, FilesTypes DEF ToUndo, Untouched
  <2> QED BY <1>1, <1>2, <1>5, <2>2, <2>3, FilesTypes, MovingBackIsSafe
<1> QED BY <1>4, <1>5 DEF Files!Write

LEMMA BackupIsSafe ==
  ASSUME FilesInvariant, Files!Backup PROVE FilesInvariant'
<1>1. /\ pc = "backup" /\ UNCHANGED <<temp, original, had, mayExist, entries, failures, report>>
  BY DEF Files!Backup
<1>2. /\ entries = FileCount
      /\ \A p \in Files!Files : IF p < at THEN Replaced(p) ELSE Looked(p) /\ temp[p] = "new"
  BY <1>1 DEF FilesInvariant, Committing
<1>3. \A p \in Files!Files : p < at \/ p = at \/ p > at
  BY FilesTypes
<1>4. CASE Files!Goes("replace", at) /\ Files!Costs(0)
           /\ ((~had[at] /\ UNCHANGED <<target, backup, moved>>)
               \/ (had[at] /\ Files!MoveAside /\ moved' = [moved EXCEPT ![at] = TRUE]))
  <2>1. pc' = "replace" /\ at' = at
    BY <1>4 DEF Files!Goes
  <2>2. had[at] => target[at] = "old"
    BY <1>2, FilesTypes DEF Looked
  <2>9. failedOps' \in 0..FileFaults
    BY <1>4, CostsAreBounded
  <2>3. Files!TypeOK'
    <3>1. CASE ~had[at] /\ UNCHANGED <<target, backup, moved>>
      BY <1>1, <2>1, <2>9, <3>1 DEF FilesInvariant, Files!TypeOK
    <3>2. CASE had[at] /\ Files!MoveAside /\ moved' = [moved EXCEPT ![at] = TRUE]
      <4>1. /\ target' \in [Files!Files -> {"none", "old", "new"}]
            /\ backup' \in [Files!Files -> {"none", "old"}]
            /\ moved' \in [Files!Files -> BOOLEAN]
        BY <2>2, <3>2, FilesTypes DEF Files!MoveAside
      <4> QED BY <1>1, <2>1, <2>9, <4>1 DEF FilesInvariant, Files!TypeOK
    <3> QED BY <1>4, <3>1, <3>2
  <2>4. ASSUME NEW p \in Files!Files
        PROVE  /\ p < at => Replaced(p)'
               /\ p = at => Aside(p)'
               /\ p > at => Looked(p)' /\ temp'[p] = "new"
    <3>1. CASE p = at
      <4>1. Looked(p) /\ temp[p] = "new"
        BY <1>2, <3>1, FilesTypes
      <4>2. CASE ~had[at] /\ UNCHANGED <<target, backup, moved>>
        <5>1. original[p] = "none"
          BY <3>1, <4>1, <4>2 DEF Looked
        <5> QED BY <1>1, <3>1, <4>1, <4>2, <5>1, FilesTypes DEF Looked, Aside
      <4>3. CASE had[at] /\ Files!MoveAside /\ moved' = [moved EXCEPT ![at] = TRUE]
        <5>1. target'[p] = "none" /\ backup'[p] = target[p] /\ moved'[p]
          BY <3>1, <4>3, FilesTypes DEF Files!MoveAside
        <5>2. moved'[p] = had'[p]
          BY <1>1, <3>1, <4>3, FilesTypes
        <5>3. Aside(p)'
          BY <1>1, <4>1, <5>1, <5>2 DEF Looked, Aside
        <5> QED BY <3>1, <5>3, FilesTypes
      <4> QED BY <1>4, <4>2, <4>3
    <3>2. CASE p # at
      <4>1. target'[p] = target[p] /\ backup'[p] = backup[p] /\ moved'[p] = moved[p]
        <5>1. CASE UNCHANGED <<target, backup, moved>>
          BY <5>1
        <5>2. CASE Files!MoveAside /\ moved' = [moved EXCEPT ![at] = TRUE]
          BY <3>2, <5>2, FilesTypes DEF Files!MoveAside
        <5> QED BY <1>4, <5>1, <5>2
      <4>2. CASE p < at
        <5>1. Replaced(p)
          BY <1>2, <4>2
        <5> QED BY <1>1, <3>2, <4>1, <4>2, <5>1, FilesTypes DEF Replaced
      <4>3. CASE p > at
        <5>1. Looked(p) /\ temp[p] = "new"
          BY <1>2, <4>3, FilesTypes
        <5> QED BY <1>1, <3>2, <4>1, <4>3, <5>1, FilesTypes DEF Looked
      <4> QED BY <1>3, <3>2, <4>2, <4>3
    <3> QED BY <3>1, <3>2
  <2>5. Committing'
    BY <1>1, <1>2, <2>1, <2>4 DEF Committing
  <2>6. Undoing' /\ CleaningUp'
    BY <2>1 DEF Undoing, CleaningUp
  <2>7. \A p \in Files!Files : Found(p)'
    BY <1>1, <1>3, <2>4, FilesTypes DEF Found, Replaced, Aside, Looked
  <2>8. Files!Recoverable'
    BY <2>7 DEF Files!Recoverable, Found
  <2> QED BY <1>1, <2>1, <2>3, <2>5, <2>6, <2>8, UnansweredIsEnough DEF Pcs
<1>5. CASE /\ had[at] /\ (Files!MoveAside \/ UNCHANGED <<target, backup>>)
           /\ Files!MovesBack /\ Files!Costs(1) /\ UNCHANGED moved
  <2>1. pc' = "restore" /\ at' = 1
    BY <1>5 DEF Files!MovesBack, Files!Goes
  <2>2. target[at] = "old" /\ original[at] = "old" /\ ~moved[at]
    BY <1>2, <1>5, FilesTypes DEF Looked
  <2>3. Files!TypeOK'
    BY <1>1, <1>5, <2>1, <2>2, FilesTypes, CostsAreBounded
       DEF FilesInvariant, Files!TypeOK, Files!MoveAside
  <2>4. ASSUME NEW p \in Files!Files PROVE ToUndo(p)'
    <3>1. ToUndo(p)
      BY <1>2, FilesTypes, AllCanBeUndone
    <3>2. CASE p = at
      BY <1>1, <1>5, <2>2, <3>2, FilesTypes DEF ToUndo, Files!MoveAside
    <3>3. CASE p # at
      BY <1>1, <1>5, <3>1, <3>3, FilesTypes DEF ToUndo, Files!MoveAside
    <3> QED BY <3>2, <3>3
  <2> QED BY <1>1, <1>2, <1>5, <2>3, <2>4, FilesTypes, MovingBackIsSafe
<1> QED BY <1>4, <1>5 DEF Files!Backup

LEMMA ReplaceIsSafe ==
  ASSUME FilesInvariant, Files!Replace PROVE FilesInvariant'
<1>1. /\ pc = "replace" /\ mayExist' = [mayExist EXCEPT ![at] = TRUE]
      /\ UNCHANGED <<backup, original, had, moved, entries, failures, report>>
  BY DEF Files!Replace
<1>2. /\ entries = FileCount
      /\ \A p \in Files!Files :
            /\ p < at => Replaced(p)
            /\ p = at => Aside(p)
            /\ p > at => Looked(p) /\ temp[p] = "new"
  BY <1>1 DEF FilesInvariant, Committing
<1>3. \A p \in Files!Files : p < at \/ p = at \/ p > at
  BY FilesTypes
<1>4. CASE Files!MoveIn /\ Files!Loops("backup", FileCount, "untemp") /\ Files!Costs(0)
  <2>1. IF at = FileCount THEN pc' = "untemp" /\ at' = 1 ELSE pc' = "backup" /\ at' = at + 1
    BY <1>4 DEF Files!Loops, Files!Goes
  <2>2. Files!TypeOK'
    BY <1>1, <1>4, <2>1, FilesTypes, CostsAreBounded DEF FilesInvariant, Files!TypeOK, Files!MoveIn
  <2>3. \A p \in Files!Files : IF p <= at THEN Replaced(p)' ELSE Looked(p)' /\ temp'[p] = "new"
    BY <1>1, <1>2, <1>4, FilesTypes DEF Looked, Aside, Replaced, Files!MoveIn
  <2>4. Committing'
    BY <1>1, <1>2, <2>1, <2>3, FilesTypes DEF Committing
  <2>5. CleaningUp'
    BY <2>1, <2>3, FilesTypes DEF CleaningUp, Replaced
  <2>6. Undoing'
    BY <2>1 DEF Undoing
  <2>7. \A p \in Files!Files : Found(p)'
    BY <1>1, <2>3, FilesTypes DEF Found, Replaced, Looked
  <2>8. Files!Recoverable'
    BY <2>7 DEF Files!Recoverable, Found
  <2> QED BY <1>1, <2>1, <2>2, <2>4, <2>5, <2>6, <2>8, UnansweredIsEnough DEF Pcs
<1>5. CASE (Files!MoveIn \/ UNCHANGED <<target, temp>>) /\ Files!MovesBack /\ Files!Costs(1)
  <2>1. pc' = "restore" /\ at' = 1
    BY <1>5 DEF Files!MovesBack, Files!Goes
  <2>2. Files!TypeOK'
    BY <1>1, <1>5, <2>1, FilesTypes, CostsAreBounded DEF FilesInvariant, Files!TypeOK, Files!MoveIn
  <2>3. ASSUME NEW p \in Files!Files PROVE ToUndo(p)'
    <3>1. ToUndo(p)
      BY <1>2, <1>3, FilesTypes, AllCanBeUndone
    <3>2. CASE p = at
      BY <1>1, <1>2, <1>5, <3>2, FilesTypes DEF ToUndo, Aside, Files!MoveIn
    <3>3. CASE p # at
      BY <1>1, <1>5, <3>1, <3>3, FilesTypes DEF ToUndo, Files!MoveIn
    <3> QED BY <3>2, <3>3
  <2> QED BY <1>1, <1>2, <1>5, <2>2, <2>3, FilesTypes, MovingBackIsSafe
<1> QED BY <1>4, <1>5 DEF Files!Replace

\* The state while files are moved back, and that the loop goes on to the next or ends.
LEMMA UndoingGoesOn ==
  ASSUME FilesInvariant, pc = "restore", Files!NextBack, UNCHANGED <<original, report, entries, temp>>,
         Files!TypeOK',
         \A p \in Files!Files : p = at => Undone(p)',
         \A p \in Files!Files \ {at} :
           /\ UNCHANGED <<target[p], backup[p], had[p], moved[p], mayExist[p]>>
           /\ p \in failures' <=> p \in failures
  PROVE  FilesInvariant'
<1>1. IF at = entries THEN pc' = "retemp" /\ at' = 1 ELSE pc' = "restore" /\ at' = at + 1
  BY DEF Files!NextBack, Files!Loops, Files!Goes
<1>2. /\ at <= entries
      /\ \A p \in Files!Files :
            /\ p < at => Undone(p)
            /\ p >= at /\ p <= entries => ToUndo(p)
            /\ p > entries => Untouched(p)
  BY DEF FilesInvariant, Undoing
<1>3. \A p \in Files!Files : p <= at => Undone(p)'
  <2>1. ASSUME NEW p \in Files!Files, p < at PROVE Undone(p)'
    BY <1>2, <2>1, FilesTypes DEF Undone, Found
  <2>2. \A p \in Files!Files : p <= at => p < at \/ p = at
    BY FilesTypes
  <2> QED BY <2>1, <2>2
<1>4. \A p \in Files!Files : p > at /\ p <= entries => ToUndo(p)'
  BY <1>2, FilesTypes DEF ToUndo
<1>5. \A p \in Files!Files : p > entries => Untouched(p)'
  BY <1>2, FilesTypes DEF Untouched
<1>6. \A p \in Files!Files : p > entries => Undone(p)'
  BY <1>5 DEF Untouched, Undone, Found
<1>7. CASE at = entries
  <2>1. \A p \in Files!Files : Undone(p)' /\ (p > entries => temp'[p] = "none")
    BY <1>3, <1>5, <1>6, <1>7, FilesTypes DEF Untouched
  <2>2. Undoing'
    BY <1>1, <1>7, <2>1, FilesTypes DEF Undoing
  <2>3. Files!Recoverable'
    BY <2>1 DEF Undone, Found, Files!Recoverable
  <2>4. Committing' /\ CleaningUp'
    BY <1>1, <1>7 DEF Committing, CleaningUp
  <2> QED BY <1>1, <1>7, <2>2, <2>3, <2>4, UnansweredIsEnough DEF Pcs
<1>8. CASE at # entries
  <2>1. pc' = "restore" /\ at' = at + 1 /\ at + 1 <= entries
    BY <1>1, <1>2, <1>8, FilesTypes
  <2>2. Undoing'
    BY <1>3, <1>4, <1>5, <2>1, FilesTypes DEF Undoing
  <2>3. \A p \in Files!Files : Found(p)'
    BY <1>3, <1>4, <1>5, FilesTypes DEF Undone, ToUndo, Untouched, Found, Files!TypeOK
  <2>4. Files!Recoverable'
    BY <2>3 DEF Found, Files!Recoverable
  <2>5. Committing' /\ CleaningUp'
    BY <2>1 DEF Committing, CleaningUp
  <2> QED BY <2>1, <2>2, <2>4, <2>5, UnansweredIsEnough DEF Pcs
<1> QED BY <1>7, <1>8

\* An answer "no" is right; "yes" may be wrong.
LEMMA LooksAreTrueOf ==
  ASSUME NEW there \in BOOLEAN, NEW look \in Files!Looks(there)
  PROVE  look[1] \in BOOLEAN /\ look[2] \in {0, 1} /\ (~look[1] => ~there)
<1>1. look = <<there, 0>> \/ look = <<TRUE, 1>>
  BY DEF Files!Looks
<1>2. CASE look = <<there, 0>>
  <2>1. look[1] = there /\ look[2] = 0
    BY <1>2
  <2> QED BY <2>1
<1>3. CASE look = <<TRUE, 1>>
  <2>1. look[1] = TRUE /\ look[2] = 1
    BY <1>3
  <2> QED BY <2>1
<1> QED BY <1>1, <1>2, <1>3

LEMMA RestoringIsSafe ==
  ASSUME FilesInvariant, Files!Restore PROVE FilesInvariant'
<1>1. /\ pc = "restore" /\ had[at] /\ Files!NextBack
      /\ UNCHANGED <<temp, original, had, mayExist, entries, report>>
  BY DEF Files!Restore
<1>2. ToUndo(at)
  BY <1>1, FilesTypes DEF FilesInvariant, Undoing
<1>3. original[at] = "old" /\ (backup[at] = "none" => target[at] = "old" /\ ~moved[at])
  BY <1>1, <1>2 DEF ToUndo
<1>4. PICK exists \in Files!Looks(backup[at] # "none") :
       \/ /\ ~exists[1] /\ Files!Costs(exists[2])
          /\ Files!Names(at, moved[at]) /\ UNCHANGED <<target, backup, moved>>
       \/ /\ exists[1] /\ backup[at] # "none" /\ Files!Costs(exists[2])
          /\ Files!PutBack /\ moved' = [moved EXCEPT ![at] = FALSE] /\ UNCHANGED failures
       \/ /\ exists[1]
          /\ (backup[at] # "none" /\ Files!PutBack) \/ UNCHANGED <<target, backup>>
          /\ \E remains \in Files!Looks(backup'[at] # "none"),
                present \in Files!Looks(target'[at] # "none") :
               LET back == ~remains[1] /\ present[1] IN
               /\ Files!Costs(1 + remains[2] + present[2])
               /\ Files!Names(at, ~back) /\ moved' = [moved EXCEPT ![at] = @ /\ ~back]
  BY DEF Files!Restore
<1>5. exists[1] \in BOOLEAN /\ exists[2] \in {0, 1} /\ (~exists[1] => backup[at] = "none")
  BY <1>4, LooksAreTrueOf
<1> DEFINE Step ==
      /\ failedOps' \in 0..FileFaults
      /\ target' \in [Files!Files -> {"none", "old", "new"}]
      /\ backup' \in [Files!Files -> {"none", "old"}]
      /\ moved' \in [Files!Files -> BOOLEAN] /\ failures' \subseteq Files!Files
      /\ \A p \in Files!Files \ {at} :
           /\ UNCHANGED <<target[p], backup[p], moved[p]>>
           /\ p \in failures' <=> p \in failures
      /\ "old" \in {target'[at], backup'[at]}
      /\ at \notin failures' => target'[at] = "old" /\ backup'[at] = "none"
<1>6. ASSUME /\ ~exists[1] /\ Files!Costs(exists[2])
             /\ Files!Names(at, moved[at]) /\ UNCHANGED <<target, backup, moved>>
      PROVE  Step
  <2>1. failedOps' \in 0..FileFaults
    BY <1>5, <1>6, CostsAreBounded
  <2>2. backup[at] = "none" /\ target[at] = "old" /\ ~moved[at]
    BY <1>3, <1>5, <1>6
  <2>3. failures' = failures
    BY <1>6, <2>2 DEF Files!Names
  <2>4. Step
    BY <1>6, <2>1, <2>2, <2>3, FilesTypes
  <2> QED BY <2>4
<1>7. ASSUME /\ exists[1] /\ backup[at] # "none" /\ Files!Costs(exists[2])
             /\ Files!PutBack /\ moved' = [moved EXCEPT ![at] = FALSE] /\ UNCHANGED failures
      PROVE  Step
  <2>1. failedOps' \in 0..FileFaults
    BY <1>5, <1>7, CostsAreBounded
  <2>2. backup[at] = "old"
    BY <1>7, FilesTypes
  <2>3. /\ target' = [target EXCEPT ![at] = "old"] /\ backup' = [backup EXCEPT ![at] = "none"]
        /\ moved' = [moved EXCEPT ![at] = FALSE] /\ failures' = failures
    BY <1>7, <2>2 DEF Files!PutBack
  <2>4. Step
    BY <2>1, <2>3, FilesTypes
  <2> QED BY <2>4
<1>8. ASSUME /\ exists[1]
             /\ (backup[at] # "none" /\ Files!PutBack) \/ UNCHANGED <<target, backup>>
             /\ \E remains \in Files!Looks(backup'[at] # "none"),
                  present \in Files!Looks(target'[at] # "none") :
                 LET back == ~remains[1] /\ present[1] IN
                 /\ Files!Costs(1 + remains[2] + present[2])
                 /\ Files!Names(at, ~back) /\ moved' = [moved EXCEPT ![at] = @ /\ ~back]
      PROVE  Step
  <2>1. \/ /\ target' = [target EXCEPT ![at] = "old"] /\ backup' = [backup EXCEPT ![at] = "none"]
        \/ UNCHANGED <<target, backup>> /\ (backup[at] = "none" => target[at] = "old")
    <3>1. CASE UNCHANGED <<target, backup>>
      BY <1>3, <3>1
    <3>2. CASE backup[at] # "none" /\ Files!PutBack
      <4>1. backup[at] = "old"
        BY <3>2, FilesTypes
      <4> QED BY <3>2, <4>1 DEF Files!PutBack
    <3> QED BY <1>8, <3>1, <3>2
  <2>2. /\ target' \in [Files!Files -> {"none", "old", "new"}]
        /\ backup' \in [Files!Files -> {"none", "old"}]
        /\ \A p \in Files!Files \ {at} : UNCHANGED <<target[p], backup[p]>>
        /\ "old" \in {target'[at], backup'[at]}
        /\ backup'[at] = "none" => target'[at] = "old"
    BY <2>1, FilesTypes
  <2>3. PICK remains \in Files!Looks(backup'[at] # "none"),
             present \in Files!Looks(target'[at] # "none") :
          /\ Files!Costs(1 + remains[2] + present[2])
          /\ Files!Names(at, ~(~remains[1] /\ present[1]))
          /\ moved' = [moved EXCEPT ![at] = @ /\ ~(~remains[1] /\ present[1])]
    BY <1>8
  <2>4. /\ remains[1] \in BOOLEAN /\ remains[2] \in {0, 1} /\ (~remains[1] => backup'[at] = "none")
        /\ present[1] \in BOOLEAN /\ present[2] \in {0, 1}
    BY <2>3, LooksAreTrueOf
  <2>5. failedOps' \in 0..FileFaults
    BY <2>3, <2>4, CostsAreBounded
  <2>6. CASE ~remains[1] /\ present[1]
    <3>1. failures' = failures
      BY <2>3, <2>6 DEF Files!Names
    <3>2. moved' \in [Files!Files -> BOOLEAN] /\ \A p \in Files!Files \ {at} : moved'[p] = moved[p]
      BY <2>3, FilesTypes
    <3>3. Step
      BY <2>2, <2>4, <2>5, <2>6, <3>1, <3>2, FilesTypes
    <3> QED BY <3>3
  <2>7. CASE ~(~remains[1] /\ present[1])
    <3>1. failures' = failures \union {at}
      BY <2>3, <2>7 DEF Files!Names
    <3>2. moved' \in [Files!Files -> BOOLEAN] /\ \A p \in Files!Files \ {at} : moved'[p] = moved[p]
      BY <2>3, FilesTypes
    <3>3. Step
      BY <2>2, <2>5, <3>1, <3>2, FilesTypes
    <3> QED BY <3>3
  <2> QED BY <2>6, <2>7
<1>9. Step
  BY <1>4, <1>6, <1>7, <1>8
<1>10. at' \in Files!Files
  BY <1>1, FilesTypes DEF Files!NextBack, Files!Loops, Files!Goes, FilesInvariant, Undoing
<1>11. Files!TypeOK'
  BY <1>1, <1>9, <1>10 DEF FilesInvariant, Files!TypeOK
<1>12. \A p \in Files!Files : p = at => Undone(p)'
  BY <1>1, <1>3, <1>9, <1>10, FilesTypes DEF Undone, Found
<1> QED BY <1>1, <1>9, <1>11, <1>12, FilesTypes, UndoingGoesOn

LEMMA RemovingNewIsSafe ==
  ASSUME FilesInvariant, Files!RemoveNew PROVE FilesInvariant'
<1>1. /\ pc = "restore" /\ ~had[at] /\ Files!NextBack
      /\ UNCHANGED <<temp, backup, original, had, moved, entries, report>>
  BY DEF Files!RemoveNew
<1>2. ToUndo(at)
  BY <1>1, FilesTypes DEF FilesInvariant, Undoing
<1>3. /\ backup[at] = "none"
      /\ IF mayExist[at] THEN original[at] = "none" ELSE target[at] = original[at]
  BY <1>1, <1>2 DEF ToUndo
<1> DEFINE Step ==
      /\ failedOps' \in 0..FileFaults
      /\ target' \in [Files!Files -> {"none", "old", "new"}]
      /\ mayExist' \in [Files!Files -> BOOLEAN] /\ failures' \subseteq Files!Files
      /\ \A p \in Files!Files \ {at} :
           /\ UNCHANGED <<target[p], mayExist[p]>>
           /\ p \in failures' <=> p \in failures
      /\ original[at] = "old" => target'[at] = "old"
      /\ at \notin failures' => target'[at] = original[at]
<1>4. ASSUME ~mayExist[at], Files!Costs(0), UNCHANGED <<target, mayExist, failures>>
      PROVE  Step
  <2>1. failedOps' \in 0..FileFaults
    BY <1>4, CostsAreBounded
  <2> QED BY <1>3, <1>4, <2>1, FilesTypes
<1>5. ASSUME mayExist[at], Files!TakeOut, mayExist' = [mayExist EXCEPT ![at] = FALSE],
             Files!Costs(0), UNCHANGED failures
      PROVE  Step
  <2>1. failedOps' \in 0..FileFaults
    BY <1>5, CostsAreBounded
  <2> QED BY <1>3, <1>5, <2>1, FilesTypes DEF Files!TakeOut
<1>6. ASSUME mayExist[at], Files!TakeOut \/ UNCHANGED target,
             \E there \in Files!Looks(target'[at] # "none") :
               /\ Files!Costs(1 + there[2]) /\ Files!Names(at, there[1])
               /\ mayExist' = [mayExist EXCEPT ![at] = there[1]]
      PROVE  Step
  <2>1. PICK there \in Files!Looks(target'[at] # "none") :
               /\ Files!Costs(1 + there[2]) /\ Files!Names(at, there[1])
               /\ mayExist' = [mayExist EXCEPT ![at] = there[1]]
    BY <1>6
  <2>2. /\ there[1] \in BOOLEAN /\ there[2] \in {0, 1}
        /\ ~there[1] => target'[at] = "none"
    BY <2>1, LooksAreTrueOf
  <2>3. failedOps' \in 0..FileFaults
    BY <2>1, <2>2, CostsAreBounded
  <2>4. /\ target' \in [Files!Files -> {"none", "old", "new"}]
        /\ \A p \in Files!Files \ {at} : target'[p] = target[p]
    BY <1>6, FilesTypes DEF Files!TakeOut
  <2>5. /\ mayExist' \in [Files!Files -> BOOLEAN]
        /\ \A p \in Files!Files \ {at} : mayExist'[p] = mayExist[p]
    BY <2>1, <2>2, FilesTypes
  <2>6. CASE there[1]
    <3>1. failures' = failures \union {at}
      BY <2>1, <2>6 DEF Files!Names
    <3> QED BY <1>3, <1>6, <2>3, <2>4, <2>5, <3>1, FilesTypes
  <2>7. CASE ~there[1]
    <3>1. failures' = failures
      BY <2>1, <2>7 DEF Files!Names
    <3> QED BY <1>3, <1>6, <2>2, <2>3, <2>4, <2>5, <2>7, <3>1, FilesTypes
  <2> QED BY <2>6, <2>7
<1>7. Step
  BY <1>4, <1>5, <1>6 DEF Files!RemoveNew
<1>8. at' \in Files!Files
  BY <1>1, FilesTypes DEF Files!NextBack, Files!Loops, Files!Goes, FilesInvariant, Undoing
<1>9. Files!TypeOK'
  BY <1>1, <1>7, <1>8 DEF FilesInvariant, Files!TypeOK
<1>10. \A p \in Files!Files : p = at => Undone(p)'
  BY <1>1, <1>3, <1>7, FilesTypes DEF Undone, Found
<1> QED BY <1>1, <1>7, <1>9, <1>10, FilesTypes, UndoingGoesOn

\* What removing an artifact does: it is gone, or its file is named.
LEMMA RemovalIsNamed ==
  ASSUME FilesInvariant, NEW f \in [Files!Files -> {"none", "old", "new"}], NEW now1,
         Files!Removes(f, now1)
  PROVE  /\ now1 \in [Files!Files -> {"none", "old", "new"}]
         /\ \A p \in Files!Files \ {at} : now1[p] = f[p] /\ (p \in failures' <=> p \in failures)
         /\ \A p \in Files!Files : now1[p] \in {f[p], "none"}
         /\ \A p \in Files!Files : p = at /\ p \notin failures' => now1[p] = "none"
         /\ failures \subseteq failures' /\ failures' \subseteq Files!Files
         /\ failedOps' \in 0..FileFaults
<1>1. CASE now1 = [f EXCEPT ![at] = "none"] /\ Files!Costs(0) /\ UNCHANGED failures
  <2>1. failedOps' \in 0..FileFaults
    BY <1>1, CostsAreBounded
  <2> QED BY <1>1, <2>1, FilesTypes
<1>2. CASE /\ now1 \in {f, [f EXCEPT ![at] = "none"]}
           /\ \E there \in Files!Looks(now1[at] # "none") :
                Files!Costs(1 + there[2]) /\ Files!Names(at, there[1])
  <2>1. PICK there \in Files!Looks(now1[at] # "none") :
               Files!Costs(1 + there[2]) /\ Files!Names(at, there[1])
    BY <1>2
  <2>2. /\ there[1] \in BOOLEAN /\ there[2] \in {0, 1}
        /\ ~there[1] => now1[at] = "none"
    BY <2>1, LooksAreTrueOf
  <2>3. failedOps' \in 0..FileFaults
    BY <2>1, <2>2, CostsAreBounded
  <2>4. failures' = IF there[1] THEN failures \union {at} ELSE failures
    BY <2>1 DEF Files!Names
  <2> QED BY <1>2, <2>2, <2>3, <2>4, FilesTypes
<1> QED BY <1>1, <1>2 DEF Files!Removes

LEMMA RemovingTempIsSafe ==
  ASSUME FilesInvariant, Files!RemoveTemp PROVE FilesInvariant'
<1>1. /\ pc = "retemp" /\ Files!Removes(temp, temp') /\ Files!Loops("retemp", entries, "report")
      /\ UNCHANGED <<target, backup, original, had, moved, mayExist, entries, report>>
  BY DEF Files!RemoveTemp, Files!notes
<1>2. /\ at <= entries
      /\ \A p \in Files!Files :
            /\ Undone(p)
            /\ (p < at \/ p > entries) /\ p \notin failures => temp[p] = "none"
  BY <1>1 DEF FilesInvariant, Undoing
<1>3. /\ temp' \in [Files!Files -> {"none", "new"}]
      /\ \A p \in Files!Files \ {at} : temp'[p] = temp[p]
      /\ \A p \in Files!Files : p = at /\ p \notin failures' => temp'[p] = "none"
      /\ failures \subseteq failures' /\ failures' \subseteq Files!Files
      /\ failedOps' \in 0..FileFaults
  <2>1. temp \in [Files!Files -> {"none", "old", "new"}]
    BY FilesTypes
  <2> QED BY <1>1, <2>1, FilesTypes, RemovalIsNamed
<1>4. IF at = entries THEN pc' = "report" /\ at' = 1 ELSE pc' = "retemp" /\ at' = at + 1
  BY <1>1 DEF Files!Loops, Files!Goes
<1>5. at' \in Files!Files
  BY <1>2, <1>4, FilesTypes
<1>6. Files!TypeOK'
  BY <1>1, <1>3, <1>5 DEF FilesInvariant, Files!TypeOK
<1>7. \A p \in Files!Files :
        Undone(p)' /\ ((p <= at \/ p > entries) /\ p \notin failures' => temp'[p] = "none")
  BY <1>1, <1>2, <1>3, FilesTypes DEF Undone, Found
<1>8. Undoing'
  BY <1>1, <1>2, <1>4, <1>7, FilesTypes DEF Undoing
<1>9. Committing' /\ CleaningUp'
  BY <1>4 DEF Committing, CleaningUp
<1>10. Files!Recoverable'
  BY <1>7 DEF Undone, Found, Files!Recoverable
<1> QED BY <1>1, <1>4, <1>6, <1>8, <1>9, <1>10, UnansweredIsEnough DEF Pcs

LEMMA CleaningTempIsSafe ==
  ASSUME FilesInvariant, Files!CleanTemp PROVE FilesInvariant'
<1>1. /\ pc = "untemp" /\ Files!Removes(temp, temp') /\ pc' = "unbackup" /\ at' = at
      /\ UNCHANGED <<target, backup, original, had, moved, mayExist, entries, report>>
  BY DEF Files!CleanTemp, Files!notes, Files!Goes
<1>2. \A p \in Files!Files :
         /\ target[p] = "new" /\ temp[p] = "none"
         /\ p < at /\ p \notin failures => backup[p] = "none"
  BY <1>1 DEF FilesInvariant, CleaningUp
<1>3. /\ temp' \in [Files!Files -> {"none", "new"}]
      /\ \A p \in Files!Files : temp'[p] \in {temp[p], "none"}
      /\ failures \subseteq failures' /\ failures' \subseteq Files!Files
      /\ failedOps' \in 0..FileFaults
  <2>1. temp \in [Files!Files -> {"none", "old", "new"}]
    BY FilesTypes
  <2> QED BY <1>1, <2>1, FilesTypes, RemovalIsNamed
<1>4. Files!TypeOK'
  BY <1>1, <1>3 DEF FilesInvariant, Files!TypeOK
<1>5. CleaningUp'
  BY <1>1, <1>2, <1>3 DEF CleaningUp
<1>6. Committing' /\ Undoing'
  BY <1>1 DEF Committing, Undoing
<1>7. Files!Recoverable'
  BY <1>1, <1>2 DEF Files!AllNew, Files!Recoverable
<1> QED BY <1>1, <1>4, <1>5, <1>6, <1>7, UnansweredIsEnough DEF Pcs

LEMMA CleaningBackupIsSafe ==
  ASSUME FilesInvariant, Files!CleanBackup PROVE FilesInvariant'
<1>1. /\ pc = "unbackup" /\ Files!Removes(backup, backup')
      /\ Files!Loops("untemp", FileCount, "answer")
      /\ UNCHANGED <<target, temp, original, had, moved, mayExist, entries, report>>
  BY DEF Files!CleanBackup, Files!notes
<1>2. \A p \in Files!Files :
         /\ target[p] = "new" /\ temp[p] = "none"
         /\ p < at /\ p \notin failures => backup[p] = "none"
  BY <1>1 DEF FilesInvariant, CleaningUp
<1>3. /\ backup' \in [Files!Files -> {"none", "old"}]
      /\ \A p \in Files!Files \ {at} : backup'[p] = backup[p]
      /\ \A p \in Files!Files : p = at /\ p \notin failures' => backup'[p] = "none"
      /\ failures \subseteq failures' /\ failures' \subseteq Files!Files
      /\ failedOps' \in 0..FileFaults
  <2>1. backup \in [Files!Files -> {"none", "old", "new"}]
    BY FilesTypes
  <2> QED BY <1>1, <2>1, FilesTypes, RemovalIsNamed
<1>4. IF at = FileCount THEN pc' = "answer" /\ at' = 1 ELSE pc' = "untemp" /\ at' = at + 1
  BY <1>1 DEF Files!Loops, Files!Goes
<1>5. at' \in Files!Files
  BY <1>4, FilesTypes
<1>6. Files!TypeOK'
  BY <1>1, <1>3, <1>5 DEF FilesInvariant, Files!TypeOK
<1>7. \A p \in Files!Files :
        /\ target'[p] = "new" /\ temp'[p] = "none"
        /\ p <= at /\ p \notin failures' => backup'[p] = "none"
  BY <1>1, <1>2, <1>3, FilesTypes
<1>8. CleaningUp'
  BY <1>4, <1>7, FilesTypes DEF CleaningUp
<1>9. Committing' /\ Undoing'
  BY <1>4 DEF Committing, Undoing
<1>10. Files!Recoverable'
  BY <1>7 DEF Files!AllNew, Files!Recoverable
<1> QED BY <1>1, <1>4, <1>6, <1>8, <1>9, <1>10, UnansweredIsEnough DEF Pcs

\* The report is made of what is true by then.
LEMMA AnswerIsSafe ==
  ASSUME FilesInvariant, Files!Answer PROVE FilesInvariant'
<1>1. /\ pc \in {"report", "answer"} /\ pc' = "reported" /\ at' = 1
      /\ UNCHANGED <<target, temp, backup, original, had, moved, mayExist>>
      /\ UNCHANGED <<entries, failures, failedOps>>
      /\ report' = CASE pc = "answer" /\ failures = {} -> "success"
                     [] pc = "answer" /\ failures # {} -> "committed"
                     [] pc = "report" /\ failures = {} -> "complete"
                     [] OTHER -> "incomplete"
  BY DEF Files!Answer, Files!Goes, Files!disk, Files!notes
<1>2. Committing' /\ Undoing' /\ CleaningUp'
  BY <1>1 DEF Committing, Undoing, CleaningUp
<1>3. CASE pc = "answer"
  <2>1. report' = IF failures = {} THEN "success" ELSE "committed"
    BY <1>1, <1>3
  <2>2. \A p \in Files!Files :
         target[p] = "new" /\ temp[p] = "none" /\ (p \notin failures => backup[p] = "none")
    BY <1>3 DEF FilesInvariant, CleaningUp
  <2>3. Files!TypeOK'
    BY <1>1, <2>1, FilesTypes DEF FilesInvariant, Files!TypeOK, Files!Reports
  <2>4. Files!Recoverable' /\ Files!ReportIsTrue' /\ Files!LeftoversAreNamed'
    BY <1>1, <2>1, <2>2
       DEF Files!Recoverable, Files!ReportIsTrue, Files!LeftoversAreNamed, Files!AllNew,
           Files!Clean
  <2> QED BY <1>1, <1>2, <2>3, <2>4 DEF FilesInvariant, Pcs
<1>4. CASE pc = "report"
  <2>1. report' = IF failures = {} THEN "complete" ELSE "incomplete"
    BY <1>1, <1>4
  <2>2. \A p \in Files!Files : Undone(p) /\ (p \notin failures => temp[p] = "none")
    BY <1>4 DEF FilesInvariant, Undoing
  <2>3. Files!TypeOK'
    BY <1>1, <2>1, FilesTypes DEF FilesInvariant, Files!TypeOK, Files!Reports
  <2>4. \A p \in Files!Files \ failures : target[p] = original[p] /\ temp[p] = "none" /\ backup[p] = "none"
    BY <2>2 DEF Undone
  <2>5. failures = {} => target = original
    BY <2>4, FilesTypes
  <2>6. Files!Recoverable'
    BY <1>1, <2>2 DEF Undone, Found, Files!Recoverable
  <2>7. Files!ReportIsTrue' /\ Files!LeftoversAreNamed'
    BY <1>1, <2>1, <2>4, <2>5
       DEF Files!ReportIsTrue, Files!LeftoversAreNamed, Files!Restored, Files!Clean
  <2> QED BY <1>1, <1>2, <2>3, <2>6, <2>7 DEF FilesInvariant, Pcs
<1> QED BY <1>1, <1>3, <1>4

LEMMA FileCrashIsSafe ==
  ASSUME FilesInvariant, Files!Crash PROVE FilesInvariant'
<1>1. /\ pc \notin {"reported", "crashed"} /\ pc' = "crashed" /\ at' = at
      /\ UNCHANGED <<target, temp, backup, original, had, moved, mayExist>>
      /\ UNCHANGED <<entries, failures, report, failedOps>>
  BY DEF Files!Crash, Files!Goes, Files!disk, Files!notes, Files!Ends
<1>2. Files!TypeOK' /\ Files!Recoverable'
  BY <1>1 DEF FilesInvariant, Files!TypeOK, Files!Recoverable, Files!AllNew
<1>3. Committing' /\ Undoing' /\ CleaningUp'
  BY <1>1 DEF Committing, Undoing, CleaningUp
<1> QED BY <1>1, <1>2, <1>3, UnansweredIsEnough DEF Pcs

LEMMA FilesMove ==
  ASSUME FilesInvariant, Files!Next PROVE FilesInvariant'
BY LookingIsSafe, WritingIsSafe, BackupIsSafe, ReplaceIsSafe, RestoringIsSafe,
   RemovingNewIsSafe, RemovingTempIsSafe, CleaningTempIsSafe, CleaningBackupIsSafe,
   AnswerIsSafe, FileCrashIsSafe DEF Files!Next

LEMMA FilesStutter ==
  ASSUME FilesInvariant, UNCHANGED filesVars PROVE FilesInvariant'
BY DEF filesVars, FilesInvariant, Committing, Undoing, CleaningUp, Untouched, Looked, Aside,
       Replaced, ToUndo, Undone, Found, Files!TypeOK, Files!Recoverable, Files!ReportIsTrue,
       Files!LeftoversAreNamed, Files!AllNew, Files!Clean, Files!Restored

\* Replacing files is recoverable for any number of files and of failed operations: after any
\* crash or failure all files are new or every original can be found, and the report is true.
THEOREM FilesAreAlwaysRecoverable == MCSpec => []FilesAreRecoverable
<1> DEFINE I == part = "files" => FilesInvariant
<1>1. MCInit => I
  BY FilesStart DEF MCInit
<1>2. I /\ [MCNext]_allVars => I'
  <2>1. ASSUME I, MCNext PROVE I'
    <3>1. part' = part
      BY <2>1 DEF MCNext, RuntimeMoves
    <3>2. CASE part = "files"
      BY <2>1, <3>1, <3>2, FilesMove DEF MCNext
    <3>3. CASE part # "files"
      BY <3>1, <3>3
    <3> QED BY <3>2, <3>3
  <2>2. ASSUME I, UNCHANGED allVars PROVE I'
    BY <2>2, FilesStutter DEF allVars
  <2> QED BY <2>1, <2>2
<1>3. I => FilesAreRecoverable
  BY DEF FilesInvariant, FilesAreRecoverable
<1> QED BY <1>1, <1>2, <1>3, PTL DEF MCSpec

-----------------------------------------------------------------------------
(* Rate limits: the inductive invariant                                    *)

BucketType == [count : Nat, startedAt : Nat, lastSeenAt : Nat, windowMs : Nat]
WindowType == [startedAt : Nat, count : Nat]

\* A bucket is a window that has counted a request and started in the past.
BucketHolds(k) ==
  /\ buckets[k] \in BucketType
  /\ policy[k[1]] # Disabled
  /\ buckets[k].windowMs = policy[k[1]].windowMs
  /\ buckets[k].count \in 1..policy[k[1]].limit + 1
  /\ buckets[k].startedAt <= buckets[k].lastSeenAt /\ buckets[k].lastSeenAt <= now

WindowHolds(k) ==
  exact[k] # NoWindow =>
    exact[k] \in WindowType /\ exact[k].count >= 1 /\ exact[k].startedAt <= now

\* A key that is not lost has the window of the unbounded table, if one runs.
Agrees(k) ==
  IF k \in Limits!Held
  THEN exact[k] # NoWindow /\ exact[k].startedAt = buckets[k].startedAt
       /\ exact[k].count = buckets[k].count
  ELSE exact[k] # NoWindow =>
         policy[k[1]] # Disabled /\ now - exact[k].startedAt >= policy[k[1]].windowMs

\* The insertion order of the Map is a strict total order on its keys.
Orders(S, R) ==
  /\ \A a, b \in S : a # b => <<a, b>> \in R \/ <<b, a>> \in R
  /\ \A a, b \in S : ~(<<a, b>> \in R /\ <<b, a>> \in R)
  /\ \A a, b, c \in S : <<a, b>> \in R /\ <<b, c>> \in R => <<a, c>> \in R

LimitsInvariant ==
  /\ now \in 0..MaxTime /\ policy \in Policies /\ evictions \in 0..MaxCounter
  /\ lost \subseteq Keys /\ IsFiniteSet(lost)
  /\ Limits!Held \subseteq Keys /\ IsFiniteSet(Limits!Held)
  /\ Cardinality(Limits!Held) <= MaxBuckets
  /\ \A k \in Limits!Held : BucketHolds(k)
  /\ order \subseteq Limits!Held \X Limits!Held /\ Orders(Limits!Held, order)
  /\ \A p \in order : buckets[p[1]].lastSeenAt <= buckets[p[2]].lastSeenAt
  /\ exact = [k \in Keys |-> exact[k]] /\ \A k \in Keys : WindowHolds(k)
  /\ \A k \in Keys \ lost : Agrees(k)
  /\ Limits!ExactUnlessEvicted
  /\ Cardinality(lost) <= evictions \/ evictions = MaxCounter

\* FiniteSets as RateLimits sees it.
LEMMA SameCardinalities ==
  \A S : Limits!Cardinality(S) = Cardinality(S)
BY DEF Limits!Cardinality, Cardinality

\* The rules of a policy that are not disabled.
LEMMA RuleFacts ==
  ASSUME NEW p \in Policies, NEW k \in Keys, p[k[1]] # Disabled
  PROVE  p[k[1]].limit \in Nat /\ p[k[1]].limit >= 1
         /\ p[k[1]].windowMs \in Nat /\ p[k[1]].windowMs >= 1 /\ p[k[1]].windowMs <= IdleMs
         /\ IdleMs \in Nat
<1>1. k[1] \in Rules
  BY LimitsAssumption DEF Limits!RateLimitsAssumption
<1>2. p[k[1]] \in Limits!Parameters
  BY <1>1 DEF Limits!Parameters
<1>3. \A q \in Limits!Parameters : q.limit \in Nat \ {0} /\ q.windowMs \in 1..IdleMs
  BY LimitsAssumption DEF Limits!RateLimitsAssumption
<1>4. IdleMs \in Nat
  BY LimitsAssumption DEF Limits!RateLimitsAssumption
<1> QED BY <1>2, <1>3, <1>4

LEMMA SmallestNat ==
  ASSUME NEW S \in SUBSET Nat, S # {} PROVE \E n \in S : \A m \in S : n <= m
<1> DEFINE less == {ss \in Nat \X Nat : ss[1] < ss[2]}
<1>1. IsWellFoundedOn(less, Nat)
  BY NatLessThanWellFounded DEF OpToRel
<1>2. \A x, y \in Nat : y < x => <<y, x>> \in less
  OBVIOUS
<1> HIDE DEF less
<1>3. \E x \in S : \A y \in S : ~(<<y, x>> \in less)
  BY <1>1, WFMin
<1>4. \A x, y \in S : ~(<<y, x>> \in less) => x <= y
  BY <1>2
<1> QED BY <1>3, <1>4

\* Of an ordered finite set no more stay than the bound allows: of those that stay, the
\* earliest has all the others behind it, and those are fewer than the bound.
LEMMA FewStay ==
  ASSUME NEW S, IsFiniteSet(S), NEW R, Orders(S, R)
  PROVE  /\ Limits!Bounded(S, R) \subseteq S /\ IsFiniteSet(Limits!Bounded(S, R))
         /\ Cardinality(Limits!Bounded(S, R)) <= MaxBuckets
<1> DEFINE K == Limits!Bounded(S, R)
           Behind(o) == {p \in S : <<o, p>> \in R}
<1>1. K = {o \in S : Cardinality(Behind(o)) < MaxBuckets}
  BY SameCardinalities DEF Limits!Bounded
<1>2. K \subseteq S /\ IsFiniteSet(K)
  BY <1>1, FS_Subset
<1>3. MaxBuckets \in Nat /\ MaxBuckets >= 1
  BY LimitsAssumption DEF Limits!RateLimitsAssumption
<1>4. \A o \in S : IsFiniteSet(Behind(o)) /\ Cardinality(Behind(o)) \in Nat
  BY FS_Subset, FS_CardinalityType
<1> HIDE DEF K
<1>5. CASE K = {}
  BY <1>2, <1>3, <1>5, FS_EmptySet DEF K
<1>6. CASE K # {}
  <2> DEFINE Room == {MaxBuckets - Cardinality(Behind(o)) : o \in K}
  <2>1. \A o \in K : Cardinality(Behind(o)) \in Nat /\ Cardinality(Behind(o)) < MaxBuckets
    BY <1>1, <1>4
  <2> HIDE DEF Behind
  <2>2. Room \subseteq Nat /\ Room # {}
    BY <1>3, <1>6, <2>1
  <2>3. PICK n \in Room : \A m \in Room : n <= m
    BY <2>2, SmallestNat
  <2>4. PICK o \in K : n = MaxBuckets - Cardinality(Behind(o))
    BY <2>3
  <2>5. \A p \in K : Cardinality(Behind(p)) <= Cardinality(Behind(o))
    BY <1>3, <2>1, <2>3, <2>4
  <2>6. ASSUME NEW p \in K, p # o PROVE p \in Behind(o)
    <3>1. CASE <<o, p>> \in R
      BY <1>2, <3>1 DEF Behind
    <3>2. CASE <<p, o>> \in R
      <4>1. Behind(o) \cup {o} \subseteq Behind(p)
        BY <1>2, <3>2 DEF Behind, Orders
      <4>2. o \notin Behind(o)
        BY <1>2 DEF Behind, Orders
      <4>3. Cardinality(Behind(o) \cup {o}) = Cardinality(Behind(o)) + 1
        BY <1>2, <1>4, <4>2, FS_AddElement DEF Behind
      <4>4. Cardinality(Behind(o) \cup {o}) <= Cardinality(Behind(p))
        BY <1>2, <1>4, <4>1, FS_Subset DEF Behind
      <4> QED BY <2>1, <2>5, <4>3, <4>4
    <3> QED BY <1>2, <2>6, <3>1, <3>2 DEF Orders
  <2>7. K \subseteq Behind(o) \cup {o}
    BY <2>6
  <2>8. IsFiniteSet(Behind(o))
    BY <1>2, <1>4 DEF Behind
  <2>9. /\ IsFiniteSet(Behind(o) \cup {o})
        /\ Cardinality(Behind(o) \cup {o}) <= Cardinality(Behind(o)) + 1
    <3>1. /\ IsFiniteSet(Behind(o) \cup {o})
          /\ Cardinality(Behind(o) \cup {o}) =
               IF o \in Behind(o) THEN Cardinality(Behind(o)) ELSE Cardinality(Behind(o)) + 1
      BY <2>8, FS_AddElement
    <3> QED BY <2>1, <3>1
  <2>10. Cardinality(K) <= Cardinality(Behind(o) \cup {o})
    BY <2>7, <2>9, FS_Subset
  <2>11. Cardinality(K) \in Nat /\ Cardinality(Behind(o) \cup {o}) \in Nat
    BY <1>2, <2>9, FS_CardinalityType
  <2>12. Cardinality(K) <= MaxBuckets
    BY <1>3, <2>1, <2>9, <2>10, <2>11
  <2> QED BY <1>2, <2>12 DEF K
<1> QED BY <1>5, <1>6

-----------------------------------------------------------------------------
(* One request                                                             *)

\* The parts of a Consume: the bucket and the window of the key, and the keys that are left
\* by the sweep and by the bound.
NewBucket(k) == Limits!Counted(k, policy[k[1]].windowMs, policy[k[1]].limit + 1)
NewWindow(k) == Limits!ExactCounted(k, policy[k[1]].windowMs, policy[k[1]].limit + 1)
RecordedMap(k) == Limits!Reinserted(k, NewBucket(k))
SweptKeys(k) == Limits!Swept(RecordedMap(k))
KeptKeys(k) == Limits!Bounded(SweptKeys(k), Limits!Last(k))

LEMMA LimitsTypes ==
  ASSUME LimitsInvariant
  PROVE  /\ now \in Nat /\ evictions \in Nat /\ MaxCounter \in Nat /\ evictions <= MaxCounter
         /\ MaxBuckets \in Nat /\ MaxBuckets >= 1
BY LimitsAssumption DEF LimitsInvariant, Limits!RateLimitsAssumption

\* The new bucket runs, and counts one exactly if it is new.
LEMMA NewBucketHolds ==
  ASSUME LimitsInvariant, NEW k \in Keys, policy[k[1]] # Disabled
  PROVE  /\ NewBucket(k) \in BucketType
         /\ NewBucket(k).windowMs = policy[k[1]].windowMs
         /\ NewBucket(k).count \in 1..policy[k[1]].limit + 1
         /\ NewBucket(k).startedAt <= now /\ NewBucket(k).lastSeenAt = now
         /\ now - NewBucket(k).startedAt < policy[k[1]].windowMs
         /\ NewBucket(k).count = 1 => NewBucket(k).startedAt = now
<1>1. /\ policy[k[1]].limit \in Nat /\ policy[k[1]].limit >= 1
      /\ policy[k[1]].windowMs \in Nat /\ policy[k[1]].windowMs >= 1
  BY RuleFacts DEF LimitsInvariant
<1> DEFINE L == policy[k[1]].limit
           W == policy[k[1]].windowMs
<1>2. L \in Nat /\ L >= 1 /\ W \in Nat /\ W >= 1 /\ now \in Nat
  BY <1>1, LimitsTypes
<1>3. NewBucket(k) = Limits!Counted(k, W, L + 1)
  BY DEF NewBucket
<1> HIDE DEF L, W
<1>4. CASE k \in Limits!Held /\ now - buckets[k].startedAt < W
  <2>1. BucketHolds(k)
    BY <1>4 DEF LimitsInvariant
  <2>2. /\ buckets[k] \in BucketType /\ buckets[k].windowMs = W
        /\ buckets[k].count \in Nat /\ buckets[k].count >= 1 /\ buckets[k].count <= L + 1
        /\ buckets[k].startedAt <= now
    BY <1>2, <2>1 DEF BucketHolds, BucketType, L, W
  <2>3. PICK c \in Nat : c = Limits!Saturated(buckets[k].count + 1, L + 1) /\ c >= 2 /\ c <= L + 1
    BY <1>2, <2>2 DEF Limits!Saturated
  <2>4. NewBucket(k) = [buckets[k] EXCEPT !.count = c, !.lastSeenAt = now]
    BY <1>3, <1>4, <2>3 DEF Limits!Counted
  <2>5. /\ NewBucket(k) \in BucketType
        /\ NewBucket(k).windowMs = W /\ NewBucket(k).count = c /\ NewBucket(k).lastSeenAt = now
        /\ NewBucket(k).startedAt = buckets[k].startedAt
    BY <1>2, <2>2, <2>3, <2>4 DEF BucketType
  <2>6. c \in 1..L + 1 /\ c # 1
    BY <1>2, <2>3
  <2> QED BY <1>4, <2>2, <2>5, <2>6 DEF L, W
<1>5. CASE ~(k \in Limits!Held /\ now - buckets[k].startedAt < W)
  <2>1. NewBucket(k) = [count |-> 1, startedAt |-> now, lastSeenAt |-> now, windowMs |-> W]
    BY <1>3, <1>5 DEF Limits!Counted
  <2> QED BY <1>2, <2>1 DEF BucketType, L, W
<1> QED BY <1>4, <1>5

LEMMA NewWindowHolds ==
  ASSUME LimitsInvariant, NEW k \in Keys, policy[k[1]] # Disabled
  PROVE  /\ NewWindow(k) \in WindowType /\ NewWindow(k).count >= 1
         /\ NewWindow(k).startedAt <= now
         /\ NewWindow(k).count = 1 => NewWindow(k).startedAt = now
<1>1. /\ policy[k[1]].limit \in Nat /\ policy[k[1]].limit >= 1
      /\ policy[k[1]].windowMs \in Nat /\ policy[k[1]].windowMs >= 1
  BY RuleFacts DEF LimitsInvariant
<1> DEFINE L == policy[k[1]].limit
           W == policy[k[1]].windowMs
<1>2. L \in Nat /\ L >= 1 /\ W \in Nat /\ W >= 1 /\ now \in Nat
  BY <1>1, LimitsTypes
<1>3. NewWindow(k) = Limits!ExactCounted(k, W, L + 1)
  BY DEF NewWindow
<1> HIDE DEF L, W
<1>4. CASE exact[k] # NoWindow /\ now - exact[k].startedAt < W
  <2>1. exact[k] \in WindowType /\ exact[k].count >= 1 /\ exact[k].startedAt <= now
    BY <1>4 DEF LimitsInvariant, WindowHolds
  <2>2. exact[k].count \in Nat
    BY <2>1 DEF WindowType
  <2>3. PICK c \in Nat : c = Limits!Saturated(exact[k].count + 1, L + 1) /\ c >= 2
    BY <1>2, <2>1, <2>2 DEF Limits!Saturated
  <2>4. NewWindow(k) = [exact[k] EXCEPT !.count = c]
    BY <1>3, <1>4, <2>3 DEF Limits!ExactCounted
  <2> QED BY <1>2, <2>1, <2>3, <2>4 DEF WindowType
<1>5. CASE ~(exact[k] # NoWindow /\ now - exact[k].startedAt < W)
  <2>1. NewWindow(k) = [startedAt |-> now, count |-> 1]
    BY <1>3, <1>5 DEF Limits!ExactCounted
  <2> QED BY <1>2, <2>1 DEF WindowType
<1> QED BY <1>4, <1>5

\* While the tables agree about a key, they count the request alike.
LEMMA BothCountAlike ==
  ASSUME LimitsInvariant, NEW k \in Keys \ lost, policy[k[1]] # Disabled
  PROVE  /\ NewBucket(k).startedAt = NewWindow(k).startedAt
         /\ NewBucket(k).count = NewWindow(k).count
<1> DEFINE L == policy[k[1]].limit
           W == policy[k[1]].windowMs
<1>1. /\ NewBucket(k) = Limits!Counted(k, W, L + 1)
      /\ NewWindow(k) = Limits!ExactCounted(k, W, L + 1)
  BY DEF NewBucket, NewWindow
<1>2. Agrees(k) /\ WindowHolds(k)
  BY DEF LimitsInvariant
<1>3. policy \in Policies /\ W \in Nat /\ now \in Nat
  BY RuleFacts, LimitsTypes DEF LimitsInvariant
<1>4. CASE k \in Limits!Held
  <2>1. /\ exact[k] # NoWindow /\ exact[k].startedAt = buckets[k].startedAt
        /\ exact[k].count = buckets[k].count
    BY <1>2, <1>4 DEF Agrees
  <2>2. exact[k] \in WindowType /\ buckets[k] \in BucketType
    BY <1>2, <1>4, <2>1 DEF LimitsInvariant, WindowHolds, BucketHolds
  <2> HIDE DEF L, W
  <2>3. CASE now - buckets[k].startedAt < W
    <3>1. /\ NewBucket(k) = [buckets[k] EXCEPT !.count = Limits!Saturated(@ + 1, L + 1), !.lastSeenAt = now]
          /\ NewWindow(k) = [exact[k] EXCEPT !.count = Limits!Saturated(@ + 1, L + 1)]
      BY <1>1, <1>4, <2>1, <2>3 DEF Limits!Counted, Limits!ExactCounted
    <3> QED BY <2>1, <2>2, <3>1 DEF WindowType, BucketType
  <2>4. CASE ~(now - buckets[k].startedAt < W)
    BY <1>1, <1>4, <2>1, <2>4 DEF Limits!Counted, Limits!ExactCounted
  <2> QED BY <2>3, <2>4
<1>5. CASE k \notin Limits!Held
  <2>1. exact[k] # NoWindow => now - exact[k].startedAt >= W /\ exact[k].startedAt \in Nat
    BY <1>2, <1>5 DEF Agrees, WindowHolds, WindowType
  <2>2. ~(exact[k] # NoWindow /\ now - exact[k].startedAt < W)
    BY <1>3, <2>1
  <2> HIDE DEF L, W
  <2> QED BY <1>1, <1>5, <2>2 DEF Limits!Counted, Limits!ExactCounted
<1> QED BY <1>4, <1>5

\* What is in the Map after the request, what the sweep and what the bound leave of it.
LEMMA RecordedFacts ==
  ASSUME LimitsInvariant, NEW k \in Keys, policy[k[1]] # Disabled
  PROVE  /\ RecordedMap(k) = [o \in Limits!Held \cup {k} |->
                                IF o = k THEN NewBucket(k) ELSE buckets[o]]
         /\ SweptKeys(k) \subseteq Limits!Held \cup {k} /\ IsFiniteSet(SweptKeys(k))
         /\ k \in SweptKeys(k)
         /\ \A o \in Limits!Held \ SweptKeys(k) :
              now - buckets[o].startedAt >= policy[o[1]].windowMs
<1>1. RecordedMap(k) = [o \in Limits!Held \cup {k} |->
                          IF o = k THEN NewBucket(k) ELSE buckets[o]]
  BY DEF RecordedMap, Limits!Reinserted
<1>2. SweptKeys(k) = {o \in Limits!Held \cup {k} :
                        /\ now - RecordedMap(k)[o].lastSeenAt <= IdleMs
                        /\ now - RecordedMap(k)[o].startedAt < RecordedMap(k)[o].windowMs}
  BY <1>1 DEF SweptKeys, Limits!Swept
<1>3. IsFiniteSet(Limits!Held \cup {k})
  BY FS_AddElement DEF LimitsInvariant
<1>4. SweptKeys(k) \subseteq Limits!Held \cup {k} /\ IsFiniteSet(SweptKeys(k))
  <2>1. SweptKeys(k) \subseteq Limits!Held \cup {k}
    BY <1>2
  <2> QED BY <1>3, <2>1, FS_Subset
<1>5. now \in Nat /\ IdleMs \in Nat
  BY RuleFacts, LimitsTypes DEF LimitsInvariant
<1>6. k \in SweptKeys(k)
  BY <1>1, <1>2, <1>5, NewBucketHolds
<1>7. ASSUME NEW o \in Limits!Held \ SweptKeys(k)
      PROVE  now - buckets[o].startedAt >= policy[o[1]].windowMs
  <2>1. o # k /\ RecordedMap(k)[o] = buckets[o]
    BY <1>1, <1>6, <1>7
  <2>2. /\ o \in Keys /\ policy[o[1]] # Disabled /\ buckets[o] \in BucketType
        /\ buckets[o].windowMs = policy[o[1]].windowMs
        /\ buckets[o].startedAt <= buckets[o].lastSeenAt
    BY <1>7 DEF LimitsInvariant, BucketHolds
  <2>3. policy[o[1]].windowMs \in Nat /\ policy[o[1]].windowMs <= IdleMs
    BY <2>2, RuleFacts DEF LimitsInvariant
  <2>4. ~(/\ now - buckets[o].lastSeenAt <= IdleMs
          /\ now - buckets[o].startedAt < buckets[o].windowMs)
    BY <1>2, <1>7, <2>1
  <2> QED BY <1>5, <2>2, <2>3, <2>4 DEF BucketType
<1> QED BY <1>1, <1>4, <1>6, <1>7

\* Deleted and set again, the key is the last in the order of the Map.
LEMMA LastIsOrder ==
  ASSUME LimitsInvariant, NEW k \in Keys
  PROVE  /\ Orders(Limits!Held \cup {k}, Limits!Last(k))
         /\ \A p \in Limits!Last(k) :
              p[1] # k /\ p = <<p[1], p[2]>> /\ (p[2] = k \/ p \in order)
<1>1. /\ order \subseteq Limits!Held \X Limits!Held /\ Orders(Limits!Held, order)
  BY DEF LimitsInvariant
<1>2. Limits!Last(k) = {p \in order : k \notin {p[1], p[2]}} \cup {<<o, k>> : o \in Limits!Held \ {k}}
  BY DEF Limits!Last
<1>3. \A a, b : <<a, b>> \in Limits!Last(k) <=>
                  \/ <<a, b>> \in order /\ a # k /\ b # k
                  \/ b = k /\ a # k /\ a \in Limits!Held
  BY <1>2
<1>4. Orders(Limits!Held \cup {k}, Limits!Last(k))
  BY <1>1, <1>3 DEF Orders
<1>5. \A p \in Limits!Last(k) :
         p[1] # k /\ p = <<p[1], p[2]>> /\ (p[2] = k \/ p \in order)
  BY <1>1, <1>2
<1> QED BY <1>4, <1>5

LEMMA KeptFacts ==
  ASSUME LimitsInvariant, NEW k \in Keys, policy[k[1]] # Disabled
  PROVE  /\ KeptKeys(k) \subseteq SweptKeys(k) /\ IsFiniteSet(KeptKeys(k)) /\ k \in KeptKeys(k)
         /\ Cardinality(KeptKeys(k)) <= MaxBuckets
<1>1. SweptKeys(k) \subseteq Limits!Held \cup {k} /\ IsFiniteSet(SweptKeys(k)) /\ k \in SweptKeys(k)
  BY RecordedFacts
<1>2. Orders(SweptKeys(k), Limits!Last(k))
  BY <1>1, LastIsOrder DEF Orders
<1>3. {p \in SweptKeys(k) : <<k, p>> \in Limits!Last(k)} = {}
  BY LastIsOrder
<1>4. Cardinality({p \in SweptKeys(k) : <<k, p>> \in Limits!Last(k)}) < MaxBuckets
  <2>1. Cardinality({p \in SweptKeys(k) : <<k, p>> \in Limits!Last(k)}) = 0
    BY <1>3, FS_EmptySet
  <2> QED BY <2>1, LimitsTypes
<1>5. k \in KeptKeys(k)
  BY <1>1, <1>4, SameCardinalities DEF KeptKeys, Limits!Bounded
<1> QED BY <1>1, <1>2, <1>5, FewStay DEF KeptKeys

\* The parts of the invariant that speak about the tables after a step.
LEMMA RequestsAreSafe ==
  ASSUME LimitsInvariant, NEW k \in Keys, Limits!Consume(k)
  PROVE  LimitsInvariant'
<1> DEFINE bucket == NewBucket(k)
           window == NewWindow(k)
           kept == KeptKeys(k)
           evicted == SweptKeys(k) \ KeptKeys(k)
<1>1. /\ policy[k[1]] # Disabled
      /\ buckets' = [o \in kept |-> RecordedMap(k)[o]]
      /\ order' = Limits!Last(k) \cap (kept \X kept)
      /\ evictions' = Limits!Evictions(Cardinality(evicted))
      /\ exact' = [exact EXCEPT ![k] = window]
      /\ lost' = Limits!LostAfter(k, evicted, bucket, window)
      /\ decision' = [ok |-> bucket.count <= policy[k[1]].limit,
                      exactOk |-> window.count <= policy[k[1]].limit,
                      lost |-> k \in lost /\ ~(bucket.count = 1 /\ window.count = 1)]
      /\ UNCHANGED <<now, policy>>
  BY SameCardinalities
     DEF Limits!Consume, NewBucket, NewWindow, RecordedMap, SweptKeys, KeptKeys
<1>2. /\ RecordedMap(k) = [o \in Limits!Held \cup {k} |-> IF o = k THEN bucket ELSE buckets[o]]
      /\ SweptKeys(k) \subseteq Limits!Held \cup {k} /\ IsFiniteSet(SweptKeys(k))
      /\ \A o \in Limits!Held \ SweptKeys(k) :
              now - buckets[o].startedAt >= policy[o[1]].windowMs
  BY <1>1, RecordedFacts
<1>3. /\ kept \subseteq SweptKeys(k) /\ IsFiniteSet(kept) /\ k \in kept
      /\ Cardinality(kept) <= MaxBuckets
  BY <1>1, KeptFacts
<1>4. /\ bucket \in BucketType
      /\ bucket.windowMs = policy[k[1]].windowMs
      /\ bucket.count \in 1..policy[k[1]].limit + 1
      /\ bucket.startedAt <= now /\ bucket.lastSeenAt = now
      /\ bucket.count = 1 => bucket.startedAt = now
  BY <1>1, NewBucketHolds
<1>5. /\ window \in WindowType /\ window.count >= 1 /\ window.startedAt <= now
      /\ window.count = 1 => window.startedAt = now
  BY <1>1, NewWindowHolds
<1>6. k \notin lost => bucket.startedAt = window.startedAt /\ bucket.count = window.count
  BY <1>1, BothCountAlike
<1>7. /\ lost \subseteq Keys /\ IsFiniteSet(lost) /\ Limits!Held \subseteq Keys
      /\ now \in Nat /\ now \in 0..MaxTime /\ policy \in Policies
  BY LimitsTypes DEF LimitsInvariant
<1>8. NoWindow \notin WindowType
  BY LimitsAssumption DEF Limits!RateLimitsAssumption, WindowType
<1> HIDE DEF bucket, window, kept, evicted
<1>9. Limits!Held' = kept
  BY <1>1 DEF Limits!Held
<1>10. /\ buckets'[k] = bucket /\ \A o \in kept : o # k => o \in Limits!Held /\ buckets'[o] = buckets[o]
  BY <1>1, <1>2, <1>3
<1>11. \A o \in Limits!Held' : BucketHolds(o)'
  <2>1. BucketHolds(k)'
    <3>1. buckets'[k] = bucket /\ policy' = policy /\ now' = now
      BY <1>1, <1>10
    <3>2. /\ bucket.startedAt <= bucket.lastSeenAt /\ bucket.lastSeenAt <= now
      BY <1>4, <1>7
    <3>3. policy[k[1]] # Disabled
      BY <1>1
    <3> QED BY <1>4, <3>1, <3>2, <3>3 DEF BucketHolds
  <2>2. ASSUME NEW o \in kept, o # k PROVE BucketHolds(o)'
    BY <1>1, <1>10, <2>2 DEF BucketHolds, LimitsInvariant
  <2> QED BY <1>9, <2>1, <2>2
<1>12. order' \subseteq kept \X kept /\ Orders(kept, order')
  <2>1. Orders(Limits!Held \cup {k}, Limits!Last(k))
    BY LastIsOrder
  <2>2. kept \subseteq Limits!Held \cup {k}
    BY <1>2, <1>3
  <2>3. order' \subseteq kept \X kept /\ \A a, b \in kept : <<a, b>> \in order' <=> <<a, b>> \in Limits!Last(k)
    BY <1>1
  <2>4. Orders(kept, Limits!Last(k))
    BY <2>1, <2>2 DEF Orders
  <2> QED BY <2>3, <2>4 DEF Orders
<1>13. \A p \in order' : buckets'[p[1]].lastSeenAt <= buckets'[p[2]].lastSeenAt
  <2>1. SUFFICES ASSUME NEW p \in order'
                 PROVE  buckets'[p[1]].lastSeenAt <= buckets'[p[2]].lastSeenAt
    OBVIOUS
  <2>2. /\ p \in Limits!Last(k) /\ p[1] \in kept /\ p[2] \in kept
    BY <1>1
  <2>3. p[1] # k /\ (p[2] = k \/ p \in order)
    BY <2>2, LastIsOrder
  <2>4. buckets'[p[1]] = buckets[p[1]] /\ p[1] \in Limits!Held
    BY <1>10, <2>2, <2>3
  <2>5. buckets[p[1]].lastSeenAt <= now
    BY <2>4 DEF LimitsInvariant, BucketHolds
  <2>6. CASE p[2] = k
    BY <1>4, <1>10, <2>4, <2>5, <2>6
  <2>7. CASE p[2] # k
    <3>1. buckets'[p[2]] = buckets[p[2]]
      BY <1>10, <2>2, <2>7
    <3> QED BY <2>3, <2>4, <2>7, <3>1 DEF LimitsInvariant
  <2> QED BY <2>6, <2>7
<1>14. exact' = [o \in Keys |-> exact'[o]] /\ \A o \in Keys : exact'[o] = IF o = k THEN window ELSE exact[o]
  <2>1. exact = [o \in Keys |-> exact[o]]
    BY DEF LimitsInvariant
  <2> QED BY <1>1, <2>1
<1>15. \A o \in Keys : WindowHolds(o)'
  BY <1>1, <1>5, <1>14 DEF WindowHolds, LimitsInvariant
<1>16. lost' = (IF bucket.count = 1 /\ window.count = 1 THEN lost \ {k} ELSE lost)
               \cup {e \in evicted : exact[e] # NoWindow}
  BY <1>1 DEF Limits!LostAfter
<1>17. evicted \subseteq Limits!Held /\ k \notin evicted /\ IsFiniteSet(evicted)
       /\ evicted \cap kept = {} /\ SweptKeys(k) = kept \cup evicted
  BY <1>2, <1>3, FS_Difference DEF kept, evicted
<1>18. lost' \subseteq Keys /\ IsFiniteSet(lost') /\ Cardinality(lost') <= Cardinality(lost) + Cardinality(evicted)
  <2>1. lost' \subseteq lost \cup evicted
    BY <1>16
  <2>2. /\ IsFiniteSet(lost \cup evicted)
        /\ Cardinality(lost \cup evicted) = Cardinality(lost) + Cardinality(evicted) - Cardinality(lost \cap evicted)
    BY <1>7, <1>17, FS_Union
  <2>3. Cardinality(lost \cap evicted) \in Nat
    BY <1>7, FS_Intersection, FS_CardinalityType
  <2>4. IsFiniteSet(lost') /\ Cardinality(lost') <= Cardinality(lost \cup evicted)
    BY <2>1, <2>2, FS_Subset
  <2>5. /\ Cardinality(lost) \in Nat /\ Cardinality(evicted) \in Nat
        /\ Cardinality(lost') \in Nat /\ Cardinality(lost \cup evicted) \in Nat
    BY <1>7, <1>17, <2>2, <2>4, FS_CardinalityType
  <2> QED BY <1>7, <1>17, <2>1, <2>2, <2>3, <2>4, <2>5
<1>19. evictions' \in 0..MaxCounter /\ (Cardinality(lost') <= evictions' \/ evictions' = MaxCounter)
  <2>1. /\ Cardinality(lost) \in Nat /\ Cardinality(evicted) \in Nat /\ Cardinality(lost') \in Nat
    BY <1>7, <1>17, <1>18, FS_CardinalityType
  <2>2. evictions' = IF evictions + Cardinality(evicted) < MaxCounter
                     THEN evictions + Cardinality(evicted) ELSE MaxCounter
    BY <1>1 DEF Limits!Evictions, Limits!Saturated
  <2>3. Cardinality(lost) <= evictions \/ evictions = MaxCounter
    BY DEF LimitsInvariant
  <2> QED BY <1>18, <2>1, <2>2, <2>3, LimitsTypes
<1>20. ASSUME NEW o \in Keys \ lost' PROVE Agrees(o)'
  <2>1. CASE o = k
    <3>1. bucket.startedAt = window.startedAt /\ bucket.count = window.count
      BY <1>4, <1>5, <1>6, <1>16, <1>20, <2>1
    <3> QED BY <1>3, <1>5, <1>8, <1>9, <1>10, <1>14, <2>1, <3>1 DEF Agrees
  <2>2. CASE o # k
    <3>1. o \notin lost /\ (o \in evicted => exact[o] = NoWindow)
      BY <1>16, <1>20, <2>2
    <3>2. Agrees(o) /\ exact'[o] = exact[o] /\ policy' = policy /\ now' = now
      BY <1>1, <1>14, <1>20, <2>2, <3>1 DEF LimitsInvariant
    <3>3. CASE o \in kept
      BY <1>9, <1>10, <2>2, <3>2, <3>3 DEF Agrees
    <3>4. CASE o \in evicted
      BY <1>9, <1>17, <3>1, <3>2, <3>4 DEF Agrees
    <3>5. CASE o \in Limits!Held \ SweptKeys(k)
      <4>1. o \notin kept /\ exact[o].startedAt = buckets[o].startedAt
        BY <1>3, <3>2, <3>5 DEF Agrees
      <4>2. now - buckets[o].startedAt >= policy[o[1]].windowMs /\ policy[o[1]] # Disabled
        BY <1>2, <3>5 DEF LimitsInvariant, BucketHolds
      <4> QED BY <1>9, <3>2, <4>1, <4>2 DEF Agrees
    <3>6. CASE o \notin Limits!Held
      <4>1. o \notin kept
        BY <1>10, <2>2, <3>6
      <4> QED BY <1>9, <3>2, <3>6, <4>1 DEF Agrees
    <3> QED BY <1>17, <3>3, <3>4, <3>5, <3>6
  <2> QED BY <2>1, <2>2
<1>21. Limits!ExactUnlessEvicted'
  <2>1. CASE k \in lost /\ ~(bucket.count = 1 /\ window.count = 1)
    BY <1>1, <2>1 DEF Limits!ExactUnlessEvicted
  <2>2. CASE ~(k \in lost /\ ~(bucket.count = 1 /\ window.count = 1))
    <3>1. bucket.count = window.count
      BY <1>6, <2>2
    <3> QED BY <1>1, <3>1 DEF Limits!ExactUnlessEvicted
  <2> QED BY <2>1, <2>2
<1> QED BY <1>1, <1>2, <1>3, <1>7, <1>9, <1>11, <1>12, <1>13, <1>14, <1>15, <1>18, <1>19, <1>20,
           <1>21 DEF LimitsInvariant

LEMMA ReloadsAreSafe ==
  ASSUME LimitsInvariant, NEW next \in Policies, Limits!Reconcile(next)
  PROVE  LimitsInvariant'
<1> DEFINE kept == Limits!Retained(next)
<1>1. /\ buckets' = [k \in kept |-> buckets[k]] /\ order' = order \cap (kept \X kept)
      /\ exact' = [k \in Keys |-> IF Limits!Unchanged(k[1], next) THEN exact[k] ELSE NoWindow]
      /\ lost' = {k \in lost : Limits!Unchanged(k[1], next)}
      /\ policy' = next
      /\ UNCHANGED <<now, evictions, decision>>
  BY DEF Limits!Reconcile
<1>2. kept = {k \in Limits!Held : Limits!Unchanged(k[1], next)}
  BY DEF Limits!Retained
<1> HIDE DEF kept
<1>3. Limits!Held' = kept /\ \A k \in kept : buckets'[k] = buckets[k]
  BY <1>1 DEF Limits!Held
<1>4. \A k : Limits!Unchanged(k[1], next) => next[k[1]] # Disabled /\ next[k[1]] = policy[k[1]]
  BY DEF Limits!Unchanged
<1>5. IsFiniteSet(kept) /\ Cardinality(kept) <= MaxBuckets /\ kept \subseteq Keys
  <2>1. kept \in SUBSET Limits!Held
    BY <1>2
  <2>2. /\ IsFiniteSet(Limits!Held) /\ Cardinality(Limits!Held) <= MaxBuckets
        /\ Limits!Held \subseteq Keys
    BY DEF LimitsInvariant
  <2>3. IsFiniteSet(kept) /\ Cardinality(kept) <= Cardinality(Limits!Held)
    BY <2>1, <2>2, FS_Subset
  <2>4. Cardinality(kept) \in Nat /\ Cardinality(Limits!Held) \in Nat
    BY <2>2, <2>3, FS_CardinalityType
  <2> QED BY <2>1, <2>2, <2>3, <2>4, LimitsTypes
<1>6. \A k \in Limits!Held' : BucketHolds(k)'
  BY <1>1, <1>2, <1>3, <1>4 DEF BucketHolds, LimitsInvariant
<1>7. order' \subseteq kept \X kept /\ Orders(kept, order')
  BY <1>1, <1>2 DEF Orders, LimitsInvariant
<1>8. \A p \in order' : buckets'[p[1]].lastSeenAt <= buckets'[p[2]].lastSeenAt
  BY <1>1, <1>3 DEF LimitsInvariant
<1>9. \A k \in Keys : WindowHolds(k)'
  BY <1>1 DEF WindowHolds, LimitsInvariant
<1>10. lost' \subseteq lost /\ IsFiniteSet(lost')
       /\ (Cardinality(lost') <= evictions' \/ evictions' = MaxCounter)
  <2>1. lost' \in SUBSET lost /\ IsFiniteSet(lost)
    BY <1>1 DEF LimitsInvariant
  <2>2. IsFiniteSet(lost') /\ Cardinality(lost') <= Cardinality(lost)
    BY <2>1, FS_Subset
  <2>3. Cardinality(lost') \in Nat /\ Cardinality(lost) \in Nat
    BY <2>1, <2>2, FS_CardinalityType
  <2> QED BY <1>1, <2>1, <2>2, <2>3, LimitsTypes DEF LimitsInvariant
<1>11. ASSUME NEW k \in Keys \ lost' PROVE Agrees(k)'
  <2>1. CASE Limits!Unchanged(k[1], next)
    <3>1. k \notin lost /\ exact'[k] = exact[k] /\ (k \in kept <=> k \in Limits!Held)
      BY <1>1, <1>2, <1>11, <2>1
    <3>2. Agrees(k) /\ next[k[1]] = policy[k[1]]
      BY <1>4, <1>11, <2>1, <3>1 DEF LimitsInvariant
    <3> QED BY <1>1, <1>3, <3>1, <3>2 DEF Agrees
  <2>2. CASE ~Limits!Unchanged(k[1], next)
    BY <1>1, <1>2, <1>3, <1>11, <2>2 DEF Agrees
  <2> QED BY <2>1, <2>2
<1>12. Limits!ExactUnlessEvicted'
  BY <1>1 DEF LimitsInvariant, Limits!ExactUnlessEvicted
<1>13. exact' = [k \in Keys |-> exact'[k]]
  BY <1>1
<1> QED BY <1>1, <1>3, <1>5, <1>6, <1>7, <1>8, <1>9, <1>10, <1>11, <1>12, <1>13 DEF LimitsInvariant

LEMMA TicksAreSafe ==
  ASSUME LimitsInvariant, Limits!Tick PROVE LimitsInvariant'
<1>1. /\ now < MaxTime /\ now' = now + 1
      /\ UNCHANGED <<policy, buckets, order, evictions, exact, lost, decision>>
  BY DEF Limits!Tick
<1>2. now \in Nat /\ MaxTime \in Nat
  BY LimitsTypes, LimitsAssumption DEF Limits!RateLimitsAssumption
<1>3. now' \in 0..MaxTime
  BY <1>1, <1>2
<1>4. Limits!Held' = Limits!Held
  BY <1>1 DEF Limits!Held
<1>5. \A k \in Limits!Held : BucketHolds(k)'
  BY <1>1, <1>2 DEF LimitsInvariant, BucketHolds, BucketType
<1>6. \A k \in Keys : WindowHolds(k)'
  BY <1>1, <1>2 DEF LimitsInvariant, WindowHolds, WindowType
<1>7. ASSUME NEW k \in Keys \ lost PROVE Agrees(k)'
  <2>1. Agrees(k) /\ WindowHolds(k)
    BY DEF LimitsInvariant
  <2>2. CASE k \in Limits!Held
    BY <1>1, <1>4, <2>1, <2>2 DEF Agrees
  <2>3. CASE k \notin Limits!Held
    <3>1. SUFFICES ASSUME exact[k] # NoWindow
                   PROVE  policy[k[1]] # Disabled /\ now' - exact[k].startedAt >= policy[k[1]].windowMs
      BY <1>1, <1>4, <2>3 DEF Agrees
    <3>2. /\ policy[k[1]] # Disabled /\ now - exact[k].startedAt >= policy[k[1]].windowMs
          /\ exact[k].startedAt \in Nat
      BY <2>1, <2>3, <3>1 DEF Agrees, WindowHolds, WindowType
    <3>3. policy[k[1]].windowMs \in Nat
      BY <3>2, RuleFacts DEF LimitsInvariant
    <3> QED BY <1>1, <1>2, <3>2, <3>3
  <2> QED BY <2>2, <2>3
<1>8. Limits!ExactUnlessEvicted'
  BY <1>1 DEF LimitsInvariant, Limits!ExactUnlessEvicted
<1> QED BY <1>1, <1>3, <1>4, <1>5, <1>6, <1>7, <1>8 DEF LimitsInvariant

LEMMA LimitsStart ==
  ASSUME Limits!Init PROVE LimitsInvariant
<1>1. /\ now = 0 /\ policy \in Policies /\ buckets = [k \in {} |-> NoWindow] /\ order = {}
      /\ evictions = 0 /\ exact = [k \in Keys |-> NoWindow] /\ lost = {}
      /\ decision = [ok |-> TRUE, exactOk |-> TRUE, lost |-> FALSE]
  BY DEF Limits!Init
<1>2. Limits!Held = {}
  BY <1>1 DEF Limits!Held
<1>3. MaxTime \in Nat /\ MaxCounter \in Nat /\ MaxBuckets \in Nat
  BY LimitsAssumption DEF Limits!RateLimitsAssumption
<1>4. IsFiniteSet({}) /\ Cardinality({}) = 0
  BY FS_EmptySet
<1>5. \A k \in Keys : WindowHolds(k) /\ Agrees(k)
  BY <1>1, <1>2 DEF WindowHolds, Agrees
<1>6. Limits!ExactUnlessEvicted
  BY <1>1 DEF Limits!ExactUnlessEvicted
<1>7. Orders({}, {})
  BY DEF Orders
<1> QED BY <1>1, <1>2, <1>3, <1>4, <1>5, <1>6, <1>7 DEF LimitsInvariant

LEMMA LimitsMove ==
  ASSUME LimitsInvariant, Limits!Next PROVE LimitsInvariant'
BY RequestsAreSafe, ReloadsAreSafe, TicksAreSafe DEF Limits!Next

LEMMA LimitsStutter ==
  ASSUME LimitsInvariant, UNCHANGED limitsVars PROVE LimitsInvariant'
BY DEF limitsVars, LimitsInvariant, Limits!Held, BucketHolds, WindowHolds, Agrees,
       Limits!ExactUnlessEvicted

LEMMA LimitsInvariantIsEnough ==
  ASSUME LimitsInvariant
  PROVE  /\ Limits!TypeOK /\ Limits!ExactUnlessEvicted
         /\ Limits!LeastRecentFirst /\ Limits!LossesAreCounted
<1>1. \A k, o \in Limits!Held : k # o => (<<k, o>> \in order <=> <<o, k>> \notin order)
  BY DEF LimitsInvariant, Orders
<1>2. Limits!TypeOK
  BY <1>1, SameCardinalities DEF LimitsInvariant, Limits!TypeOK, BucketHolds
<1> QED BY <1>2, SameCardinalities
        DEF LimitsInvariant, Limits!LeastRecentFirst, Limits!LossesAreCounted

\* The limiter is exact for any rules, keys, policies and reloads, and any bound of its table:
\* it decides as an unbounded table would, unless the window of the key was evicted, and what
\* was evicted is counted.
THEOREM LimitsAreExact == MCSpec => []ExactUnlessEvicted
<1> DEFINE I == part = "limits" => LimitsInvariant
<1>1. MCInit => I
  BY LimitsStart DEF MCInit
<1>2. I /\ [MCNext]_allVars => I'
  <2>1. ASSUME I, MCNext PROVE I'
    <3>1. part' = part
      BY <2>1 DEF MCNext, RuntimeMoves
    <3>2. CASE part = "limits"
      BY <2>1, <3>1, <3>2, LimitsMove DEF MCNext
    <3>3. CASE part # "limits"
      BY <3>1, <3>3
    <3> QED BY <3>2, <3>3
  <2>2. ASSUME I, UNCHANGED allVars PROVE I'
    BY <2>2, LimitsStutter DEF allVars
  <2> QED BY <2>1, <2>2
<1>3. I => ExactUnlessEvicted
  BY LimitsInvariantIsEnough DEF ExactUnlessEvicted
<1> QED BY <1>1, <1>2, <1>3, PTL DEF MCSpec
=============================================================================
