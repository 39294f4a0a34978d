---------------------------- MODULE JobLifecycle ----------------------------
(***************************************************************************)
(* What the Job queue promises about one Job, whatever runtimes, claims,   *)
(* leases and crashes are behind it: the moves that the statements of      *)
(* enqueue, the worker, lease recovery and cancellation can make of its    *)
(* stored status, attempt count and cancellation marker                    *)
(* (docs/reference/jobs-and-schedules.md 68-116, 180-200).                 *)
(***************************************************************************)
EXTENDS Integers

CONSTANTS Jobs, MaxAttempts

VARIABLES status, attempts, requested   \* requested: a cancellation was asked for

lifecycle == <<status, attempts, requested>>

\* A store may hold Jobs that an earlier process left running.
Init ==
    /\ status \in [Jobs -> {"absent", "running"}]
    /\ attempts = [j \in Jobs |-> IF status[j] = "running" THEN 1 ELSE 0]
    /\ requested = [j \in Jobs |-> FALSE]

\* A move of job j: from one status to another, the attempts changed by d.
Move(j, from, to, d) ==
    /\ status[j] = from
    /\ status'[j] = to
    /\ attempts'[j] = attempts[j] + d
    /\ requested'[j] = requested[j]

Submit(j) == Move(j, "absent", "delayed", 0) \/ Move(j, "absent", "queued", 0)

Ready(j) == Move(j, "delayed", "queued", 0)

Attempt(j) == attempts[j] < MaxAttempts[j] /\ Move(j, "queued", "running", 1)

Request(j) ==
    /\ status[j] = "running" /\ status'[j] = "running"
    /\ attempts'[j] = attempts[j]
    /\ requested'[j] = TRUE

Finish(j) == Move(j, "running", "succeeded", 0) \/ Move(j, "running", "failed", 0)

Retry(j) == attempts[j] < MaxAttempts[j] /\ Move(j, "running", "delayed", 0)

\* An attempt that did not count goes back, unless its Job is to be cancelled.
GiveBack(j) ==
    ~requested[j] /\ (Move(j, "running", "queued", -1) \/ Move(j, "running", "delayed", -1))

\* A waiting Job is cancelled at will, a running one only on request.
Cancel(j) ==
    \/ Move(j, "queued", "cancelled", 0) \/ Move(j, "delayed", "cancelled", 0)
    \/ requested[j] /\ \E d \in {0, -1} : Move(j, "running", "cancelled", d)

Stay(j) ==
    status'[j] = status[j] /\ attempts'[j] = attempts[j] /\ requested'[j] = requested[j]

\* One statement may move several Jobs: promotion readies every due one.
Next ==
    \A j \in Jobs :
        \/ Submit(j) \/ Ready(j) \/ Attempt(j) \/ Request(j) \/ Finish(j)
        \/ Retry(j) \/ GiveBack(j) \/ Cancel(j) \/ Stay(j)

Spec == Init /\ [][Next]_lifecycle
=============================================================================
