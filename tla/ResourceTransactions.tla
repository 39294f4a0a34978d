------------------------ MODULE ResourceTransactions ------------------------
(***************************************************************************)
(* ctx.resources.run for one operation on one resource: the attempts of a  *)
(* Job, each in a transaction of its own, and mutations or endpoints that  *)
(* join the transaction of their handler.  The receipt row decides whether *)
(* the operation runs or is replayed; the Job's claim decides whether an   *)
(* attempt may still commit.                                               *)
(*                                                                         *)
(* A deadline is the number of ticks left until it.                        *)
(***************************************************************************)
EXTENDS Integers, FiniteSets

CONSTANTS
    Runtimes,       \* Job workers; each runs one attempt at a time
    Callers,        \* mutation or endpoint invocations
    Digest,         \* actor and input digest under which each of them calls
    JobDigest,      \* that of the Job
    Engine,         \* "sqlite" or "postgres"
    LeaseTicks,     \* claim lease, in ticks
    OuterTicks,     \* the 30 s of an outer scope, in ticks
    Margin,         \* the second kept from admission, in ticks
    MaxClaims,      \* bound: attempts
    MaxFaults       \* bound: crashes, failed commits and lost replies

Actors == Runtimes \cup Callers

ASSUME ActorAssumption ==
    /\ Runtimes \cap Callers = {}
    /\ "none" \notin Actors
    /\ \A r \in Runtimes : Digest[r] = JobDigest
    /\ JobDigest # "none" /\ \A a \in Actors : Digest[a] # "none"

ASSUME EngineAssumption == Engine \in {"sqlite", "postgres"}

ASSUME TickAssumption ==
    /\ LeaseTicks \in Nat \ {0} /\ OuterTicks \in Nat \ {0}
    /\ Margin \in Nat /\ MaxClaims \in Nat /\ MaxFaults \in Nat

VARIABLES
    job,        \* the [sporades_jobs] row
    db,         \* committed effects and the [sporades_resource_receipts] row
    resLock,    \* holder of the resource lock
    jobLock,    \* holder of the row lock of the Job; SQLite has one lock for both
    tx,         \* the invocation of each actor
    canceller,  \* token of the claim that a ctx.jobs.cancel call waits to mark
    overtaken,  \* history: behind the row lock of the present claim's commit a cancel queued
    commits,    \* history: what held when each commit was issued and applied
    faults      \* history: faults so far

vars == <<job, db, resLock, jobLock, tx, canceller, overtaken, commits, faults>>

NoToken == 0

Idle == [pc |-> "idle", token |-> NoToken, left |-> 0, aborted |-> FALSE,
         effect |-> 0, receipt |-> FALSE]

\* Steps of an attempt, then of its settlement; "commit" is COMMIT issued and
\* "applied" its reply on the way.
JobPcs == {"handler", "entry", "lookup", "callback", "claimCheck", "receipt",
           "finalCheck", "precommit", "commit", "applied", "committed",
           "returned", "failed"}
OuterPcs == {"begun", "acquired", "callback", "receipt", "provisional", "cleanup",
             "commit", "applied"}

Init ==
    /\ job = [status |-> "queued", token |-> NoToken, left |-> 0, cancel |-> FALSE]
    /\ db = [effects |-> 0, receipt |-> "none"]
    /\ resLock = "none" /\ jobLock = "none"
    /\ tx = [a \in Actors |-> Idle]
    /\ canceller = NoToken
    /\ overtaken = FALSE
    /\ commits = {}
    /\ faults = 0

-----------------------------------------------------------------------------
(* Transactions and their locks.                                           *)

Goto(a, pc) == tx' = [tx EXCEPT ![a].pc = pc]

Free(lock, a) == lock \in {"none", a}

Unlocked(lock, a) == IF lock = a THEN "none" ELSE lock

\* COMMIT, ROLLBACK or the loss of the connection.
Release(a) ==
    /\ resLock' = Unlocked(resLock, a)
    /\ jobLock' = Unlocked(jobLock, a)

\* Mutant: a transaction that only reads until its first write.
TakeResourceDeferred(a) ==
    /\ Free(resLock, a) /\ (Engine = "sqlite" => Free(jobLock, a))
    /\ UNCHANGED <<resLock, jobLock>>

\* BEGIN IMMEDIATE takes the one write lock of SQLite; PostgreSQL locks the
\* resource row and, when a Job's claim is checked, the row of the Job.
TakeResource(a) ==
    /\ Free(resLock, a) /\ (Engine = "sqlite" => Free(jobLock, a))
    /\ resLock' = a
    /\ jobLock' = IF Engine = "sqlite" THEN a ELSE jobLock

ResourceBusy(a) ==
    ~(Free(resLock, a) /\ (Engine = "sqlite" => Free(jobLock, a)))

Owns(a) == job.status = "running" /\ job.token = tx[a].token

\* assertLive, at admission and later.
Admissible(a) == ~tx[a].aborted /\ tx[a].left > Margin
Live(a) == ~tx[a].aborted /\ tx[a].left > 0

\* checkClaim: the exact claim, and nobody has asked to cancel it.
ClaimHeld(a) == Owns(a) /\ ~job.cancel

\* The scope throws: its transaction is rolled back and the handler fails.
Fail(a) ==
    /\ Release(a)
    /\ tx' = [tx EXCEPT ![a].pc = "failed", ![a].effect = 0, ![a].receipt = FALSE]
    /\ UNCHANGED <<job, db, canceller, overtaken, commits, faults>>

\* A step inside the transaction that changes only the invocation.
Step(a, pc) == Goto(a, pc)
    /\ UNCHANGED <<job, db, resLock, jobLock, canceller, overtaken, commits, faults>>

-----------------------------------------------------------------------------
(* bindJobResources: the transaction of a Job attempt.                     *)

\* The Job worker, here without its timers: a claim and the call of the handler.
Claim(r) ==
    /\ tx[r].pc = "idle"
    /\ job.status = "queued"
    /\ job.token < MaxClaims
    /\ jobLock = "none"
    /\ job' = [job EXCEPT !.status = "running", !.token = @ + 1, !.left = LeaseTicks]
    /\ tx' = [tx EXCEPT ![r] = [Idle EXCEPT !.pc = "handler", !.token = job.token + 1,
                                            !.left = LeaseTicks]]
    /\ overtaken' = FALSE
    /\ UNCHANGED <<db, resLock, jobLock, canceller, commits, faults>>

Enter(r) ==
    /\ tx[r].pc = "handler"
    /\ \/ /\ Admissible(r) /\ TakeResource(r)
          /\ Goto(r, "entry")
          /\ UNCHANGED <<job, db, canceller, overtaken, commits, faults>>
       \/ /\ ~Admissible(r) \/ ResourceBusy(r)
          /\ Fail(r)

\* The first checkClaim: FOR UPDATE NOWAIT on PostgreSQL.
EntryCheck(r) ==
    /\ tx[r].pc = "entry"
    /\ IF Admissible(r) /\ ClaimHeld(r) /\ Free(jobLock, r)
       THEN /\ jobLock' = r
            /\ Goto(r, "lookup")
            /\ UNCHANGED <<job, db, resLock, canceller, overtaken, commits, faults>>
       ELSE Fail(r)

\* The receipt decides: run the callback, replay the result, or refuse.
Lookup(r) ==
    /\ tx[r].pc = "lookup"
    /\ \/ db.receipt = "none" /\ Admissible(r) /\ Step(r, "callback")
       \/ db.receipt = Digest[r] /\ Live(r) /\ ClaimHeld(r) /\ Step(r, "precommit")
       \/ (db.receipt \notin {"none", Digest[r]} \/ ~Live(r) \/ ~ClaimHeld(r)) /\ Fail(r)

Callback(r) ==
    /\ tx[r].pc = "callback"
    /\ \/ /\ Admissible(r)
          /\ tx' = [tx EXCEPT ![r].pc = "claimCheck", ![r].effect = 1]
          /\ UNCHANGED <<job, db, resLock, jobLock, canceller, overtaken, commits, faults>>
       \/ Fail(r)

ClaimCheck(r, pc, next) ==
    /\ tx[r].pc = pc
    /\ IF Live(r) /\ ClaimHeld(r) THEN Step(r, next) ELSE Fail(r)

InsertReceipt(r) ==
    /\ tx[r].pc = "receipt"
    /\ IF Live(r)
       THEN /\ tx' = [tx EXCEPT ![r].pc = "finalCheck", ![r].receipt = TRUE]
            /\ UNCHANGED <<job, db, resLock, jobLock, canceller, overtaken, commits, faults>>
       ELSE Fail(r)

\* What the commit of a makes durable, and the record kept of it.
Apply(a) ==
    /\ db' = [effects |-> db.effects + tx[a].effect,
              receipt |-> IF tx[a].receipt THEN Digest[a] ELSE db.receipt]
    /\ Release(a)
    /\ commits' = commits \cup
            {[by |-> a, claim |-> a \in Runtimes => Owns(a) /\ ~job.cancel,
              intime |-> tx[a].left > 0, intact |-> ~tx[a].aborted]}
    /\ overtaken' = IF a \in Runtimes THEN Engine = "postgres" /\ canceller = tx[a].token
                    ELSE overtaken

\* beforeCommit: the claim is read again.  On SQLite check and COMMIT are one
\* synchronous stretch; on PostgreSQL the row is read with its lock held.
Precommit(r) ==
    /\ tx[r].pc = "precommit"
    /\ \/ /\ Live(r) /\ ClaimHeld(r)
          /\ \/ /\ Engine = "postgres"
                /\ Step(r, "commit")
             \/ /\ Engine = "sqlite"
                /\ Apply(r)
                /\ Goto(r, "applied")
                /\ UNCHANGED <<job, canceller, faults>>
       \/ ~(Live(r) /\ ClaimHeld(r)) /\ Fail(r)

\* Mutant: the handler returns without looking at the row again.
RereadNothing(r) ==
    /\ tx[r].pc = "committed"
    /\ Goto(r, "returned")
    /\ UNCHANGED <<job, db, resLock, jobLock, canceller, overtaken, commits, faults>>

\* After the commit a queued cancellation is read through its row lock, in the
\* order the lock was asked for.
Reread(r) ==
    /\ tx[r].pc = "committed"
    /\ \/ Engine = "sqlite" /\ Goto(r, "returned")
       \/ /\ Engine = "postgres"
          /\ jobLock = "none" /\ canceller = NoToken
          /\ Goto(r, IF Owns(r) /\ job.cancel THEN "failed" ELSE "returned")
    /\ UNCHANGED <<job, db, resLock, jobLock, canceller, overtaken, commits, faults>>

\* The Job worker settles what the handler made of it: a failure is a
\* cancellation when one was asked for, and a retry otherwise.
Settle(r) ==
    /\ tx[r].pc \in {"returned", "failed"}
    /\ jobLock = "none"
    /\ job' = IF ~Owns(r) THEN job
              ELSE [job EXCEPT !.left = 0, !.cancel = FALSE, !.status =
                        IF tx[r].pc = "returned" THEN "succeeded"
                        ELSE IF job.cancel THEN "cancelled" ELSE "queued"]
    /\ tx' = [tx EXCEPT ![r] = Idle]
    /\ UNCHANGED <<db, resLock, jobLock, canceller, overtaken, commits, faults>>

-----------------------------------------------------------------------------
(* bindOuterResources: a scope inside the transaction of its handler.      *)

\* An outer scope that fails poisons the transaction, even if the handler
\* catches the error; Poison is terminalError.
Poison(c) ==
    /\ tx' = [tx EXCEPT ![c].pc = "provisional", ![c].aborted = TRUE]
    /\ UNCHANGED <<job, db, resLock, jobLock, canceller, overtaken, commits, faults>>

\* Before the scope has entered SQLite's writer the handler may catch and go on.
Refused(c) ==
    IF Engine = "postgres" THEN Poison(c) ELSE Step(c, "provisional")

BeginOuter(c) ==
    /\ tx[c].pc = "idle"
    /\ tx' = [tx EXCEPT ![c] = [Idle EXCEPT !.pc = "begun", !.left = OuterTicks]]
    /\ UNCHANGED <<job, db, resLock, jobLock, canceller, overtaken, commits, faults>>

AcquireOuter(c) ==
    /\ tx[c].pc = "begun"
    /\ \/ /\ Admissible(c) /\ TakeResource(c)
          /\ Goto(c, "acquired")
          /\ UNCHANGED <<job, db, canceller, overtaken, commits, faults>>
       \/ Admissible(c) /\ ResourceBusy(c) /\ Refused(c)
       \/ ~Admissible(c) /\ Step(c, "provisional")

LookupOuter(c) ==
    /\ tx[c].pc = "acquired"
    /\ \/ Admissible(c) /\ db.receipt = "none" /\ Step(c, "callback")
       \/ Admissible(c) /\ db.receipt = Digest[c] /\ Step(c, "provisional")
       \/ (~Admissible(c) \/ db.receipt \notin {"none", Digest[c]}) /\ Poison(c)

CallbackOuter(c) ==
    /\ tx[c].pc = "callback"
    /\ \/ /\ Admissible(c)
          /\ tx' = [tx EXCEPT ![c].pc = "receipt", ![c].effect = 1]
          /\ UNCHANGED <<job, db, resLock, jobLock, canceller, overtaken, commits, faults>>
       \* it throws, perhaps after it has written
       \/ \E e \in {0, 1} :
            /\ tx' = [tx EXCEPT ![c].pc = "provisional", ![c].effect = e,
                                ![c].aborted = TRUE]
            /\ UNCHANGED <<job, db, resLock, jobLock, canceller, overtaken, commits, faults>>

InsertReceiptOuter(c) ==
    /\ tx[c].pc = "receipt"
    /\ \/ /\ Live(c)
          /\ tx' = [tx EXCEPT ![c].pc = "provisional", ![c].receipt = TRUE]
          /\ UNCHANGED <<job, db, resLock, jobLock, canceller, overtaken, commits, faults>>
       \* the deadline has passed, or the insert fails
       \/ Poison(c)

RollbackOuter(c) ==
    /\ Release(c)
    /\ tx' = [tx EXCEPT ![c] = Idle]
    /\ UNCHANGED <<job, db, canceller, overtaken, commits, faults>>

\* The handler ends: assertOuterLive and drain refuse a poisoned transaction, and
\* the watchdog is taken down before cleanup goes on.  A handler may also throw.
EndHandler(c) ==
    /\ tx[c].pc = "provisional"
    /\ \/ Live(c) /\ Step(c, "cleanup")
       \/ RollbackOuter(c)

\* The adapter's pre-commit check: COMMIT follows it without an await.
CommitOuter(c) ==
    /\ tx[c].pc = "cleanup"
    /\ IF ~Live(c) THEN RollbackOuter(c)
       ELSE /\ Apply(c)
            /\ Goto(c, "applied")
            /\ UNCHANGED <<job, canceller, faults>>

-----------------------------------------------------------------------------
(* COMMIT and its faults.                                                  *)

\* PostgreSQL applies the commit some time after it was issued.
ApplyJobCommit(r) ==
    /\ r \in Runtimes /\ tx[r].pc = "commit"
    /\ Apply(r)
    /\ Goto(r, "applied")
    /\ UNCHANGED <<job, canceller, faults>>

CommitReply(a) ==
    /\ tx[a].pc = "applied"
    /\ tx' = [tx EXCEPT ![a] = IF a \in Runtimes THEN [@ EXCEPT !.pc = "committed"]
                               ELSE Idle]
    /\ UNCHANGED <<job, db, resLock, jobLock, canceller, overtaken, commits, faults>>

\* RESOURCE_COMMIT_UNKNOWN after the commit took effect, or a rejected commit.
CommitFails(r) ==
    /\ faults < MaxFaults
    /\ faults' = faults + 1
    /\ tx[r].pc \in {"commit", "applied"}
    /\ Release(r)
    /\ tx' = [tx EXCEPT ![r].pc = "failed"]
    /\ UNCHANGED <<job, db, canceller, overtaken, commits>>

-----------------------------------------------------------------------------
(* Cancellation, shutdown, crash, lease recovery and time.                 *)

\* ctx.jobs.cancel of the present claim, whose update waits for the row.
RequestCancel ==
    /\ canceller = NoToken
    /\ job.status = "running" /\ ~job.cancel
    /\ canceller' = job.token
    /\ UNCHANGED <<job, db, resLock, jobLock, tx, overtaken, commits, faults>>

GrantCancel ==
    /\ canceller # NoToken
    /\ jobLock = "none"
    /\ job' = IF job.status = "running" /\ job.token = canceller
              THEN [job EXCEPT !.cancel = TRUE] ELSE job
    /\ canceller' = NoToken
    /\ UNCHANGED <<db, resLock, jobLock, tx, overtaken, commits, faults>>

\* The signal of a running handler: a cancel on its own runtime, or shutdown.
Abort(r) ==
    /\ tx[r].pc \in JobPcs \ {"commit", "applied", "committed", "returned", "failed"}
    /\ ~tx[r].aborted
    /\ tx' = [tx EXCEPT ![r].aborted = TRUE]
    /\ UNCHANGED <<job, db, resLock, jobLock, canceller, overtaken, commits, faults>>

\* The process ends and its connection with it; a commit on the way is applied
\* or lost.
Crash(a) ==
    /\ faults < MaxFaults
    /\ faults' = faults + 1
    /\ tx[a].pc # "idle"
    /\ \/ UNCHANGED <<db, overtaken, commits>> /\ Release(a)
       \/ tx[a].pc = "commit" /\ Apply(a)
    /\ tx' = [tx EXCEPT ![a] = Idle]
    /\ UNCHANGED <<job, canceller>>

\* recoverExpiredJobLeases, by any runtime, waits for the row as well.
RecoverLease ==
    /\ job.status = "running" /\ job.left = 0
    /\ jobLock = "none"
    /\ job' = [job EXCEPT !.status = IF job.cancel THEN "cancelled" ELSE "queued",
                          !.cancel = FALSE]
    /\ UNCHANGED <<db, resLock, jobLock, tx, canceller, overtaken, commits, faults>>

\* An outer watchdog fires while its invocation is active, not during cleanup.
Passed(a) ==
    [tx[a] EXCEPT
        !.left = IF @ > 0 THEN @ - 1 ELSE 0,
        !.aborted = @ \/ /\ a \in Callers /\ tx[a].left = 1
                         /\ tx[a].pc \in {"begun", "acquired", "callback",
                                          "receipt", "provisional"}]

Tick ==
    /\ tx' = [a \in Actors |-> Passed(a)]
    /\ job' = [job EXCEPT !.left = IF @ > 0 THEN @ - 1 ELSE 0]
    /\ UNCHANGED <<db, resLock, jobLock, canceller, overtaken, commits, faults>>

-----------------------------------------------------------------------------

JobStep(r) ==
    \/ Claim(r) \/ Enter(r) \/ EntryCheck(r) \/ Lookup(r) \/ Callback(r)
    \/ ClaimCheck(r, "claimCheck", "receipt") \/ InsertReceipt(r)
    \/ ClaimCheck(r, "finalCheck", "precommit") \/ Precommit(r)
    \/ ApplyJobCommit(r) \/ Reread(r) \/ Settle(r)

OuterStep(c) ==
    \/ BeginOuter(c) \/ AcquireOuter(c) \/ LookupOuter(c) \/ CallbackOuter(c)
    \/ InsertReceiptOuter(c) \/ EndHandler(c) \/ CommitOuter(c)

Next ==
    \/ Tick \/ RequestCancel \/ GrantCancel \/ RecoverLease
    \/ \E r \in Runtimes : JobStep(r) \/ CommitFails(r) \/ Abort(r)
    \/ \E c \in Callers : OuterStep(c)
    \/ \E a \in Actors : CommitReply(a) \/ Crash(a)

Spec == Init /\ [][Next]_vars

-----------------------------------------------------------------------------

JobStates == [status : {"queued", "running", "succeeded", "cancelled"},
              token : Nat, left : Nat, cancel : BOOLEAN]
DbStates == [effects : Nat, receipt : {"none"} \cup {Digest[a] : a \in Actors}]
TxStates == [pc : {"idle"} \cup JobPcs \cup OuterPcs, token : Nat, left : Nat,
             aborted : BOOLEAN, effect : {0, 1}, receipt : BOOLEAN]

TypeOK ==
    /\ job \in JobStates
    /\ db \in DbStates
    /\ resLock \in Actors \cup {"none"}
    /\ jobLock \in Actors \cup {"none"}
    /\ tx \in [Actors -> TxStates]
    /\ canceller \in Nat
    /\ overtaken \in BOOLEAN
    /\ commits \subseteq [by : Actors, claim : BOOLEAN, intime : BOOLEAN,
                          intact : BOOLEAN]
    /\ faults \in Nat

\* The operation takes effect at most once, and exactly when its receipt is there:
\* over every attempt, replay, lost COMMIT reply, crash and competing mutation.
EffectsMatchReceipt == db.effects = IF db.receipt = "none" THEN 0 ELSE 1

\* Whatever a Job attempt commits, it commits while the row still carries its
\* claim and no cancellation: a lease that was recovered, or a cancel that was
\* stored, between the checks and COMMIT would be seen.
JobCommitsUnderItsClaim == \A c \in commits : c.by \in Runtimes => c.claim

\* The transaction of a handler is committed only before the deadline of its
\* resource scope and never after the scope failed, even when the handler caught
\* the failure and even in the gap after the watchdog was taken down.
OuterCommitsInTime ==
    \A c \in commits : c.by \in Callers => c.intime /\ c.intact

\* A Job that is recorded as succeeded has its effect, under its own digest.
SuccessHasReceipt == job.status = "succeeded" => db.receipt = JobDigest

\* (PostgreSQL.)  A cancellation that was queued behind the row lock when the
\* attempt committed wins: that claim never settles as a success.
QueuedCancelWins == overtaken => job.status # "succeeded"

\* Whatever is committed of an operation, somebody was still entitled to.
CommitsAreEntitled ==
    JobCommitsUnderItsClaim /\ OuterCommitsInTime /\ SuccessHasReceipt /\ QueuedCancelWins

\* Only a transaction in progress holds a lock; nobody else waits forever.
LocksHaveOwners ==
    \A a \in Actors :
        tx[a].pc \in {"idle", "handler", "begun", "applied", "committed",
                       "returned", "failed"} => a \notin {resLock, jobLock}

\* Only a transaction in progress holds a lock, so an attempt that ended leaves the
\* resource to others; and with its effect, its receipt.
EffectsMatchReceipts == TypeOK /\ LocksHaveOwners /\ EffectsMatchReceipt
=============================================================================
