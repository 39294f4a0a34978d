# Sporades in TLA+

Sporades runs a *Capsule*: a TypeScript server with a database, live queries,
background Jobs, cron Schedules, mail, files, teams and payments, started by a
Dev server, a container or a host. This directory holds TLA+ models of its
runtime, the TLC configurations that check them, and TLAPS proofs about them.
The models are translated from the code under `src/`; documentation, comments
and tests are only cited for what they promise.

Contents: 1 Inventory, 2 Modules, 3 Runs, 4 Where code and documentation
disagree, 5 Proofs, 6 Plan, 7 Not modelled. `PROJECT.json` maps every
definition to its lines and lists every hazard at its line.

## 1. Inventory

Line numbers without a file are those of `src/src/server-runtime-source.ts`.

| Part | State it keeps | What is hard | What makes it correct | Modules |
|---|---|---|---|---|
| Job queue (8007-8491, 2187-2486; `jobs-runtime.ts` 977-1464) | `sporades_jobs`: status, `availableAt`, attempts, lease, claim token, cancellation marker, attempt history; abort controllers in memory | every statement is awaited: several runtimes, scans and cancellers interleave; crashes; expired leases | a claim is exclusive until it expires; settled rows are final; every started attempt is charged and recorded; a cancellation reaches the handler | `JobQueue`, `JobLifecycle`, `JobQueueRefinement` |
| Job timers (2292-2398, 8144-8266) | worker timer, rerun flag, wake and lease timers, recovery chain | dispatches that meet a finishing pass, replaced wakes, capped native timers, failed scans, stop during a pass | no committed Job is forgotten; a stopped runtime arms nothing | `JobTimers` |
| Schedules (1258-2163; `jobs-runtime.ts` 535-715) | `sporades_schedules`, `sporades_schedule_occurrences`, timers | a new generation against claims in flight, claims that expire while a factory runs, a crash between cursor and occurrence | one Job per occurrence, only by the live generation; nothing pending is forgotten | `ScheduleOccurrences` |
| Payload factories (`jobs-runtime.ts` 721-831) | slots, waiters, a lane per Schedule, abort controllers | abort while queued, handing a slot over | slots are conserved; no idle slot while somebody waits; one at a time per Schedule, in order | `PayloadFactories` |
| Resource transactions (`resource-runtime.ts`, `database-runtime.ts` 1960-2430) | receipts, resource and row locks, deadlines | deadline against commit, claim lost while committing, lost COMMIT replies | effect and receipt commit together, once, under a live claim | `ResourceTransactions` |
| Notification intents (`notification-intent-runtime.ts`) | recipients with state, attempt sequence, deadline | a late answer after the reservation expired | a positive reply is kept, nobody is forgotten, duplicates have a cause | `NotificationIntents` |
| Stripe events and team billing (`team-billing-*.ts`, `teams-runtime.ts` 595-615) | Subscription row, observations; desired row, operations, provider lane | events in any order; provider writes outside transactions; restarts | the row is the newest accepted evidence; Stripe follows the Team; one provider write at a time | `TeamBillingEvents`, `TeamBillingSeats` |
| Stripe payload retention (`jobs-runtime.ts` 116-436) | retention instants, a durable cursor, one timer chain | overlapping passes, unreadable rows, chunked timers | payloads are erased once due, never early | `StripePayloadRetention` |
| Runtime replacement (516-655, 1116-1370; `cli/sporades.ts` 2800-3460) | current and candidate runtime, their Jobs and Schedule authority | any step may fail with two runtimes open | never two at work, never none in service | `RuntimeReplacement` |
| Live queries (5474-6885, 7130-7220; `live-query-invalidation.ts`) | dirty tables, write generation, subscriptions and their runs, row cache | a write during a running query, replacement of a terminated user's session | a subscription at rest shows the last write; nothing of a terminated user passes the fence | `LiveQueries` |
| Rate limits (`bounded-fixed-window.ts`, `admission-rate-limit.ts`, `capsule-rate-limit.ts`) | a bounded table of windows | eviction at the bound, reload of the rules | decisions are exact unless a window was evicted | `RateLimits` |
| Database gate (`database-runtime.ts` 200-280, 3180-3200) | tail of a chain of promises, active transaction, postponed operations | aborts while waiting, nested calls, close | a fair lock; everybody is answered | `TransactionGate`, `SerialTransactions` |
| File ingress and storage (`file-storage-runtime.ts`, `file-ingress-runtime.ts`, 1640-1692, 3980-4068) | uploads, Files, public URLs, objects; receipts; audit outbox | database and object store have no common transaction; overtaken uploads, sweeps against late commits, lost replies | a File always has its bytes; no bytes are lost track of; every claim is audited | `FileUploads`, `FileIngress`, `IngressAuditOutbox` |
| Configuration files (`file-transaction.ts`) | targets, temporary files, backups on disk | any operation may fail with or without effect; crash | all new, or all recoverable; the report is true | `FileReplacement` |
| Authentication, access keys, access control, service users, mail and Stripe transport, AI and MCP, HTTP, client runtime, observability, build pipeline, services, database inspection, CLI and host helper | | mostly I/O | | section 7 |

How they interact: Schedules enqueue Jobs in the transaction that settles an
occurrence; Job handlers open resource transactions that are fenced by the Job's
claim; resource commits may stage notification intents; Stripe events, retention
and team billing are Jobs; every commit feeds the live-query window; a
replacement defers, activates and stops all of them. The models meet at these
interfaces by name (a Job's claim, `job.token` of `ResourceTransactions`, is the
`token` of `JobQueue`), and where one needs a part of another it carries a cut
down copy: `RuntimeReplacement` has workers and recovery of `JobTimers`,
`TeamBillingSeats` a queue of Job generations with three attempts.

## 2. Modules

In every module one action is one awaited statement or the code between two
awaits, unless it says otherwise; guards are the code's conditions, and a crash
may come between any two actions where something is stored. History variables
are named as such. Every bound is a constant, and no theorem depends on its value.

### JobQueue, JobLifecycle, JobQueueRefinement

`row[j]` is the row of `sporades_jobs`; `token` is the serial number of the
claim's UUID, `hist` the length of `attemptHistory`. `wk[r]` is
`runCurrentUserJobWorker` in runtime `r`: its place between two awaits, and the
copy of the row it selected, which the code keeps using after the row has moved
on. `scan[r]` is what a recovery scan read, `canceller` a `ctx.jobs.cancel` call
in progress, `charged` is history.

| Action | Code |
|---|---|
| `Enqueue` | 8045-8089 |
| `Promote`, `Select`, `NextDelayed`, `FailInvalid` | 8268-8286, 8254-8266, 2453-2461 |
| `Claim`, `ClaimLost`, `Register`, `Recheck`, `Start` | 8287-8369 |
| `HandlerEnds`, `ReadCancellation`, `DeferContention`, `Settle`, `Relinquish`, `WorkerThrows` | 8337-8491, 8216-8252 |
| `CancelRead`, `CancelWaiting`, `CancelRunning`, `CancelAbort` | `jobs-runtime.ts` 1398-1464 |
| `ScanLeases`, `RecoverRow` | 2187-2290 |
| `Open`, `Activate`, `Stop`, `Close`, `Crash` | 2463-2480, 2292-2303, 8160-8177, 516-530, process loss |

Abstracted: when a pass or scan starts (any time the runtime is active;
`JobTimers` has the timers); the capture of the clock and the read that follows
it are one step; a scan keeps only the rows that are due;
`recoverInvalidRetainedJobState` runs in one step of `Open`; one cancellation at
a time, without its bound of eight rounds; JSON and provenance validation is a
choice (`Invalid`) for legacy rows; the year-9999 horizon, idempotency keys and
dispatch inside a caller's transaction are left out; the branch after a success
that changed no row (8395-8408) can never match a row that the settlement did not
match, and has no action. `FailInvalid` is only reached by the race of the first
finding (proved: under `NoSameInstant` it never is), which is why
`job_queue_overlap` has retries that do not wait.

`JobLifecycle` is what one Job may do: submit, ready, attempt (only while the
policy has one left), request cancellation, finish, retry, give an attempt back,
cancel. `JobQueueRefinement` reads its `status`, `attempts` and `requested` from
the rows.

### JobTimers

One process over the same rows. An instant is the number of ticks still to go,
so no clock bound is needed. The wake and lease timers are cut at
`MaxNativeDelay`, as the code cuts them at 2^31-1 ms. `wk.later` holds the rows
that were not due at the pass's clock reading. Claims cannot be contested here,
and a lease scan updates its rows in one step; `JobQueue` has both in full. A
rejected worker statement is an unhandled rejection, which
`runtime-restart-policy.ts` turns into a process restart: it is `Crash`.

### ScheduleOccurrences

`sched` is the Schedule's row (generation, declaration, `enabled`, cursor),
`occ[o]` the row of cron instant `o` in `1..Last`, `jobs[o]` how many Jobs were
enqueued for it. `rt[r]` is runtime `r`: its copy of the declaration with a
cursor of its own, the occurrence its timer is armed for, its recovery timer.
`wk[r]` has two workers, the timer's callback and recovery; both run
`recordScheduledOccurrence`. `skipped` and `chosen` are history.

| Action | Code |
|---|---|
| `PublishFresh`, `PublishSame`, `PublishDisabled`, `PublishRemoved` | 1466-1614, 1258-1277 |
| `TimerFires`, `ChunkEnds`, `RecoveryFires` | 1747-1779, 2129-2163 |
| `Claim`, `ClaimFails` | 1876-1968, 1764-1770 |
| `Finalise`, `FinaliseFails`, `FinishFailed`, `FinishFailedFails` | 1791-1874; `jobs-runtime.ts` 686-703 |
| `Scan`, `NextRow`, `SupersedeRetained`, `EndScan`, `ScanFails` | 1970-2006, 2090-2127, 2148-2153 |
| `Stop`, `ClearTimers`, `Close`, `Crash` | 1307-1346, 1730-1737, process loss |

One transaction is one action: each locks the Schedule row first. Abstracted:
the cron calculation (instants are numbered), the definition fingerprint inside a
generation, several Schedules in one declaration set (they share the
reconciliation transaction and the recovery loop, whose error path is
`ClaimFails`), adoption of v0.8.5 rows, quarantine of malformed rows, the
shortened claim at the end of year 9999. A payload factory succeeds or gives no
payload.

### PayloadFactories

`resolveSchedulePayload`: a call waits for its lane, then for a slot, runs its
factory, may time out or be aborted, and hands its slot to the first waiter. User
code that goes on after its timeout is not tracked, since it holds neither slot
nor lane; the check for an abort and the start of the factory are one step, as
they are one synchronous piece of code.

### ResourceTransactions

One operation that a Job's attempts (`Runtimes`) and other handlers (`Callers`)
run on one resource: a Job scope (claim check, lock, receipt lookup, callback,
claim check, receipt, commit) or an outer scope with a deadline. `db` is what is
committed, `tx[a]` what actor `a` has done in its transaction, `resLock` and
`jobLock` the locks (on SQLite one). `overtaken` (PostgreSQL only) remembers a
cancellation that was queued on the row lock of a commit. The worker's claim and
settlement are cut down from `JobQueue`; recovery's NOWAIT locks skip a locked
row; SQLite's last check and COMMIT are synchronous, hence one step. A COMMIT may
apply and lose its reply. Abstracted: ACL checks and logs (a callback may fail),
status calls, wrapping of capabilities, schema bootstrap, several operations.

### NotificationIntents

`row[q]` is a recipient, `wk[r]` the delivery loop of runtime `r`, `verdicts` and
`confirmed` (external) what the receiver decided and the caller was told. An
attempt's token is its sequence (the HMAC is left out), the clock is relative
(`wait`), and reading the clock is part of the transaction it precedes. `Overrun`,
a reservation that ends during the SMTP conversation, counts as a fault since the
window is longer than the slowest conversation. The storage bootstrap before the
first pass is abstracted to a failing statement.

### TeamBillingEvents, TeamBillingSeats

`TeamBillingEvents`: Stripe (external) changes one Subscription of a members
product, writes events with a clock of whole seconds, and delivers them at least
once in any order; `Deliver` is the atomic fence with observation, inference of
the Team, ratchet (`team-billing-convergence.ts` 49-330) and projection. Left
out: digest mismatches, malformed evidence, several Subscriptions, erasure
tombstones, Checkout events. `EarlyInvoices` says whether a failed payment's
event may overtake the first snapshot.

`TeamBillingSeats`: a change stages the one desired row of a Team and enqueues a
Job generation; the Job claims the lane, writes at Stripe outside any
transaction, and leaves the row waiting for evidence; an event that carries the
target settles it; `Restart` is a crash with the startup repair, atomic. Left
out: the product's minimum, the end of a Subscription, erasure, catalogue
changes. Retrieve and update at Stripe are one step. A delayed generation is due
only while the lane is free, a lane claim expires only when its worker is gone.
`LateWrites`: a request that its client gave up may reach Stripe later;
`MayLeave`: members also leave.

### StripePayloadRetention

One action is one statement of a cleanup pass with the code up to the next one;
a tick stands for about a day, and a due timer fires before time goes on.
`Restart` is a crash with the activation. `Overtaken` lets a settlement fall
between the end of a pass and the end of its promise, `LosesReplies` lets an
applied settlement be reported as failed. `RepairsUntil` bounds repairs so that
there is time to find them.

### RuntimeReplacement

`rt[r]` is one runtime (adapter, phase of its shutdown, worker, recovery), `live`
the one the server uses, `restart[s]` the replacement that caller `s` is in: open,
prepare, init, preflight, teardown, activation, or discarding the candidate.
`jobs` and `authority` are shared through the database. A failed `close` is only
reported, so it is no action; `InitEnds` awaits nothing that fails. `Overruns`: a
handler may outlive its lease; `Degrades`: an activation may lose its dispatch.
Left out: SIGTERM during a restart, the ClamAV sidecar and the Admission policy,
containers and Hosted replacement.

### LiveQueries

A write is a new version of a table, and each writer writes one table. A query
reads its tables one statement at a time; its result is the versions it saw.
The window (`dirty`, `generation`, `dispatched`) is per run of the refresh; a
subscription's own generation is the flag `valid`. A write statement and the
clearing of the row cache are one step; SELECT and the filling of the cache are
two only where answers may be overtaken (`OneWire`).

Every message looks its client's Session up and assigns `client.session` before it
is handled (5841-5850); the messages of one client are handled one after the other.
`sub[s].actor` is that session. `FindSession` is the lookup that finds a row of the
user and `Resolved` what is assigned after its answer; a message that finds none
(its row is gone, or its token is another) is resolved in one step, as anonymous.
`Subscribe` and `Unsubscribe` begin with it; `ResolveSession` is every other message,
a subscription of another identifier included. A resolved message touches no
generation. `Terminate` is the COMMIT that deletes the user's Sessions, `Retire` the
fence, some awaits later, which passes over clients that are no longer the user's;
`fenced` is history. Where statements are answered in order, no lookup that
found the row is still under way at the COMMIT. Left out: signing in again after it,
`unscoped` writes, what else the other websocket messages do, heartbeats, frames,
connection tokens.

### RateLimits, TransactionGate, SerialTransactions, FileReplacement

`RateLimits`: `bounded-fixed-window.ts` as request admission and `ctx.rateLimit`
use it. The code's Map is the function `buckets` with `order`, the relation "was
inserted before": iteration meets the first-inserted bucket first, and a bucket
that is counted again is deleted and inserted at the end. `exact`, `lost` and
`decision` are history and compare it with an unbounded table. The clock is
monotonic and ends at `MaxTime`; the counter of evictions saturates. Access-key
limiters, which use it differently, are left out.

`TransactionGate`: the chain of promises before one connection. What a callback
does on its own connection is not looked at. Operations that arrive while others
are drained run at once. `close` is libSQL's; the other adapters never seal their
gate. `SerialTransactions` is the lock that it promises: granted one at a time in
the order of the calls; `Serial` is the refinement.

`FileReplacement`: `replaceFilesAtomically`, one action per operation on the
disk, which may fail with or without its effect. Targets are distinct, as the
code checks.

### FileUploads, FileIngress, IngressAuditOutbox

`FileUploads`: one runtime, whose transactions exclude each other and direct
statements (`TransactionGate`), so `gate` names the PUT whose transaction is
open. An upload is known by its version, a File by the upload that first named
it. Prepares are serialised by the "capsule" lock, hence one `prepare`. Faults are
failed writes, statements and commits, with or without effect, failed removals,
crashes. A deletion inside a larger transaction removes its bytes after the
commit, in the same step. `doomed` are the versions somebody is about to remove,
`lost` (history) those whose removal a failure cut off. Abstracted: one owner,
buckets, MIME and size checks (`Refused`), upload ACL, progress events, expiry of
URLs.

`FileIngress`: multipart parts from the insertion of their receipt to the claim
in the endpoint's transaction (atomic here), their withdrawal, and the sweep.
Identities are the request that made them; retries are identical; a lease
expires at any time; a sweep selects its whole batch. No inspection policies.

`IngressAuditOutbox`: the outbox row of a claim, its delivery and pruning. A
drain is single-flight per runtime, so its token is the runtime; intents are
delivered in order and a day passes in that order; the limits of a batch are not
reached. A start resets live deliveries of others, as the code does.
`LosesClaims`, `LosesCommits` and `OneWire = FALSE` are libSQL's HTTP.

### The MC modules

`MCJobQueue` and `MCScheduleOccurrences` instantiate one module each. The others
put modules side by side that share no state: the MC module EXTENDS one of them,
its host, whose properties a run checks as they stand there and whose theorems
speak of the same definitions, and takes the others by INSTANCE. A behaviour
moves one of them, in one of its instances, which the variable `part` names, and
leaves the others as they started. Nothing is lost by this: since they share no
variable, every interleaving of them is, seen by one, a behaviour of that one
with stuttering. A property of another part is stated as `part = "..." => ...`,
and the host's properties are checked in every part.

The parameters of the other parts (how many rows, files or requests, which limits,
which failures) are constants of the MC module too, given values in its `.cfg`, so
that the theorems of section 5 about `MCSpec` speak of every value of them. An
instance that differs from another only in such a value is a record constant:
`Shared`, `Lossy` and `Single` are outboxes, `Plain`, `Retries` and `Fair`
ingresses, `Tables2`, `JobCache`, `ActorCache`, `Ending` and `FairHub` hubs, `Seats`,
`Plans` and `FairSeats` Teams, `Runtimes2`, `FairRuntime`, `Pages` and `Replies`
stores with their runtimes.

| MC module | Host | Beside it |
|---|---|---|
| `MCJobQueue` | `JobQueue` | |
| `MCLiveQueries` | `JobQueueRefinement` | `LiveQueries` (five instances) |
| `MCJobTimers` | `JobTimers` | `PayloadFactories` |
| `MCSchedules`, `MCScheduleOccurrences` | `ScheduleOccurrences` | |
| `MCEffects` | `ResourceTransactions` | `NotificationIntents` |
| `MCRuntime` | `RuntimeReplacement` | `TransactionGate`, `FileReplacement`, `RateLimits` |
| `MCStripe` | `TeamBillingEvents` | `TeamBillingSeats`, `StripePayloadRetention` |
| `MCFiles` | `FileUploads` | `FileIngress`, `IngressAuditOutbox` |

## 3. Runs

| Run | What it checks | Properties |
|---|---|---|
| `job_queue_overlap` | two runtimes, one Job whose retries do not wait: claims, expired leases, crashes, reads an attempt old | `OwnedUntilExpiry`, `ClaimInvariant` |
| `job_queue_one` | one runtime, a legacy running row and a Stripe Job: refunds, shutdown, cancellation | `TypeOK`, `StartsAreCharged`, `CancelReachesHandler`, `TerminalIsFinal` |
| `live_queries` | the hub in five instances; beside it two runtimes over one Job whose retries wait | `QuietIsFresh`, `NothingOfTheFormerActor`, `EventuallyFresh`, `HistoryIsComplete`, `ImplementsLifecycle` |
| `job_timers` | one Job far ahead with timers in pieces and two faults; two Jobs, one fault, fair; factories on two slots and, fair, on one | `NothingIsForgotten`, `StoppedArmsNothing`, `FactoriesTakeTurns`, `EverythingEnds` |
| `schedules` | two runtimes that overlap without faults; one that stops, crashes and restarts under each missed-run policy, fair | `TypeOK`, `JobIffEnqueued`, `PendingIsCovered`, `EnqueuedAsDeclared`, `RestartedPendingSettles` |
| `effects` | two attempts and two mutations on both engines; an intent with two recipients and two runtimes, fair | `EffectsMatchReceipts`, `CommitsAreEntitled`, `IntentsAreSafe`, `EveryRecipientEnds` |
| `runtime` | replacement with two runtimes and two faults, with three and one, and fair; the gate; three files and three faults; the windows | `NeverStranded`, `RetiredIsQuiet`, `FilesAreRecoverable`, `ExactUnlessEvicted`, `ReplacementHandsOver`, `GateIsALock` |
| `stripe` | four events in any order, three with early invoices; seats, plans, seats fair; retention in four instances | `RowIsNewestAccepted`, `NoTeamIsMisled`, `PayloadsAreKept`, `NeverBackwards`, `EverythingConverges` |
| `files` | uploads on one path and on two; ingress with retries, sweepers, failures, and fair; the outbox with lost answers, and fair | `UploadsAreSafe`, `StorageIsConsistent`, `OutboxIsSafe`, `OvertakenNeverPublish`, `EverythingEnds` |
| `job_queue_same_instant` | two runtimes, `delayMs` 0 | violates `AttemptsWithinPolicy` (section 4) |
| `schedule_skip` | one runtime, `skip`, long waits, one crash | violates `SkippedNeverRun` (section 4) |
| `schedule_latest` | one runtime, `latest`, two faults | violates `ChosenIsRecorded` (section 4) |

A property of a composite run is the conjunction of what its parts promise;
the comment above it and above each conjunct's own definition says so. The
deadlock check is off where a system rightly comes to rest (all Jobs settled, all
PUTs over, nothing left to replace) and bounds end the rest.

### Bounds

- `JobQueue`: `MaxTime` and `MaxClaims` end the exploration, `Availabilities`
  bounds what callers ask for. They allow a claim, its expiry, a second claim by
  the other runtime and the late return of the first: the longest race the
  properties speak about, since every statement compares one row with one
  snapshot. The theorems remove these bounds.
- `JobTimers`: `MaxNativeDelay` (3) is smaller than the longest wait and the lease
  (4), so both timers are chunked; two faults let a process crash while it
  recovers from a crash.
- `ScheduleOccurrences`: two instants after which the calendar is over, as the
  code handles it; publications are one more than faults, so a runtime that went
  down can start again. The overlap instance has claims that expire while their
  factory runs. r1 publishes first and the first declaration is not d2: names are
  interchangeable, and liveness forbids SYMMETRY. Three faults break
  `PendingIsCovered` and `EveryPendingSettles` as a consequence of the finding
  `schedule_skip`: the cursor regresses, the timer claims an occurrence behind one
  that recovery is settling, and both of its transactions fail. These two are
  therefore claimed for two faults only.
- `ResourceTransactions`: two attempts and one mutation without faults, two
  attempts with two faults, and on SQLite with one: a lost reply, a crash, a
  deadline and an expired lease all meet a commit.
- `NotificationIntents`: a reservation of two ticks, backoff up to two, so that a
  late answer meets the next reservation; two faults.
- `LiveQueries`: one write per writer and one subscription per client (two in the
  hub that ends a user, whose clients both belong to the user): a window, a run in
  flight and a second write, a message before and after the fence. Lookups and
  messages that only change the session are not bounded.
- `RuntimeReplacement`: two runtimes with all faults, or three (two replacements
  in a row) with one.
- `TransactionGate`: three transactions, of which any may call the gate again, and
  an operation: one running, one waiting that is aborted, one behind it.
- `RateLimits`: two buckets for three keys, windows of 2 and 3 ticks.
- `FileReplacement`: three files, so that a failure has files before and after it.
- `TeamBillingEvents`: four events: a purchase, two changes that may overtake each
  other, a deletion or failed payment.
- `TeamBillingSeats`: a Team that grows twice while its first write is under way;
  `LateWrites` FALSE for seats and TRUE for plans, `MayLeave` FALSE (section 4).
- `StripePayloadRetention`: a batch of one, so that every second row needs a next
  page.
- `FileUploads`: two PUTs and three versions: two may upload to one File while a
  third was prepared. `FileIngress`: three identical requests and two sweepers.
  `IngressAuditOutbox`: two claims and two runtimes.

### Fairness

Stated in the MC modules, only for the instances a liveness property speaks
about. The code relies on Node running its callbacks and timers, on statements
being answered, and on a supervisor that restarts a process: these are weakly
fair. Never fair: crashes, stops, failures, calls of users, lost replies, the end
of a wait chunk, a factory's own promise (its timeout is fair), a callback of a
transaction (fair in the part "gate" only; `CancelledSettle` does without). Faults
are finite in number by `MaxFaults`, which is what "eventually" is relative to.

- `job_timers`: time, armed timers, statements, handlers, dispatches of committed
  Jobs, restart; continuations, logging and timeouts of factories.
- `schedules`: time, armed timers, transactions, factories, restart.
- `effects`: workers, time, restart, the end of a stop.
- `live_queries`: transactions, timers, queries, the end of a retirement.
- `runtime`: Job steps, shutdown steps, steps of a restart that has begun, expiry
  of leases; the gate's continuations and answers.
- `stripe`: one step or another of staging, Jobs, Stripe's answers, deliveries and
  claim expiry, as long as there is one; statements, timers, notices and time of
  retention.
- `files`: steps of requests and the sweeper, expiry; steps of a drain, its timers,
  the next start, the passing of days.

## 4. Where code and documentation disagree

Three runs find a violation and are listed as findings:

`job_queue_same_instant`: the claim statement (8302-8306) recognises a changed row
by status, `availableAt` and `retryJson`. With `retry.delayMs` 0, an attempt that
fails within the millisecond it became available in leaves the same three values,
and a second runtime that had selected the row before claims it with an outdated
attempt count; the row then passes `maxAttempts`
(docs/reference/jobs-and-schedules.md 77). It takes both the zero delay and the
second runtime: `PolicyIsKept` proves that nothing happens without one of them.

`schedule_skip`: finalising an occurrence sets the cursor to its successor (1837,
1855), also when the occurrence is an old one that recovery took up after
reconciliation had moved the cursor past skipped instants. The timer armed for the
later instant reads the cursor again when a wait chunk ends or its claim throws,
and runs the skipped instants, although `skip` "resumes at the next future
occurrence after downtime" (docs/reference/jobs-and-schedules.md 303).

`schedule_latest`: reconciliation commits the cursor beyond the occurrence that
`latest` selected (1527) and keeps the occurrence itself in memory until a later
transaction inserts its row. A process loss or a failed claim in between drops it.
The comment at 1518-1522 names this hazard and keeps the cursor for it, but only
for the final occurrence of the calendar.

The following were met while modelling. They have no run of their own; the
constant in brackets, changed in a configuration, shows them, and the passing runs
keep it at the other value, so their properties hold of what remains.

- A row cache filled after it was cleared: the rows of a SELECT are cached whenever
  its answer arrives (7156), also when a write was committed and the cache cleared
  in between. [`OneWire` FALSE in `LiveQueries`: `CacheCoherent`]; see
  docs/adr/0003-sqlite-row-level-cache.md 3. A resource transaction on PostgreSQL has
  a connection of its own (`database-runtime.ts` 2418), so there a SELECT of the
  shared connection may be answered before its COMMIT and cached after it as well.
  [`ResourceJobs` beside a `CachedTable`: `CacheCoherent`]
- A message that changes `client.session` (5841-5850) leaves the generations of the
  client's subscriptions alone, so what a query had under way for the former user is
  still sent (6673). It takes a Session that is gone or another token: after a
  password reset (5942-5951), which retires no connection, or in the awaits between
  a termination's COMMIT and the fence (7430-7440), which then passes the client
  over (6764). "In-flight results from the old actor cannot publish after
  replacement" (docs/reference/client-auth-and-preferences.md 939) holds of the
  clients that the fence reaches. [no constant: a `NothingPassesTheFence` that
  asks of every client `sub'[s].result.actor = sub'[s].actor` fails in five steps]
- A session lookup that is answered after the fence brings the user back on a fenced
  client, and the next query runs for the user; libSQL over HTTP does not order the
  answers. [`OneWire` FALSE in `Ending`: `NothingOfTheFormerActor`]
- A candidate that fails after `init` leaves its Schedule generation published
  (1258, 570-571), so the live runtime's claims are refused (1902) until the next
  successful replacement; see docs/reference/jobs-and-schedules.md 328. `authority`
  of `RuntimeReplacement` has it.
- Two callers of restart (the file watcher and `restartAfterFatal`,
  `cli/sporades.ts` 2810 and 3453) each promote a candidate, and one of the
  runtimes is never shut down. [`Restarters` of two elements: `OneExecutor`,
  `NothingLeaks`]
- A failed payment that overtakes the first snapshot is quarantined without a Team,
  and the snapshot then shows the Team as active (`team-billing-convergence.ts` 281;
  docs/reference/teams.md 512). [`EarlyInvoices` TRUE: `NeverOverstated`]
- A row written by a failed invoice is always projected as needing attention: the
  projection wants kind `past-due` where the row has `invoice-failed`
  (`team-billing-runtime.ts` 762, `team-billing-convergence.ts` 305).
- Settlement clears the provider lane whoever holds it
  (`team-billing-management.ts` 255). [`MayLeave` TRUE: `OneProviderWrite`]
- A write that was given up and arrives at Stripe after a newer target was settled
  is not repaired until the next change (`team-billing-management.ts` 231).
  [`LateWrites` TRUE in the instance `Seats`: `DriftIsCovered`]
- A plan transition that failed keeps its row and blocks seat changes
  (`team-billing-management.ts` 81).
- A settlement between the end of a retention pass and the end of its promise asks
  a chain that has ended (`jobs-runtime.ts` 395). [`Overtaken`: `DeadlinesAreKept`]
- A settlement that was applied and reported as failed arms no cleanup (8410).
  [`LosesReplies`: `DeadlinesAreKept`]
- A request that fails deletes receipts before bytes (`file-ingress-runtime.ts`
  1663); what is cut off in between leaves bytes no receipt leads to. `BytesAreKnown`
  is therefore claimed only where nothing fails.
- An outbox claim or an endpoint's COMMIT that is applied and reported as failed,
  and a drain whose last read is overtaken, leave an intent until the next start
  (`file-ingress-runtime.ts` 1813; 4068, 1658). [`LosesClaims`, `LosesCommits`,
  `OneWire` FALSE: `DeliveringIsCovered`, `PendingIsCovered`]
- Two uploads of different paths that replace one File: the later one resolved
  `previousFile` before the earlier one committed, and the version in between keeps
  its bytes for ever. [two `Paths`: `BytesAreOwned`]

## 5. Proofs

Every theorem is about the specification of one component, or about `MCSpec` where
its component stands beside a host, for all values of the constants: any sets of
Jobs, runtimes, PUTs, files, requests, Teams or callers, any policies, delays and
leases, and any bound on faults, claims or time. What a theorem assumes are the
named assumptions of the component's module, or those an MC module states of its
instances (types, finiteness and positivity of the constants, which TLC evaluates
in the runs), and, where it says so, a hypothesis of its own. Where a row below
names a property, some run checks the same definition.

| Module | Theorem | Says | Hypothesis |
|---|---|---|---|
| `JobQueueProofs` | `TypeCorrect` | `TypeOK` | |
| | `ClaimsHeld`, `OwnershipUntilExpiry` | a handler under a lease that has not run out owns its row: `ClaimInvariant`, `OwnedUntilExpiry` | |
| | `SettledIsFinal` | no statement changes a settled row: `TerminalIsFinal` | |
| | `NoHistoryIsLost` | `HistoryIsComplete` | `NoSameInstant` |
| | `PolicyIsKept` | `AttemptsWithinPolicy`, which `job_queue_same_instant` violates without it | `NoSameInstant` |
| | `QueueImplementsLifecycle` | the refinement: `ImplementsLifecycle` | `NoSameInstant` |
| | `NoStartIsFree` | `StartsAreCharged` | finitely many runtimes |
| | `CancellationArrives` | `CancelReachesHandler` | one runtime |
| `JobTimersProofs` | `ForgetsNothing`, `ArmsNothingStopped` | `NothingIsForgotten`, `StoppedArmsNothing` | |
| | `FactoriesServeInTurn` | a slot is held by one call, a lane runs one call at a time, in the order of the calls: `FactoriesTakeTurns` | |
| `ScheduleProofs` | `ScheduleTypeCorrect` | `TypeOK` | |
| | `OneJobPerOccurrence`, `DeclaredOnly` | `JobIffEnqueued`, `EnqueuedAsDeclared` | |
| `EffectsProofs` | `TheOperationRunsOnce`, `CommitsAreAlwaysEntitled` | `EffectsMatchReceipts`, `CommitsAreEntitled` | |
| | `ClaimOutlivesCommit` | a claim cannot be lost while its COMMIT is on its way | |
| | `DeliveriesAreSafe` | no second message after an answer that was received, what was confirmed stays confirmed, attempts are numbered as they were made: `IntentsAreSafe` | |
| | `VerdictsAreFinal` | a recipient's row that has its verdict is never written again | |
| `RuntimeProofs` | `ServerIsNeverStranded`, `RetiredRuntimesAreQuiet` | `NeverStranded`, `RetiredIsQuiet` | `OneRestarter` |
| | `WorkSettlesBeforeTheHook`, `CandidatesWait` | what holds whoever calls restart | |
| | `FilesAreAlwaysRecoverable` | wherever a replacement of any number of files stops, each file's old or new contents are on the disk: `FilesAreRecoverable` | |
| | `LimitsAreExact` | a decision differs from an unbounded table's only by evictions, and these are counted: `ExactUnlessEvicted` | |
| `FilesProofs` | `ReadersFindTheirBytes`, `OvertakenUploadsNeverPublish` | `UploadsAreSafe`, `OvertakenNeverPublish` | |
| | `BytesAlwaysHaveOwners` | `BytesAreOwned` | `OnePath` |
| | `StorageStaysConsistent` | a file handed to an endpoint has its bytes, no part is handed on twice, a refused request leaves nothing: `StorageIsConsistent` | |
| | `OutboxStaysSafe` | an audit intent is acknowledged and pruned only when its event is in the log, which repeats one only for a failure, an end or a start; where no answer is lost or overtaken, none is left alone: `OutboxIsSafe` | `OutboxAssumption` |
| `StripeProofs` | `RowConverges`, `RowNeverGoesBack` | `RowIsNewestAccepted`, `NeverBackwards` | |
| | `NeverShownHealthier` | `NeverOverstated` | `~EarlyInvoices` |
| | `PayloadsStayKept` | a stored deadline is kept by a pass, a timer or a notice, and rows without one are looked at again in time: `PayloadsAreKept` | |
| | `NoPayloadIsErasedEarly` | `NeverEarly`, whatever a pass had read before | |
| `LiveQueriesProofs` | `ReadersAtRestAreFresh` | once writes are settled, a subscription at rest shows the last version of all it read: `QuietIsFresh` | one connection where rows are cached; answers in issue order where a user is terminated |
| | `FencedClientsGetNothingOfTheUser` | a client that the fence of a termination reached is sent nothing any more that was evaluated for the user: `NothingOfTheFormerActor` | answers in issue order where a user is terminated |

### The hypotheses

They are not there to get a proof through; each is the exact case in which the
code keeps its promise, and something shows what happens outside of it.

- `NoSameInstant`: every retry waits, or there is one runtime.
  `job_queue_same_instant` is the counterexample with neither.
- One runtime in `CancellationArrives`: the abort controller lives in the memory of
  the runtime that runs the handler, so a cancel called in another one only leaves
  the marker, and the handler learns of it when it settles.
- Finitely many runtimes in `NoStartIsFree`: the invariant counts the workers that
  hold an attempt they have not started.
- `OneRestarter`: restart has one caller at a time. Two are the disagreement of
  section 4; `WorkSettlesBeforeTheHook` and `CandidatesWait` do without.
- `OnePath`: all uploads name one path. Two paths lose bytes (section 4). The part
  "one path" of `MCFiles` is the same restriction, in `StorageIsConsistent`.
- `OutboxAssumption` has the instances in which `IntentsAreCovered` is claimed
  (`Shared`, `Single`) lose no answer; `Lossy`, which may lose any, is unrestricted
  and claims only what is then true (section 4). `BytesAreKnown` of
  `FileIngress` speaks, as the run does, of behaviours in which nothing failed.
- One connection where rows are cached: `HubAssumption` gives the instances with a
  cached table `oneWire` and no Job on a connection of its own, and none to the
  others. It is the case in which a write and a SELECT cannot overtake each other
  (section 4).
- Answers in issue order where a user is terminated: `HubAssumption` gives an instance
  that has `owned` clients `oneWire`. Otherwise a lookup may outlive the fence
  (section 4). The theorem speaks of the clients the fence reaches and of no other:
  of a session that a message changed it claims nothing (section 4). Freshness does
  not need it; one invariant serves both theorems.
- `StoreAssumption` has the instances in which `DeadlinesAreKept` is claimed
  (`Runtimes2`, `FairRuntime`) lose no reply of a settlement and let none fall between
  a pass's end and its promise's (section 4); `Pages` is unrestricted.
- `~EarlyInvoices`: no failed payment overtakes the first snapshot (section 4).

### The arguments

No property above but the types is inductive as it stands. Each proof module begins with
its inductive invariant, written as named parts. Below the steps of `Next` there is one lemma per action or
group of actions, and per part of the invariant.

`JobQueueProofs`. *Claims.* A worker past its claim still owns the row with the
lease it remembers, or that lease is over (`HoldersOwn`); a token is in one row
and one worker only (`TokensDistinct`); a scan only remembers leases that had run
out (`ScansExpired`). *Life cycle.* `Bookkeeping` adds what each participant
knows: `RowSound` (attempts and history of a row in each status), `ReaderSound` (a
worker between `Select` and `Claim` whose copy would still match has the row's
present attempts and history, or another worker has it or has settled it; this is
where `NoSameInstant` enters),
`HolderSound` (the worker that owns a row has its attempts and history) and
`ScanSound` (so has a scan whose entry still matches). From it `RowsMove` shows that
a step leaves a row as it is or makes one of seven moves (`Submits`, `Readies`,
`Claims`, `Marks`, `Abandons`, `Ends`, `GivesBack`). `HistoryIsComplete` is then a matter of the moves alone, and so is the
refinement: each move is an action of `JobLifecycle` or a stutter
(`RowMovesAreJobMoves`), with the rows' initial state mapped to its initial
state. *Charges.* `StartsAreCharged` is not a statement about one worker: a
recovered row's attempts pay for what earlier workers started. The invariant
`Paid(j)` says that the attempts of a row cover the starts charged to it and, one
each, the workers that hold a claim they have not started (`Unstarted`, counted
as a cardinality). *Cancellation.* `MarkIsSeen`: a marker was written before the
controller was looked up, and is read after it was registered.

`JobTimersProofs`. `Covered(j)` says for every status what brings a row up
(`QueuedIsCovered`: a pass that has not excluded it; `DelayedIsCovered`: a pass, a
wake that is armed or about to be, or the recovery that delayed it;
`RunningIsCovered`: its worker, or a scan no later than its lease ends). It holds
in every state of an active process, while the property speaks of a quiet one only.
That the timer is armed for the *earliest* lease uses the well-founded order of
the naturals.

*Factories.* `SlotsHeld`: the counter is the number of calls that hold a slot, they
will release it, and while a call waits all are taken. The code keeps one promise per
Schedule; a proof needs the line behind it. `Line(s, line)`, existentially quantified
over sequences of calls, says that each evaluation of a Schedule awaits the one
before it, only the first has its turn, and the lane knows the last.

`ScheduleProofs`. `Placed` and `Entries`: who claims or
finalises holds an occurrence, and the rows of a recovery's scan were pending when
it read them. Most steps are `Quietly`: they keep every row's declaration, and its
status unless it ends without a Job. A row does not say that its declaration is the
deployed one, only its generation is compared; `Declared` closes that gap (what is
pending under the deployed generation is pending for the deployed declaration).

`EffectsProofs`. `Sound(a)` says for every step of an attempt or handler what is
in its transaction and which locks it holds; `OneClaim` that a token is never
given twice; `OvertakenLoses` that a cancellation queued behind a commit is stored
before the handler's return is settled. A step of one actor is looked at by the
others through `Keeps`: their transactions and locks stay, the receipt stays unless
the actor held the resource, the Job's row stays unless nobody had locked it.
*Intents.* `VerdictsArePaid(q)`: the receiver's decisions on a recipient, with the
messages that may still reach it and what may lead to another one without a fault
(`Owed`), are at most one more than the faults. That counts conversations as a
cardinality, and rests on a reservation's number being held by one worker only
(`NumbersAreUnique`) and on a row keeping the diagnostic of its last attempt
(`RowMatchesAttempts`).

`RuntimeProofs`. *Files.* At each step of the four loops every file is in a phase that
its place before, at or behind the loop's index determines: `Untouched`, `Looked`,
`Aside`, `Replaced` on the way in, `ToUndo` and `Undone` on the way back. An
operation on the disk, failed or not, moves one file from a phase to the next. *Limits.* The bounded table and the unbounded
one agree on every key whose window is kept; a key that is not has been evicted or
swept, and a swept one no longer counts in either. `order` is a linear order of what
is kept, in which last use goes up; hence what an eviction takes was recorded before
all it keeps. *Replacement.* `SoundState` is about one runtime (stopped, it has
nothing due; quiet once its hook ran or it is closed), `Owned` about a candidate
(neither the server nor another replacement knows it, and it waits). With one caller
`Serving` says where the server's runtime stands at each step of the
replacement.

`FilesProofs`. `Past` is the heart: the version a PUT saw as the previous
one is its File's or no File's, and once the PUT has committed it never is again;
so removing its bytes cannot hurt a reader. `UploadsAreNew` and `FilesAreApart` keep
versions distinct, `Proceeds` that a PUT inside its transaction still has a
pending upload. With one path, `SeesCurrent` says that the previous version is the
present one, which is what loses no bytes.
*Ingress.* An identity is a request and a part. It is inserted once (`Unspent`);
until it was published its receipt is staging, or a sweep took it; leased or
complete, its bytes are stored and nobody who could still remove them has it in hand
(`InHand`, `Cleans`); and where nothing failed, stored bytes have a receipt or
somebody who is about to remove them (`IdentityKnown`). A step is about one
identity, and `RequestMoves` and `SweepMoves` say once for all why the others keep
what they have, so that each action shows its own identity only. `FilesComplete` and
`ClaimsComplete` tie the Files and the answers to the receipts.
*Outbox.* What may still log an event (a delivery under way, a row that a start may
take up again) is counted with what was logged, and the sum never exceeds the
faults, the crashes and the number of runtimes, from which `RepeatsAreCaused`
follows. `PendingWatched` and `DeliveringWatched` say who looks at a row that
waits (a drain or a timer) and at one in delivery (the runtime that has it in hand,
or one that will recover it).

`StripeProofs`. *Events.* `EventsAreOrdered` and `DeletionIsLast` say what Stripe may
have written; `RowIsNewestAccepted` is inductive together with them and
`RowHasASnapshot`. `TeamsAreNamed` is added under `~EarlyInvoices`. A lesson of
this proof for the model: a TLA+ CASE whose guards overlap does not say that the
first one applies, as an `if` chain in the code does; such chains are written with
IF in the order of the source.
*Retention.* A deadline and an older row are kept as the property says: by a runtime in
a pass, or with a timer, or (deadlines) with a notice. It holds because a pass that
ends arms its timer for the least deadline there is, and asks for another pass unless
it saw no older row left (`Known`). An unreadable row needs more, since a pass may end
without a timer for it: `Satisfied(p)` says of every step of a pass that it will
schedule no scan, and such a pass has seen no unreadable row and made none; so while there
is one, some runtime is in a pass that is not satisfied or has a timer within the
recheck interval (`WillScan`). `PassSound` has what each step of a pass knows of the
cursor, the page and its budget, `RowSound` that a deadline is a settlement's time and
the retention period, from which `NoPayloadIsErasedEarly` follows by what `DueRows`
says of a redaction's queue. `PassGoesOn`, `RuntimeGoesOn` and `RowChanges` say once
for all what a step of a pass, of a runtime or of one row must show.

`LiveQueriesProofs`. A reader at rest is fresh because what was read of a table stays
`Covered`: it is still the table's version, or the window holds the table and a
writer is still to refresh (`Announced`), or a resource transaction has committed and
not recorded it yet (`Unrecorded`); and a table that is about to be committed is
in the window before its COMMIT. `RunCovered` says it of a query under way, which may instead have been told to run
again (`Again`); `AtRest` of a result that is shown, whose tables the subscription
must have registered. A subscription that a termination has
replaced, and that waits for the retirement's refresh, is `Awaited`, and a run of before is
never valid again. `FenceOK` has what `FencedClientsGetNothingOfTheUser` needs: a client
that is fenced is anonymous or still waits for its replacement, and once the Sessions are
deleted no message under way has found one, so no message makes it the user's again; a
run takes the actor of its start. Writers and readers are separated: a step of a writer keeps
`Covered` for every version of every table (`CoverageKept`), a step of a reader
changes no table. `Counted` bounds versions and the generation by the writers that have
come so far, so the generation, which is kept modulo its bound, never wraps. The row cache
adds `Selected`: on one connection nobody writes between a SELECT and its answer.

### Only model-checked

- Liveness under fairness, and everything that needs ENABLED: `EverythingEnds`,
  `EverythingConverges`, `RestartedPendingSettles`, `EveryRecipientEnds`,
  `EventuallyFresh`, `ReplacementHandsOver` and parts of `GateIsALock`. They are
  out of the prover's reach.
- `PendingIsCovered` of `ScheduleOccurrences`: true up to two faults only, so it is
  no theorem about every value of `MaxFaults`.
- What would take induction over data: that the fold of a sequence gives what it
  should for every length. `RateLimits` and the batches of `StripePayloadRetention`
  were written with a relation for that reason.
- The safety of `TeamBillingSeats` (`NoTeamIsMisled`) and of `TransactionGate`, whose
  properties are part of the temporal formula `GateIsALock`.

## 6. Plan

1. Proofs for the remaining components beside the hosts: `TransactionGate` and
   `TeamBillingSeats`.
2. `JobIffEnqueued` strengthened to an abstract specification of a Schedule ("an
   occurrence settles once, under the generation that claimed it").
3. `PendingIsCovered` with the number of faults as a hypothesis.
4. Models still worth writing: idempotency keys and dispatch inside a transaction
   (`JobEnqueue`), access keys and sessions, the client's reconnection.

## 7. Not modelled

- Promise coordinator: it watches V8's promise hooks; its state is the engine's
  promise graph rather than the program's. The gate it protects is
  `TransactionGate`.
- Authentication and admission, access keys: candidates for later; most of their
  transitions are single conditional statements.
- Transports (HTTP, SMTP, Stripe, AI providers, MCP), rendering, observability,
  access-control rules, the lexer of database inspection, the build pipeline, the
  services: input and output, or pure functions, without durable shared state
  that these models could relate.
- CLI and host helper: deployment commands; the order of a deploy and a rollback
  is a candidate.
- Generated bundles: `bin/sporades.js` and `bin/sporades-host-helper.js`, about
  227,000 lines, are built from `src/src` with their dependencies and contain the
  modelled code a second time. Of the hand written sources the models follow the
  parts with state and concurrency.
- SQL dialects, wire protocols and libSQL's HTTP pipeline: an adapter is taken at
  its word that a statement is atomic, a transaction is atomic, and rows it locked
  are serialised; what the words do not promise (answers out of order, an applied
  statement reported as failed) is in the models that meet it.
