------------------------ MODULE NotificationIntents ------------------------
(***************************************************************************)
(* Durable delivery of one notification intent: its recipient rows, the    *)
(* attempts reserved for them, and the delivery workers of the runtimes    *)
(* that share the store.                                                   *)
(*                                                                         *)
(* An attempt is known by its sequence: every reservation of a recipient   *)
(* has a new one, and the HMAC token of the code stands for exactly the    *)
(* pair recipient and sequence.  A stored instant is the number of ticks   *)
(* left until it, 0 once it has passed; [wait] is currentAttemptDeadline   *)
(* while a row is submitting and nextAttemptAt otherwise.                  *)
(***************************************************************************)
EXTENDS Integers, FiniteSets, FiniteSetsExt

CONSTANTS
    Recipients,     \* addresses the intent is sent to, one row each
    Runtimes,       \* processes sharing the store
    Reservation,    \* notificationReservationWindowMs, in ticks
    RetryBase,      \* the 30 s of notificationRetryDelay, in ticks
    MaxBackoff,     \* NOTIFICATION_MAX_BACKOFF_MS, in ticks
    RecoveryScan,   \* NOTIFICATION_RECOVERY_SCAN_MS, in ticks
    MaxFaults       \* bound: crashes, stops, lost replies, failed statements, overruns

TimingAssumption ==
    /\ Reservation \in Nat \ {0} /\ RecoveryScan \in Nat \ {0}
    /\ RetryBase \in Nat \ {0} /\ MaxBackoff \in Nat \ {0}
    /\ MaxFaults \in Nat
    /\ IsFiniteSet(Runtimes)

VARIABLES
    row,        \* [sporades_notification_recipients]
    attempts,   \* [sporades_notification_attempts] of each recipient
    phase,      \* "up" is not __notificationIntentStopped; "stopping" still drains
    wk,         \* the worker promise of each runtime, "idle" when there is none
    timer,      \* __notificationIntentTimer: ticks left
    verdicts,   \* history: times the receiver accepted or refused the message
    confirmed,  \* history: recipients with a settled positive reply
    faults      \* history: faults so far

vars == <<row, attempts, phase, wk, timer, verdicts, confirmed, faults>>

None == 0           \* no attempt
NoTimer == -1

Waiting == {"accepted", "retry-wait"}
Pending == Waiting \cup {"submitting"}
Final == {"acknowledged", "rejected"}

Absent == [state |-> "absent", count |-> 0, token |-> None, wait |-> 0]

Outcomes == {"submitting", "acknowledged", "rejected", "unknown"}

\* Where a worker stands: each is an await of the pass.  At "sending" and
\* "accepted" it awaits sendIntent, before and after the receiver took the message.
Pcs == {"idle", "recover", "reserve", "check", "submit", "sending", "accepted",
        "acknowledged", "rejected", "unknown", "wake", "arm"}
Attempting == {"check", "submit", "sending", "accepted",
               "acknowledged", "rejected", "unknown"}

Idle == [pc |-> "idle", to |-> "none", seq |-> None, wait |-> 0]

At(pc) == [Idle EXCEPT !.pc = pc]

Lower(a, b) == IF a <= b THEN a ELSE b

notificationRetryDelay(n) ==
    Lower(RetryBase * 2 ^ Lower((IF n > 1 THEN n ELSE 1) - 1, 7), MaxBackoff)

Init ==
    /\ row = [q \in Recipients |-> Absent]
    /\ attempts = [q \in Recipients |-> {}]
    /\ phase = [r \in Runtimes |-> "down"]
    /\ wk = [r \in Runtimes |-> Idle]
    /\ timer = [r \in Runtimes |-> NoTimer]
    /\ verdicts = [q \in Recipients |-> 0]
    /\ confirmed = {}
    /\ faults = 0

-----------------------------------------------------------------------------
(* The resource transaction that accepts the intent.                       *)

\* A repeated acceptance finds the intent and leaves it alone.
Stage ==
    /\ \A q \in Recipients : row[q] = Absent
    /\ row' = [q \in Recipients |-> [Absent EXCEPT !.state = "accepted"]]
    /\ UNCHANGED <<attempts, phase, wk, timer, verdicts, confirmed, faults>>

\* What readNotificationIntentStatuses reports of the intent.
IntentState ==
    IF \E q \in Recipients : row[q].state \in Pending THEN "pending"
    ELSE IF \A q \in Recipients : row[q].state = "acknowledged" THEN "acknowledged"
    ELSE IF \A q \in Recipients : row[q].state = "absent" THEN "absent"
    ELSE "rejected"

-----------------------------------------------------------------------------
(* One delivery pass.                                                      *)

Up(r) == phase[r] = "up"

Goto(r, worker) == wk' = [wk EXCEPT ![r] = worker]

\* The loop of run: another pass, unless stopNotificationIntentWorker was called.
LoopHead(r) == At(IF Up(r) THEN "recover" ELSE "idle")

Expired(q) == row[q].state = "submitting" /\ row[q].wait = 0

Retry(q, n) == [row[q] EXCEPT !.state = "retry-wait", !.token = None,
                              !.wait = notificationRetryDelay(n)]

\* The attempts of q after the one numbered n got an outcome; an outcome that is
\* not an acknowledgement completes only an unfinished attempt.
Completed(q, n, outcome) ==
    {IF a.seq = n /\ (outcome = "acknowledged" \/ a.outcome = "submitting")
     THEN [a EXCEPT !.outcome = outcome] ELSE a : a \in attempts[q]}

recoverExpiredReservations(r) ==
    /\ wk[r].pc = "recover"
    /\ row' = [q \in Recipients |->
                IF Expired(q) THEN Retry(q, row[q].count) ELSE row[q]]
    /\ attempts' = [q \in Recipients |->
                IF Expired(q) THEN Completed(q, row[q].token, "unknown") ELSE attempts[q]]
    /\ Goto(r, At("reserve"))
    /\ UNCHANGED <<phase, timer, verdicts, confirmed, faults>>

Due(q) == row[q].state \in Waiting /\ row[q].wait = 0

\* The statements of a reservation; completed attempts of the recipient are deleted.
ReserveRow(q) ==
    LET n == row[q].count + 1 IN
    /\ Due(q)
    /\ row' = [row EXCEPT ![q] = [state |-> "submitting", count |-> n, token |-> n,
                                  wait |-> Reservation]]
    /\ attempts' = [attempts EXCEPT ![q] =
                {a \in @ : a.outcome = "submitting"} \cup {[seq |-> n, outcome |-> "submitting"]}]

reserveDueRecipient(r) ==
    /\ wk[r].pc = "reserve"
    /\ \E q \in Recipients :
        /\ ReserveRow(q)
        /\ Goto(r, [At("check") EXCEPT !.to = q, !.seq = row[q].count + 1])
    /\ UNCHANGED <<phase, timer, verdicts, confirmed, faults>>

\* The pass ends without a reservation: nothing is due, or (two PostgreSQL
\* transactions) the row just read was reserved by the other one.
ReserveNothing(r) ==
    /\ wk[r].pc = "reserve"
    /\ \/ \A q \in Recipients : ~Due(q)
       \/ \E s \in Runtimes \ {r} : wk[s].pc = "check"
    /\ Goto(r, At(IF Up(r) THEN "wake" ELSE "idle"))
    /\ UNCHANGED <<row, attempts, phase, timer, verdicts, confirmed, faults>>

Current(r) == row[wk[r].to].state = "submitting" /\ row[wk[r].to].token = wk[r].seq

reservationIsCurrent(r) ==
    /\ wk[r].pc = "check"
    /\ Goto(r, IF Current(r) THEN [wk[r] EXCEPT !.pc = "submit"] ELSE LoopHead(r))
    /\ UNCHANGED <<row, attempts, phase, timer, verdicts, confirmed, faults>>

\* __notificationIntentShutdownAborting is read, then sendIntent is called.
Submit(r) ==
    /\ wk[r].pc = "submit"
    /\ Goto(r, IF Up(r) THEN [wk[r] EXCEPT !.pc = "sending"] ELSE LoopHead(r))
    /\ UNCHANGED <<row, attempts, phase, timer, verdicts, confirmed, faults>>

-----------------------------------------------------------------------------
(* sendIntent, and the receiver at the other end of it.                    *)

Accept(r) ==
    /\ wk[r].pc = "sending"
    /\ verdicts' = [verdicts EXCEPT ![wk[r].to] = @ + 1]
    /\ Goto(r, [wk[r] EXCEPT !.pc = "accepted"])
    /\ UNCHANGED <<row, attempts, phase, timer, confirmed, faults>>

PositiveReply(r) ==
    /\ wk[r].pc = "accepted"
    /\ Goto(r, [wk[r] EXCEPT !.pc = "acknowledged"])
    /\ UNCHANGED <<row, attempts, phase, timer, verdicts, confirmed, faults>>

\* An smtpOutcome of "rejected"; while the runtime stops, the catch ignores it.
NegativeReply(r) ==
    /\ wk[r].pc = "sending"
    /\ verdicts' = [verdicts EXCEPT ![wk[r].to] = @ + 1]
    /\ Goto(r, IF Up(r) THEN [wk[r] EXCEPT !.pc = "rejected"] ELSE LoopHead(r))
    /\ UNCHANGED <<row, attempts, phase, timer, confirmed, faults>>

\* A timeout, a lost connection or a 4xx, whether or not the message was taken.
Uncertain(r) ==
    /\ faults < MaxFaults
    /\ faults' = faults + 1
    /\ wk[r].pc \in {"sending", "accepted"}
    /\ Up(r)
    /\ Goto(r, [wk[r] EXCEPT !.pc = "unknown"])
    /\ UNCHANGED <<row, attempts, phase, timer, verdicts, confirmed>>

\* Shutdown closes the transport: the durable reservation stays as it is.
SendAborted(r) ==
    /\ wk[r].pc \in {"sending", "accepted"}
    /\ ~Up(r)
    /\ Goto(r, LoopHead(r))
    /\ UNCHANGED <<row, attempts, phase, timer, verdicts, confirmed, faults>>

-----------------------------------------------------------------------------
(* settleAttempt.                                                          *)

\* Mutant: a positive answer counts only for the current attempt.
AcknowledgeCurrent(q, n) ==
    /\ attempts' = [attempts EXCEPT ![q] = Completed(q, n, "acknowledged")]
    /\ row' = [row EXCEPT ![q] =
                IF @.state = "submitting" /\ @.token = n
                THEN [@ EXCEPT !.state = "acknowledged", !.token = None, !.wait = 0]
                ELSE @]
    /\ confirmed' = confirmed \cup {q}

\* A positive answer counts for any attempt the row has known.
Acknowledge(q, n) ==
    /\ attempts' = [attempts EXCEPT ![q] = Completed(q, n, "acknowledged")]
    /\ row' = [row EXCEPT ![q] =
                IF @.state # "acknowledged" /\ @.count >= n
                THEN [@ EXCEPT !.state = "acknowledged", !.token = None, !.wait = 0]
                ELSE @]
    /\ confirmed' = confirmed \cup {q}

\* Any other answer counts only for the attempt the row is reserved for.
Settled(q, n, outcome) ==
    IF ~(row[q].state = "submitting" /\ row[q].token = n) THEN row[q]
    ELSE IF outcome = "unknown" THEN Retry(q, n)
    ELSE [row[q] EXCEPT !.state = "rejected", !.token = None, !.wait = 0]

Refuse(q, n, outcome) ==
    /\ attempts' = [attempts EXCEPT ![q] = Completed(q, n, outcome)]
    /\ row' = [row EXCEPT ![q] = Settled(q, n, outcome)]
    /\ UNCHANGED confirmed

SettleStatements(r) ==
    IF wk[r].pc = "acknowledged"
    THEN Acknowledge(wk[r].to, wk[r].seq)
    ELSE Refuse(wk[r].to, wk[r].seq, wk[r].pc)

settleAttempt(r) ==
    /\ wk[r].pc \in {"acknowledged", "rejected", "unknown"}
    /\ SettleStatements(r)
    /\ Goto(r, LoopHead(r))
    /\ UNCHANGED <<phase, timer, verdicts, faults>>

-----------------------------------------------------------------------------
(* The loop around the passes, its timer, and statements that fail.        *)

\* scheduleRecoveryScan.
ScanTimer(r) == IF Up(r) THEN RecoveryScan ELSE NoTimer

\* Mutant: no timer is armed when nothing is pending.
nextWakeAtOfPending(r) ==
    LET pending == {row[q].wait : q \in {p \in Recipients : row[p].state \in Pending}} IN
    /\ wk[r].pc = "wake"
    /\ Goto(r, [At("arm") EXCEPT !.wait =
                IF pending = {} THEN NoTimer ELSE Lower(Min(pending), RecoveryScan)])
    /\ UNCHANGED <<row, attempts, phase, timer, verdicts, confirmed, faults>>

nextWakeAt(r) ==
    LET pending == {row[q].wait : q \in {p \in Recipients : row[p].state \in Pending}} IN
    /\ wk[r].pc = "wake"
    /\ Goto(r, [At("arm") EXCEPT !.wait =
                IF pending = {} THEN RecoveryScan ELSE Lower(Min(pending), RecoveryScan)])
    /\ UNCHANGED <<row, attempts, phase, timer, verdicts, confirmed, faults>>

\* __notificationIntentStopped is read again after the query.
Arm(r) ==
    /\ wk[r].pc = "arm"
    /\ timer' = [timer EXCEPT ![r] = IF Up(r) THEN wk[r].wait ELSE NoTimer]
    /\ Goto(r, Idle)
    /\ UNCHANGED <<row, attempts, phase, verdicts, confirmed, faults>>

\* run returns at once when the worker is stopped or already at work.
Fire(r) ==
    /\ timer[r] = 0
    /\ timer' = [timer EXCEPT ![r] = NoTimer]
    /\ Goto(r, IF Up(r) /\ wk[r].pc = "idle" THEN At("recover") ELSE wk[r])
    /\ UNCHANGED <<row, attempts, phase, verdicts, confirmed, faults>>

\* The catch of run: the error ends the worker, which looks again after a scan.
Abandon(r) ==
    /\ Goto(r, Idle)
    /\ timer' = [timer EXCEPT ![r] = ScanTimer(r)]

\* A query or transaction rejects and has changed nothing.
StatementFails(r) ==
    /\ wk[r].pc \in {"recover", "reserve", "check", "rejected", "unknown", "wake"}
    /\ Abandon(r)
    /\ UNCHANGED <<row, attempts, confirmed>>

\* The outcome of a COMMIT is lost: it rejects although it took effect.
CommitReplyLost(r) ==
    \/ /\ wk[r].pc = "reserve"
       /\ \E q \in Recipients : ReserveRow(q)
       /\ Abandon(r)
       /\ UNCHANGED confirmed
    \/ /\ wk[r].pc \in {"rejected", "unknown"}
       /\ SettleStatements(r)
       /\ Abandon(r)

\* The positive settlement is inside the try: its failure, applied or not, is
\* caught like a failure to send, and the attempt is settled as unknown.
AcknowledgeFails(r) ==
    /\ wk[r].pc = "acknowledged"
    /\ \/ SettleStatements(r)
       \/ UNCHANGED <<row, attempts, confirmed>>
    /\ Goto(r, IF Up(r) THEN [wk[r] EXCEPT !.pc = "unknown"] ELSE LoopHead(r))
    /\ UNCHANGED timer

StorageFails(r) ==
    /\ faults < MaxFaults
    /\ faults' = faults + 1
    /\ StatementFails(r) \/ CommitReplyLost(r) \/ AcknowledgeFails(r)
    /\ UNCHANGED <<phase, verdicts>>

-----------------------------------------------------------------------------
(* Life of a runtime, and the clock.                                       *)

startNotificationIntentWorker(r) ==
    /\ phase[r] = "down"
    /\ phase' = [phase EXCEPT ![r] = "up"]
    /\ Goto(r, At("recover"))
    /\ UNCHANGED <<row, attempts, timer, verdicts, confirmed, faults>>

stopNotificationIntentWorker(r) ==
    /\ faults < MaxFaults
    /\ faults' = faults + 1
    /\ phase[r] = "up"
    /\ phase' = [phase EXCEPT ![r] = "stopping"]
    /\ timer' = [timer EXCEPT ![r] = NoTimer]
    /\ UNCHANGED <<row, attempts, wk, verdicts, confirmed>>

\* Shutdown awaits the worker promise before the runtime is gone.
Stopped(r) ==
    /\ phase[r] = "stopping"
    /\ wk[r].pc = "idle"
    /\ phase' = [phase EXCEPT ![r] = "down"]
    /\ UNCHANGED <<row, attempts, wk, timer, verdicts, confirmed, faults>>

Crash(r) ==
    /\ faults < MaxFaults
    /\ faults' = faults + 1
    /\ phase[r] # "down"
    /\ phase' = [phase EXCEPT ![r] = "down"]
    /\ wk' = [wk EXCEPT ![r] = Idle]
    /\ timer' = [timer EXCEPT ![r] = NoTimer]
    /\ UNCHANGED <<row, attempts, verdicts, confirmed>>

\* A reservation outlives the slowest conversation its timeouts allow.  A worker
\* that holds it when its last tick passes was suspended: a fault.
Overrun ==
    \E r \in Runtimes : wk[r].pc \in Attempting /\ Current(r) /\ row[wk[r].to].wait = 1

Tick ==
    /\ IF Overrun THEN faults < MaxFaults /\ faults' = faults + 1 ELSE UNCHANGED faults
    /\ row' = [q \in Recipients |-> [row[q] EXCEPT !.wait = IF @ > 0 THEN @ - 1 ELSE 0]]
    /\ timer' = [r \in Runtimes |-> IF timer[r] > 0 THEN timer[r] - 1 ELSE timer[r]]
    /\ wk' = [r \in Runtimes |->
                [wk[r] EXCEPT !.wait = IF @ > 0 THEN @ - 1 ELSE 0]]
    /\ UNCHANGED <<attempts, phase, verdicts, confirmed>>

-----------------------------------------------------------------------------

\* What a worker does by itself.
Work(r) ==
    \/ recoverExpiredReservations(r)
    \/ reserveDueRecipient(r)
    \/ ReserveNothing(r)
    \/ reservationIsCurrent(r)
    \/ Submit(r)
    \/ Accept(r)
    \/ PositiveReply(r)
    \/ NegativeReply(r)
    \/ SendAborted(r)
    \/ settleAttempt(r)
    \/ nextWakeAt(r)
    \/ Arm(r)
    \/ Fire(r)

Next ==
    \/ Stage
    \/ Tick
    \/ \E r \in Runtimes :
        \/ Work(r)
        \/ Uncertain(r)
        \/ StorageFails(r)
        \/ startNotificationIntentWorker(r)
        \/ stopNotificationIntentWorker(r)
        \/ Stopped(r)
        \/ Crash(r)

Spec == Init /\ [][Next]_vars

-----------------------------------------------------------------------------

TypeOK ==
    /\ row \in [Recipients -> [state : {"absent"} \cup Pending \cup Final,
                               count : Nat, token : Nat, wait : Nat]]
    /\ attempts \in [Recipients -> SUBSET [seq : Nat, outcome : Outcomes]]
    /\ phase \in [Runtimes -> {"down", "up", "stopping"}]
    /\ wk \in [Runtimes -> [pc : Pcs, to : Recipients \cup {"none"},
                            seq : Nat, wait : Nat]]
    /\ timer \in [Runtimes -> Nat \cup {NoTimer}]
    /\ verdicts \in [Recipients -> Nat]
    /\ confirmed \subseteq Recipients
    /\ faults \in Nat

\* A recipient has at most one attempt row, however many attempts failed: the row
\* of its last attempt, unfinished as long as the recipient is submitting.  (The
\* compaction of reserveDueRecipient against recovery and late settlements.)
OneDiagnosticPerRecipient ==
    \A q \in Recipients :
        /\ \A a \in attempts[q] : a.seq = row[q].count
        /\ Cardinality(attempts[q]) <= 1
        /\ row[q].state = "submitting" =>
                attempts[q] = {[seq |-> row[q].token, outcome |-> "submitting"]}

\* A positive reply that was settled is never lost again, whatever later attempt,
\* expiry or refusal the recipient met: late acknowledgements win.
PositiveReplyIsKept == \A q \in confirmed : row[q].state = "acknowledged"

\* The receiver decides on the message again only after something went wrong: a
\* crash, a stop, a lost reply, a failed statement or an overrun reservation.
\* Reservations therefore exclude each other between workers and between passes.
DuplicatesArePaidFor == \A q \in Recipients : verdicts[q] <= 1 + faults

\* The worker that sends under the current reservation is the only one: whoever
\* else still sends to the same recipient has lost its reservation.
OneCurrentSender ==
    \A r, s \in Runtimes :
        (/\ r # s /\ wk[r].pc \in Attempting /\ wk[s].pc \in Attempting
         /\ wk[r].to = wk[s].to) => ~(Current(r) /\ Current(s))

\* An active runtime whose worker ended has a timer that starts it again, and a
\* stopped one has none, even if the stop landed while the wake was looked up.
TimerMatchesPhase ==
    \A r \in Runtimes :
        /\ Up(r) /\ wk[r].pc = "idle" => timer[r] \in 0 .. RecoveryScan
        /\ ~Up(r) => timer[r] = NoTimer

\* What a caller was told of the intent is final: acknowledged stays, and a
\* rejected intent never becomes pending again.
VerdictHolds ==
    /\ IntentState = "acknowledged" => IntentState' = "acknowledged"
    /\ IntentState = "rejected" => IntentState' \in {"rejected", "acknowledged"}

\* Every accepted recipient ends acknowledged or rejected once faults cease.
EveryRecipientEnds ==
    <>[](\A q \in Recipients : row[q].state \in Final \cup {"absent"})
=============================================================================
