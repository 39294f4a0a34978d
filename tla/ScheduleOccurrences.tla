------------------------ MODULE ScheduleOccurrences ------------------------
(***************************************************************************)
(* One Schedule of a Capsule: its durable row with a cursor and the        *)
(* generation that may act on it, the rows of its occurrences, and the     *)
(* runtimes that publish a declaration, fire its timer, claim occurrences, *)
(* settle them together with their Job, and recover the pending ones.      *)
(*                                                                         *)
(* A transaction is one action, and so is a stretch of JavaScript between  *)
(* two awaits.  The cron instants are 1..Last; now is the latest instant   *)
(* that has passed.  Claim expiries and recovery timers are ticks to go.   *)
(***************************************************************************)
EXTENDS Integers, FiniteSets

CONSTANTS
    Runtimes,       \* processes sharing the store
    Definitions,    \* enabled declarations the Schedule may be deployed with
    MissedRun,      \* their missed-run policy: "skip" or "latest"
    Last,           \* the final representable occurrence
    LeaseTicks,     \* RUNTIME_CLAIM_LEASE_MS in ticks
    RetryTicks,     \* SCHEDULE_RECOVERY_RETRY_MS in ticks
    LongWaits,      \* whether a wait may exceed MAX_NATIVE_TIMER_DELAY_MS
    MaxPublications,\* bound: publications of a declaration set
    MaxFaults       \* bound: crashes, shutdowns and failed transactions together

ASSUME ScheduleAssumption ==
    /\ MissedRun \in {"skip", "latest"}
    /\ Last \in Nat \ {0}
    /\ LeaseTicks \in Nat \ {0} /\ RetryTicks \in Nat \ {0}
    /\ LongWaits \in BOOLEAN
    /\ MaxPublications \in Nat /\ MaxFaults \in Nat
    /\ {"disabled", "removed"} \cap Definitions = {}

VARIABLES
    now,        \* the latest instant that has passed, Last + 1 once all have
    published,  \* how many generations exist; a generation token is its serial number
    sched,      \* the row of [sporades_schedules]
    occ,        \* [sporades_schedule_occurrences]
    jobs,       \* how many Jobs in [sporades_jobs] each occurrence has
    rt,         \* each runtime: its copy of the definition, and its timers
    wk,         \* each runtime's occurrence timer callback and recovery
    skipped,    \* history: occurrences the missed-run policy passed over
    chosen,     \* history: the missed occurrence the policy "latest" selected
    faults      \* how many faults there have been

vars == <<now, published, sched, occ, jobs, rt, wk, skipped, chosen, faults>>
history == <<skipped, chosen>>

None == -1
Occurrences == 1..Last

NoClaim == <<>>
NoRow == [status |-> "absent", gen |-> 0, def |-> "removed", token |-> NoClaim, left |-> 0]
Terminal == {"enqueued", "payload-failed", "enqueue-failed", "superseded"}
NoSchedule == [gen |-> 0, def |-> "removed", enabled |-> FALSE, next |-> None]

\* phase "stopping": __scheduleStopped is set, the timers are not cleared yet.  armed is
\* the occurrence the timer was armed for, next the cursor of the runtime's definition.
Down == [phase |-> "down", gen |-> 0, enabled |-> FALSE, next |-> None,
         armed |-> None, wake |-> None]

\* after: where recovery goes on once an occurrence is dealt with; todo: the pending rows
\* it read, live if claimed at that time; soonest: ticks to the earliest live claim among them.
Idle == [pc |-> "idle", o |-> None, after |-> "none", todo |-> {},
         soonest |-> None]

Workers == {"timer", "recovery"}

Init ==
    /\ now = 0 /\ published = 0
    /\ sched = NoSchedule
    /\ occ = [o \in Occurrences |-> NoRow]
    /\ jobs = [o \in Occurrences |-> 0]
    /\ rt = [r \in Runtimes |-> Down]
    /\ wk = [r \in Runtimes |-> [w \in Workers |-> Idle]]
    /\ skipped = {} /\ chosen = {}
    /\ faults = 0

-----------------------------------------------------------------------------
(* Time and cursors.                                                       *)

Less(t) == IF t > 0 THEN t - 1 ELSE t
Sooner(s, t) == IF s = None THEN t ELSE IF t = None \/ s <= t THEN s ELSE t

Tick ==
    /\ now' = IF now > Last THEN now ELSE now + 1
    /\ occ' = [o \in Occurrences |-> [occ[o] EXCEPT !.left = Less(@)]]
    /\ rt' = [r \in Runtimes |-> [rt[r] EXCEPT !.wake = Less(@)]]
    /\ wk' = [r \in Runtimes |-> [w \in Workers |->
                [wk[r][w] EXCEPT !.soonest = Less(@),
                                 !.todo = {[e EXCEPT !.row.left = Less(@)] : e \in @}]]]
    /\ UNCHANGED <<published, sched, jobs, history, faults>>

\* Mutant: the end of the calendar is not handled.
SuccessorUnbounded(o) == o + 1

\* nextScheduleCursor: None when the calendar is exhausted.
Successor(o) == IF o < Last THEN o + 1 ELSE None

Fault == faults < MaxFaults /\ faults' = faults + 1

-----------------------------------------------------------------------------
(* A runtime's timers.                                                     *)

Active(x) == x.phase = "active"

\* The arm of startStaticSchedules.
Arm(x) ==
    [x EXCEPT !.armed = IF Active(x) /\ x.enabled /\ x.next # None THEN x.next ELSE None]

\* schedulePendingOccurrenceRecovery: the earlier wake stays.
WakeRecovery(x, t) ==
    IF ~Active(x) \/ t = None \/ (x.wake # None /\ x.wake <= t) THEN x
    ELSE [x EXCEPT !.wake = t]

\* The timer fires, even late, and even between the stop flag and clearTimer.
TimerFires(r) ==
    /\ rt[r].armed # None /\ rt[r].armed <= now
    /\ wk' = [wk EXCEPT ![r]["timer"] = [Idle EXCEPT !.pc = "claim", !.o = rt[r].armed]]
    /\ rt' = [rt EXCEPT ![r].armed = None]
    /\ UNCHANGED <<now, published, sched, occ, jobs, history, faults>>

\* A chunk of a long wait ends early and the rest is armed.
ChunkEnds(r) ==
    /\ LongWaits
    /\ rt[r].armed > now
    /\ rt' = [rt EXCEPT ![r] = Arm(@)]
    /\ UNCHANGED <<now, published, sched, occ, jobs, wk, history, faults>>

\* Bound: one recovery at a time in a runtime.
RecoveryFires(r) ==
    /\ rt[r].wake = 0
    /\ wk[r]["recovery"].pc = "idle"
    /\ rt' = [rt EXCEPT ![r].wake = None]
    /\ wk' = IF Active(rt[r]) THEN [wk EXCEPT ![r]["recovery"].pc = "scan"] ELSE wk
    /\ UNCHANGED <<now, published, sched, occ, jobs, history, faults>>

-----------------------------------------------------------------------------
(* recordScheduledOccurrence, called by the timer and by recovery.         *)

\* It returned: the timer is armed again, recovery goes on with its next row.
Resolve(r, w, x) ==
    IF w = "timer"
    THEN /\ rt' = [rt EXCEPT ![r] = Arm(x)]
         /\ wk' = [wk EXCEPT ![r][w] = Idle]
    ELSE /\ rt' = [rt EXCEPT ![r] = x]
         /\ wk' = [wk EXCEPT ![r][w].pc = wk[r][w].after]

\* Mutant: a failed recovery arms no retry.
RejectQuietly(r, w, x) ==
    /\ rt' = [rt EXCEPT ![r] = IF w = "timer" THEN Arm(x) ELSE x]
    /\ wk' = [wk EXCEPT ![r][w] = Idle]

\* It threw: the timer is armed all the same, recovery gives up until its retry wake.
Reject(r, w, x) ==
    /\ rt' = [rt EXCEPT ![r] = IF w = "timer" THEN Arm(x) ELSE WakeRecovery(x, RetryTicks)]
    /\ wk' = [wk EXCEPT ![r][w] = Idle]

\* Mutant: the runtime trusts the generation it published.
LiveAsCaptured(r) == rt[r].enabled

\* Live: the enabled durable row carries the generation the runtime published.
Live(r) == sched.enabled /\ sched.gen = rt[r].gen

Disabled(r) == [rt[r] EXCEPT !.enabled = FALSE]

\* Without a claim only the runtime's own cursor moves on.
NotClaimed(r, w, x) == Resolve(r, w, [x EXCEPT !.next = Successor(wk[r][w].o)])

Settled(o, outcome) ==
    [occ EXCEPT ![o].status = outcome, ![o].token = NoClaim, ![o].left = 0]

\* claimScheduledOccurrence, one transaction.
Claim(r, w) ==
    /\ wk[r][w].pc = "claim"
    /\ LET o == wk[r][w].o
           mine == occ[o].gen = rt[r].gen
           pending == occ[o].status = "pending"
           take == [status |-> "pending", gen |-> rt[r].gen, def |-> sched.def,
                    token |-> <<r, w>>, left |-> LeaseTicks]
       IN \/ /\ ~Live(r)
             /\ NotClaimed(r, w, Disabled(r))
             /\ UNCHANGED occ
          \/ /\ Live(r)
             /\ occ[o].status = "absent" \/ (pending /\ mine /\ occ[o].left = 0)
             /\ occ' = [occ EXCEPT ![o] = take]
             /\ wk' = [wk EXCEPT ![r][w].pc = "claimed"]
             /\ UNCHANGED rt
          \/ /\ Live(r) /\ pending /\ ~mine
             /\ occ' = Settled(o, "superseded")
             /\ NotClaimed(r, w, rt[r])
          \/ /\ Live(r) /\ pending /\ mine /\ occ[o].left > 0
             /\ NotClaimed(r, w, WakeRecovery(rt[r], occ[o].left))
             /\ UNCHANGED occ
          \/ /\ Live(r) /\ occ[o].status \in Terminal
             /\ NotClaimed(r, w, rt[r])
             /\ UNCHANGED occ
    /\ UNCHANGED <<now, published, sched, jobs, history, faults>>

ClaimFails(r, w) ==
    /\ wk[r][w].pc = "claim"
    /\ Fault
    /\ Reject(r, w, rt[r])
    /\ UNCHANGED <<now, published, sched, occ, jobs, history>>

\* Mutant: the row's generation is compared again, but not its claim.
OwnsByGeneration(r, w) == occ[wk[r][w].o].gen = rt[r].gen

Owns(r, w) ==
    LET row == occ[wk[r][w].o]
    IN row.status = "pending" /\ row.token = <<r, w>> /\ row.gen = rt[r].gen

\* The end of an occurrence under the live generation, with the cursor of both rows.
Finish(r, w, outcome) ==
    LET o == wk[r][w].o
    IN /\ occ' = Settled(o, outcome)
       /\ sched' = [sched EXCEPT !.next = Successor(o)]

Advanced(r, w) == [rt[r] EXCEPT !.next = Successor(wk[r][w].o)]

\* The runtime finds its generation replaced; a row still its own is superseded.
Supersede(r, w) ==
    /\ ~Live(r)
    /\ occ' = IF Owns(r, w) THEN Settled(wk[r][w].o, "superseded") ELSE occ
    /\ UNCHANGED sched

\* The finalising transaction: Job, outcome and cursor together.  The payload factory
\* has run before it, outside any transaction, and gives no payload when it failed, timed
\* out or was aborted (resolveSchedulePayload).
Finalise(r, w) ==
    /\ wk[r][w].pc = "claimed"
    /\ \/ /\ Supersede(r, w)
          /\ Resolve(r, w, Disabled(r))
          /\ UNCHANGED jobs
       \/ /\ Live(r) /\ ~Owns(r, w)
          /\ Resolve(r, w, rt[r])
          /\ UNCHANGED <<sched, occ, jobs>>
       \/ /\ Live(r) /\ Owns(r, w)
          /\ Finish(r, w, "enqueued")
          /\ jobs' = [jobs EXCEPT ![wk[r][w].o] = @ + 1]
          /\ Resolve(r, w, Advanced(r, w))
       \/ /\ Live(r) /\ Owns(r, w)
          /\ Finish(r, w, "payload-failed")
          /\ Resolve(r, w, Advanced(r, w))
          /\ UNCHANGED jobs
    /\ UNCHANGED <<now, published, history, faults>>

\* It rolls back: the Job could not be enqueued, or the transaction failed.
FinaliseFails(r, w) ==
    /\ wk[r][w].pc = "claimed"
    /\ Fault
    /\ IF Active(rt[r])
       THEN wk' = [wk EXCEPT ![r][w].pc = "failed"] /\ UNCHANGED rt
       ELSE Reject(r, w, rt[r])
    /\ UNCHANGED <<now, published, sched, occ, jobs, history>>

\* finishFailedScheduledOccurrence, in a transaction of its own.
FinishFailed(r, w) ==
    /\ wk[r][w].pc = "failed"
    /\ \/ Supersede(r, w) /\ Reject(r, w, Disabled(r))
       \/ /\ Live(r) /\ ~Owns(r, w)
          /\ Reject(r, w, rt[r])
          /\ UNCHANGED <<sched, occ>>
       \/ /\ Live(r) /\ Owns(r, w)
          /\ Finish(r, w, "enqueue-failed")
          /\ Reject(r, w, Advanced(r, w))
    /\ UNCHANGED <<now, published, jobs, history, faults>>

FinishFailedFails(r, w) ==
    /\ wk[r][w].pc = "failed"
    /\ Fault
    /\ Reject(r, w, rt[r])
    /\ UNCHANGED <<now, published, sched, occ, jobs, history>>

-----------------------------------------------------------------------------
(* recoverPendingScheduleOccurrences.                                      *)

\* It reads the pending rows once and then works through what it read.
Scan(r) ==
    /\ wk[r]["recovery"].pc = "scan"
    /\ wk' = [wk EXCEPT ![r]["recovery"] =
                [Idle EXCEPT !.pc = "next", !.after = "next",
                             !.todo = {[o |-> o, row |-> occ[o], live |-> occ[o].left > 0] :
                                       o \in {p \in Occurrences : occ[p].status = "pending"}}]]
    /\ UNCHANGED <<now, published, sched, occ, jobs, rt, history, faults>>

ScanFails(r) ==
    /\ wk[r]["recovery"].pc = "scan"
    /\ Fault
    /\ Reject(r, "recovery", rt[r])
    /\ UNCHANGED <<now, published, sched, occ, jobs, history>>

Earliest(todo) == {e \in todo : \A f \in todo : e.o <= f.o}

\* The next row, looked at beside the durable Schedule row.
NextRow(r) ==
    /\ wk[r]["recovery"].pc = "next"
    /\ \E e \in Earliest(wk[r]["recovery"].todo) :
        LET rest == [wk[r]["recovery"] EXCEPT !.todo = @ \ {e}]
            deferred == [rest EXCEPT !.soonest = Sooner(@, e.row.left)]
        IN \/ /\ ~sched.enabled
              /\ wk' = [wk EXCEPT ![r]["recovery"].pc = "supersede"]
              /\ UNCHANGED rt
           \/ /\ sched.enabled /\ ~(rt[r].enabled /\ Live(r))
              /\ rt' = [rt EXCEPT ![r] = Disabled(r)]
              /\ wk' = [wk EXCEPT ![r]["recovery"] = rest]
           \/ /\ rt[r].enabled /\ Live(r)
              /\ e.row.gen = sched.gen /\ e.live
              /\ wk' = [wk EXCEPT ![r]["recovery"] = deferred]
              /\ UNCHANGED rt
           \/ /\ rt[r].enabled /\ Live(r)
              /\ e.row.gen # sched.gen \/ ~e.live
              /\ wk' = [wk EXCEPT ![r]["recovery"] = [rest EXCEPT !.pc = "claim", !.o = e.o]]
              /\ UNCHANGED rt
    /\ UNCHANGED <<now, published, sched, occ, jobs, history, faults>>

\* finishRetainedScheduleOccurrence: compare and set against the row that was read.
SupersedeRetained(r) ==
    /\ wk[r]["recovery"].pc = "supersede"
    /\ \E e \in Earliest(wk[r]["recovery"].todo) :
        LET rest == [wk[r]["recovery"] EXCEPT !.pc = "next", !.todo = @ \ {e}]
            won == occ[e.o] = e.row /\ ~(sched.enabled /\ sched.gen = e.row.gen)
            retry == IF won \/ occ[e.o].status # "pending" THEN None
                     ELSE IF occ[e.o].left > 0 THEN occ[e.o].left ELSE RetryTicks
        IN /\ occ' = IF won THEN Settled(e.o, "superseded") ELSE occ
           /\ rt' = [rt EXCEPT ![r] = WakeRecovery(@, retry)]
           /\ wk' = [wk EXCEPT ![r]["recovery"] = rest]
    /\ UNCHANGED <<now, published, sched, jobs, history, faults>>

\* Mutant: a live claim met by the scan arms no wake.
EndScanForgets(r) ==
    /\ wk[r]["recovery"].pc = "next"
    /\ wk[r]["recovery"].todo = {}
    /\ wk' = [wk EXCEPT ![r]["recovery"] = Idle]
    /\ UNCHANGED <<now, published, sched, occ, jobs, rt, history, faults>>

EndScan(r) ==
    /\ wk[r]["recovery"].pc = "next"
    /\ wk[r]["recovery"].todo = {}
    /\ rt' = [rt EXCEPT ![r] = WakeRecovery(@, wk[r]["recovery"].soonest)]
    /\ wk' = [wk EXCEPT ![r]["recovery"] = Idle]
    /\ UNCHANGED <<now, published, sched, occ, jobs, history, faults>>

-----------------------------------------------------------------------------
(* Publication of a declaration, and the end of a runtime.                 *)

\* A restart with the same enabled definition takes its pending rows over.
Transferred(gen) ==
    [o \in Occurrences |->
        IF occ[o].status = "pending" /\ occ[o].def = sched.def /\ occ[o].gen = sched.gen
        THEN [occ[o] EXCEPT !.gen = gen] ELSE occ[o]]

\* The timers are armed before recovery starts; recovery first records the missed
\* occurrence c, if the policy selected one.
Started(r, d, next, c) ==
    /\ rt' = [rt EXCEPT ![r] = Arm([Down EXCEPT !.phase = "active",
                                                !.gen = published + 1,
                                                !.enabled = d \in Definitions,
                                                !.next = next])]
    /\ wk' = [wk EXCEPT ![r]["recovery"] =
                [Idle EXCEPT !.pc = IF c = None THEN "scan" ELSE "claim",
                             !.o = c, !.after = "scan"]]

Published(d, next) ==
    /\ published < MaxPublications
    /\ published' = published + 1
    /\ sched' = [gen |-> published + 1, def |-> d, enabled |-> d \in Definitions, next |-> next]

\* A definition that was not enabled before begins with the next occurrence; without
\* one the startup is rejected.
PublishFresh(r, d) ==
    /\ d \in Definitions
    /\ ~(sched.enabled /\ sched.def = d)
    /\ now < Last
    /\ Published(d, now + 1)
    /\ Started(r, d, now + 1, None)
    /\ chosen' = {}
    /\ UNCHANGED <<occ, skipped>>

\* The definition that was enabled goes on; missed occurrences follow its policy.
PublishSame(r, d) ==
    /\ d \in Definitions
    /\ sched.enabled /\ sched.def = d
    /\ LET missed == IF sched.next = None THEN {} ELSE {o \in Occurrences : sched.next <= o /\ o <= now}
           latest == IF now > Last THEN Last ELSE now
           c == IF missed # {} /\ MissedRun = "latest" THEN latest ELSE None
           next == IF missed = {} THEN sched.next
                   ELSE IF c # None /\ latest = Last THEN latest ELSE Successor(latest)
       IN /\ Published(d, next)
          /\ Started(r, d, next, c)
          /\ skipped' = skipped \cup {o \in missed \ {c} : occ[o].status = "absent"}
          /\ chosen' = IF c = None THEN chosen ELSE {c}
    /\ occ' = Transferred(published + 1)

PublishDisabled(r) ==
    /\ Published("disabled", None)
    /\ Started(r, "disabled", None, None)
    /\ chosen' = {}
    /\ UNCHANGED <<occ, skipped>>

PublishRemoved(r) ==
    /\ published < MaxPublications
    /\ published' = published + 1
    /\ sched' = NoSchedule
    /\ Started(r, "removed", None, None)
    /\ chosen' = {}
    /\ UNCHANGED <<occ, skipped>>

\* reconcileSchedules and the rest of init.
Publish(r) ==
    /\ rt[r].phase = "down"
    /\ \/ \E d \in Definitions : PublishFresh(r, d) \/ PublishSame(r, d)
       \/ PublishDisabled(r)
       \/ PublishRemoved(r)
    /\ UNCHANGED <<now, jobs, faults>>

\* shutdown: the flag first, the timers after other settlements were awaited.
Stop(r) ==
    /\ Active(rt[r])
    /\ Fault
    /\ rt' = [rt EXCEPT ![r].phase = "stopping"]
    /\ UNCHANGED <<now, published, sched, occ, jobs, wk, history>>

ClearTimers(r) ==
    /\ rt[r].phase = "stopping"
    /\ rt' = [rt EXCEPT ![r].phase = "stopped", ![r].armed = None, ![r].wake = None]
    /\ UNCHANGED <<now, published, sched, occ, jobs, wk, history, faults>>

\* settleActiveScheduleWork has been awaited.
Close(r) ==
    /\ rt[r].phase = "stopped"
    /\ \A w \in Workers : wk[r][w].pc = "idle"
    /\ rt' = [rt EXCEPT ![r] = Down]
    /\ UNCHANGED <<now, published, sched, occ, jobs, wk, history, faults>>

Crash(r) ==
    /\ rt[r].phase # "down"
    /\ Fault
    /\ rt' = [rt EXCEPT ![r] = Down]
    /\ wk' = [wk EXCEPT ![r] = [w \in Workers |-> Idle]]
    /\ UNCHANGED <<now, published, sched, occ, jobs, history>>

-----------------------------------------------------------------------------
Record(r, w) == Claim(r, w) \/ Finalise(r, w) \/ FinishFailed(r, w)

RecordFails(r, w) == ClaimFails(r, w) \/ FinaliseFails(r, w) \/ FinishFailedFails(r, w)

Recover(r) == Scan(r) \/ NextRow(r) \/ SupersedeRetained(r) \/ EndScan(r)

Next ==
    \/ Tick
    \/ \E r \in Runtimes :
        \/ TimerFires(r) \/ ChunkEnds(r) \/ RecoveryFires(r)
        \/ \E w \in Workers : Record(r, w) \/ RecordFails(r, w)
        \/ Recover(r) \/ ScanFails(r)
        \/ Publish(r) \/ Stop(r) \/ ClearTimers(r) \/ Close(r) \/ Crash(r)

Spec == Init /\ [][Next]_vars

-----------------------------------------------------------------------------
(* Properties.                                                             *)

Generations == 0..MaxPublications
Cursors == Occurrences \cup {None}
Claims == {NoClaim} \cup {<<r, w>> : r \in Runtimes, w \in Workers}
Ticks == 0..LeaseTicks \cup 0..RetryTicks

RowsOf(statuses) ==
    [status : statuses, gen : Generations, def : Definitions \cup {"disabled", "removed"},
     token : Claims, left : 0..LeaseTicks]
Rows == RowsOf({"absent", "pending"} \cup Terminal)

SchedRows == [gen : Generations, def : Definitions \cup {"disabled", "removed"},
              enabled : BOOLEAN, next : Cursors]

RuntimeStates ==
    [phase : {"down", "active", "stopping", "stopped"}, gen : Generations,
     enabled : BOOLEAN, next : Cursors, armed : Cursors, wake : {None} \cup Ticks]

\* Recovery only ever holds rows that were pending when it read them.
Entries == [o : Occurrences, row : RowsOf({"pending"}), live : BOOLEAN]

WorkerStates ==
    [pc : {"idle", "claim", "claimed", "failed", "scan", "next", "supersede"},
     o : Cursors, after : {"none", "scan", "next"}, todo : SUBSET Entries,
     soonest : {None} \cup Ticks]

\* A worker that records an occurrence has one, and recovery knows where to go on.
Placed(v, w) ==
    /\ v.pc \in {"claim", "claimed", "failed"} => v.o \in Occurrences
    /\ w = "recovery" /\ v.pc \notin {"idle", "scan"} => v.after # "none"

TypeOK ==
    /\ now \in 0..(Last + 1)
    /\ published \in Generations
    /\ sched \in SchedRows
    /\ occ \in [Occurrences -> Rows]
    /\ jobs \in [Occurrences -> Nat]
    /\ rt \in [Runtimes -> RuntimeStates]
    /\ wk \in [Runtimes -> [Workers -> WorkerStates]]
    /\ \A r \in Runtimes, w \in Workers : Placed(wk[r][w], w)
    /\ skipped \subseteq Occurrences /\ chosen \subseteq Occurrences
    /\ faults \in 0..MaxFaults

\* An occurrence has one Job exactly when its row says so, although its timer, its
\* recovery and runtimes of an older generation may all have worked on it.
JobIffEnqueued ==
    \A o \in Occurrences : jobs[o] = IF occ[o].status = "enqueued" THEN 1 ELSE 0

\* A Job is enqueued only for the declaration its occurrence was claimed under, while
\* that is the deployed and enabled one (server-runtime-source.ts 1580-1582).
EnqueuedAsDeclared ==
    [][\A o \in Occurrences : jobs'[o] > jobs[o] =>
            sched.enabled /\ occ[o].def = sched.def]_vars

Quiet(r) ==
    /\ Active(rt[r]) /\ rt[r].enabled /\ Live(r)
    /\ \A w \in Workers : wk[r][w].pc = "idle"

\* The live runtime, when it is quiet, has not forgotten a pending occurrence of its
\* generation: a timer at or before it is armed, or a recovery no later than its claim
\* ends or the retry interval.
PendingIsCovered ==
    \A r \in Runtimes : Quiet(r) =>
        \A o \in Occurrences : occ[o].status = "pending" /\ occ[o].gen = sched.gen =>
            \/ rt[r].armed # None /\ rt[r].armed <= o
            \/ /\ rt[r].wake # None
               /\ rt[r].wake <= occ[o].left \/ rt[r].wake <= RetryTicks

\* Every occurrence that was claimed ends.
EveryPendingSettles ==
    <>[](\A o \in Occurrences : occ[o].status # "pending")

\* "skip" resumes at the next future occurrence after downtime and never replays a
\* backlog (jobs-and-schedules.md 303-306).
SkippedNeverRun == \A o \in skipped : jobs[o] = 0

\* "latest" catches up once after downtime, and a process loss after reconciliation can
\* recover the same occurrence (PRD.md 84, server-runtime-source.ts 1518-1522): the one
\* it selected has a row by the time the live runtime has nothing left to do.
ChosenIsRecorded ==
    \A r \in Runtimes : Quiet(r) /\ rt[r].wake = None =>
        \A o \in chosen : occ[o].status # "absent"
=============================================================================
