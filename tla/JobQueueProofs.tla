--------------------------- MODULE JobQueueProofs ---------------------------
(***************************************************************************)
(* Proofs about JobQueue, for any set of Jobs, of runtimes, any retry      *)
(* policies, lease and bounds, and that it implements JobLifecycle.        *)
(***************************************************************************)
EXTENDS JobQueueRefinement, TLAPS, FiniteSetTheorems

-----------------------------------------------------------------------------
(* Type correctness.                                                       *)

\* What a release leaves in a row is a row.
LEMMA ReleasedIsRow ==
    ASSUME NEW j \in Jobs, row \in [Jobs -> Rows], NEW s \in Statuses
    PROVE  Released(j, s) \in Rows
<1>1. row[j] \in Rows
  OBVIOUS
<1>2. 0 \in 0..MaxClaims
  BY ClockAssumption
<1> QED BY <1>1, <1>2 DEF Released, Rows, NoLease, NoToken

LEMMA RowUpdates ==
    ASSUME NEW x \in Rows, NEW h \in Nat, NEW a \in Nat, NEW n \in Nat
    PROVE  /\ [x EXCEPT !.hist = h, !.availableAt = a] \in Rows
           /\ [x EXCEPT !.availableAt = a, !.hist = h] \in Rows
           /\ [x EXCEPT !.hist = h] \in Rows
           /\ [x EXCEPT !.availableAt = a, !.attempts = n] \in Rows
           /\ [x EXCEPT !.attempts = n] \in Rows
BY DEF Rows

LEMMA SettledIsRow ==
    ASSUME TypeOK, NEW r \in Runtimes, wk[r].job \in Jobs
    PROVE  Settled(r) \in Rows
<1>1. SettledStatus(r) \in Statuses
  BY DEF SettledStatus, Statuses
<1>2. Released(wk[r].job, SettledStatus(r)) \in Rows
  BY <1>1, ReleasedIsRow DEF TypeOK
<1>3. wk[r].hist \in Nat /\ now \in Nat /\ RetryDelay[wk[r].job] \in Nat
  BY RetryAssumption DEF TypeOK, Workers
<1> DEFINE x == Released(wk[r].job, SettledStatus(r))
           a == IF SettledStatus(r) = "delayed" THEN now + RetryDelay[wk[r].job]
                ELSE x.availableAt
<1>4. a \in Nat
  BY <1>2, <1>3 DEF Rows
<1>5. Settled(r) = [x EXCEPT !.hist = wk[r].hist + 1, !.availableAt = a]
  BY <1>2 DEF Settled, Rows
<1>6. x \in Rows /\ wk[r].hist + 1 \in Nat
  BY <1>2, <1>3
<1> HIDE DEF x, a
<1>7. [x EXCEPT !.hist = wk[r].hist + 1, !.availableAt = a] \in Rows
  BY <1>4, <1>6, RowUpdates
<1> QED BY <1>5, <1>7

LEMMA RecoveredIsRow ==
    ASSUME TypeOK, NEW s \in Reads
    PROVE  Recovered(s) \in Rows
<1>1. Released(s.job, "failed") \in Rows /\ Released(s.job, "delayed") \in Rows
  BY ReleasedIsRow DEF TypeOK, Reads, Statuses
<1>2. s.hist + 1 \in Nat /\ s.at + RetryDelay[s.job] \in Nat
  BY RetryAssumption DEF Reads
<1> QED BY <1>1, <1>2, RowUpdates DEF Recovered

LEMMA IdleIsWorker == Idle \in Workers /\ Idle.pc = "idle"
<1>1. 0 \in 0..MaxClaims
  BY ClockAssumption
<1> QED BY <1>1 DEF Idle, Workers, Pcs, Outcomes, NoToken, NoLease

LEMMA TypeInit == Init => TypeOK
<1> SUFFICES ASSUME Init PROVE TypeOK
  OBVIOUS
<1>0. 0 \in 0..MaxClaims
  BY ClockAssumption
<1>1. row \in [Jobs -> Rows]
  <2>1. Absent \in Rows
    BY <1>0 DEF Absent, Rows, Statuses, NoLease, NoToken
  <2>2. \A l \in {NoLease, 1} :
          [Absent EXCEPT !.status = "running", !.attempts = 1, !.lease = l] \in Rows
    <3> TAKE l \in {NoLease, 1}
    <3>1. l \in Nat
      BY DEF NoLease
    <3> QED BY <2>1, <3>1 DEF Rows, Statuses
  <2> QED BY <2>1, <2>2 DEF Init
<1>2. Idle \in Workers /\ NoCall \in Calls
  BY <1>0, IdleIsWorker DEF NoToken, NoCall, Calls, Statuses
<1> QED BY <1>1, <1>2, ClockAssumption DEF Init, TypeOK, Idle, NoCall

\* A worker that moves on keeps its type if its new state has the type of one.
LEMMA GotoType ==
    ASSUME TypeOK, NEW r \in Runtimes, NEW w \in Workers, Goto(r, w),
           w.pc \notin {"idle", "select", "nextDelayed"} => w.job \in Jobs
    PROVE  /\ wk' \in [Runtimes -> Workers]
           /\ \A q \in Runtimes :
                wk'[q].pc \notin {"idle", "select", "nextDelayed"} => wk'[q].job \in Jobs
BY DEF Goto, TypeOK

LEMMA WorkerType ==
    ASSUME TypeOK, NEW r \in Runtimes, WorkerStep(r)
    PROVE  TypeOK'
<1> USE DEF NoToken, NoLease
<1>0. /\ wk[r] \in Workers /\ Idle \in Workers
      /\ wk[r].pc \notin {"idle", "select", "nextDelayed"} => wk[r].job \in Jobs
  BY IdleIsWorker DEF TypeOK
<1>1. ASSUME NEW j \in Jobs, NEW pc \in Pcs
      PROVE  Snapshot(r, j, pc) \in Workers /\ Snapshot(r, j, pc).job = j
  BY <1>0 DEF Snapshot, TypeOK, Workers, Rows
<1>2. CASE Promote(r)
  <2>1. row' \in [Jobs -> Rows]
    BY <1>2 DEF Promote, TypeOK, Rows, Statuses
  <2>2. [Idle EXCEPT !.pc = "select", !.wnow = now] \in Workers
    BY <1>0 DEF Idle, Workers, Pcs, Outcomes, TypeOK
  <2> QED BY <1>2, <2>1, <2>2, GotoType DEF Promote, TypeOK, Idle
<1>3. CASE Select(r)
  <2>1. CASE Goto(r, Idle)
    BY <1>3, <2>1, <1>0, GotoType DEF Select, TypeOK, Idle
  <2>2. CASE Goto(r, [wk[r] EXCEPT !.pc = "nextDelayed"])
    <3>1. [wk[r] EXCEPT !.pc = "nextDelayed"] \in Workers
      BY <1>0 DEF Workers, Pcs
    <3>2. [wk[r] EXCEPT !.pc = "nextDelayed"].pc = "nextDelayed"
      BY <1>0 DEF Workers
    <3> QED BY <1>3, <2>2, <3>1, <3>2, GotoType DEF Select, TypeOK
  <2>3. ASSUME NEW j \in Jobs, NEW pc \in {"failQueued", "claim"}, Goto(r, Snapshot(r, j, pc))
        PROVE TypeOK'
    BY <1>3, <2>3, <1>1, GotoType DEF Select, TypeOK, Pcs
  <2> QED BY <1>3, <2>1, <2>2, <2>3 DEF Select, Earliest, Runnable
<1>4. CASE NextDelayed(r)
  <2>1. CASE Goto(r, Idle)
    BY <1>4, <2>1, <1>0, GotoType DEF NextDelayed, TypeOK, Idle
  <2>2. ASSUME NEW j \in Jobs, Goto(r, Snapshot(r, j, "failDelayed"))
        PROVE TypeOK'
    BY <1>4, <2>2, <1>1, GotoType DEF NextDelayed, TypeOK, Pcs
  <2> QED BY <1>4, <2>1, <2>2 DEF NextDelayed, Earliest, Delayed
<1>5. CASE FailInvalid(r)
  <2>1. row' \in [Jobs -> Rows]
    BY <1>5, <1>0 DEF FailInvalid, TypeOK, Rows, Statuses
  <2>2. [Idle EXCEPT !.pc = "nextDelayed", !.wnow = wk[r].wnow] \in Workers
    BY <1>0 DEF Idle, Workers, Pcs, Outcomes
  <2> QED BY <1>5, <1>0, <2>1, <2>2, GotoType DEF FailInvalid, TypeOK, Idle
<1>6. CASE Claim(r)
  <2> DEFINE lease == wk[r].wnow + LeaseTicks
             w == [wk[r] EXCEPT !.pc = "claimed", !.token = issued + 1,
                                !.lease = lease, !.wnow = 0, !.availableAt = 0]
  <2>1. issued + 1 \in 0..MaxClaims /\ lease \in Nat
    BY <1>6, <1>0, ClockAssumption DEF Claim, TypeOK, Workers
  <2>2. row' \in [Jobs -> Rows]
    BY <1>6, <1>0, <2>1 DEF Claim, TypeOK, Rows, Statuses
  <2>3. w \in Workers /\ w.job = wk[r].job
    BY <1>0, <2>1 DEF Workers, Pcs
  <2>4. Goto(r, w) /\ wk[r].job \in Jobs
    BY <1>6, <1>0 DEF Claim
  <2> QED BY <1>6, <2>1, <2>2, <2>3, <2>4, GotoType DEF Claim, TypeOK
<1>7. CASE ClaimLost(r)
  BY <1>7, <1>0, GotoType DEF ClaimLost, TypeOK, Idle
<1>8. CASE Register(r)
  <2>1. ASSUME NEW pc \in {"relinquish", "recheck"}
        PROVE  [wk[r] EXCEPT !.pc = pc] \in Workers /\ [wk[r] EXCEPT !.pc = pc].job = wk[r].job
    BY <1>0 DEF Workers, Pcs
  <2> QED BY <1>8, <1>0, <2>1, GotoType DEF Register, TypeOK
<1>9. CASE Recheck(r)
  <2>1. wk[r].job \in Jobs /\ row[wk[r].job].cancel \in BOOLEAN
    BY <1>9, <1>0 DEF Recheck, TypeOK, Rows
  <2> DEFINE w == [wk[r] EXCEPT !.pc = "start", !.aborted = @ \/ row[wk[r].job].cancel]
  <2>2. w \in Workers /\ w.job = wk[r].job
    BY <1>0, <2>1 DEF Workers, Pcs
  <2>3. Goto(r, w) \/ Goto(r, Idle)
    BY <1>9 DEF Recheck
  <2>4. Idle.pc = "idle"
    BY DEF Idle
  <2>5. UNCHANGED <<now, issued, row, phase, canceller, scan, charged>>
    BY <1>9 DEF Recheck
  <2> HIDE DEF w
  <2> QED BY <1>0, <2>1, <2>2, <2>3, <2>4, <2>5, GotoType DEF TypeOK
<1>10. CASE Start(r)
  <2>1. ASSUME NEW pc \in {"relinquish", "handler"}
        PROVE  [wk[r] EXCEPT !.pc = pc] \in Workers /\ [wk[r] EXCEPT !.pc = pc].job = wk[r].job
    BY <1>0 DEF Workers, Pcs
  <2>2. ASSUME NEW o \in {"error", "permanent"}
        PROVE  /\ [wk[r] EXCEPT !.pc = "settle", !.outcome = o] \in Workers
               /\ [wk[r] EXCEPT !.pc = "settle", !.outcome = o].job = wk[r].job
    BY <1>0 DEF Workers, Pcs, Outcomes
  <2>3. wk[r].job \in Jobs
    BY <1>10, <1>0 DEF Start
  <2>4. charged' \in [Jobs -> Int]
    BY <1>10, <2>3 DEF Start, TypeOK
  <2>5. \/ \E pc \in {"relinquish", "handler"} : Goto(r, [wk[r] EXCEPT !.pc = pc])
        \/ \E o \in {"error", "permanent"} : Goto(r, [wk[r] EXCEPT !.pc = "settle", !.outcome = o])
    BY <1>10 DEF Start
  <2>6. UNCHANGED <<now, issued, row, phase, canceller, scan>>
    BY <1>10 DEF Start
  <2> QED BY <2>1, <2>2, <2>3, <2>4, <2>5, <2>6, GotoType DEF TypeOK
<1>11. CASE HandlerEnds(r)
  <2>1. ASSUME NEW pc \in {"readCancel", "contention"}
        PROVE  [wk[r] EXCEPT !.pc = pc] \in Workers /\ [wk[r] EXCEPT !.pc = pc].job = wk[r].job
    BY <1>0 DEF Workers, Pcs
  <2>2. ASSUME NEW o \in {"ok", "error", "permanent"}
        PROVE  /\ [wk[r] EXCEPT !.pc = "settle", !.outcome = o] \in Workers
               /\ [wk[r] EXCEPT !.pc = "settle", !.outcome = o].job = wk[r].job
    BY <1>0 DEF Workers, Pcs, Outcomes
  <2>3. wk[r].job \in Jobs
    BY <1>11, <1>0 DEF HandlerEnds
  <2> QED BY <1>11, <2>1, <2>2, <2>3, GotoType DEF HandlerEnds, TypeOK
<1>12. CASE ReadCancellation(r)
  <2>1. ASSUME NEW o \in {"cancelled", "error"}
        PROVE  /\ [wk[r] EXCEPT !.pc = "settle", !.outcome = o] \in Workers
               /\ [wk[r] EXCEPT !.pc = "settle", !.outcome = o].job = wk[r].job
    BY <1>0 DEF Workers, Pcs, Outcomes
  <2> QED BY <1>12, <1>0, <2>1, GotoType DEF ReadCancellation, TypeOK
<1>13. CASE DeferContention(r)
  <2>1. wk[r].job \in Jobs
    BY <1>13, <1>0 DEF DeferContention
  <2>2. Released(wk[r].job, "delayed") \in Rows
    BY <2>1, ReleasedIsRow DEF TypeOK, Statuses
  <2>3. row' \in [Jobs -> Rows]
    <3> DEFINE x == Released(wk[r].job, "delayed")
               n == IF x.attempts > 0 THEN x.attempts - 1 ELSE 0
    <3>1. now + ContentionDelay \in Nat /\ n \in Nat
      BY <2>2, RetryAssumption DEF TypeOK, Rows
    <3>2. \/ row' = [row EXCEPT ![wk[r].job] =
                     [x EXCEPT !.availableAt = now + ContentionDelay, !.attempts = n]]
          \/ row' = row
      BY <1>13, <2>1, <2>2 DEF DeferContention, TypeOK, Rows
    <3>3. x \in Rows
      BY <2>2
    <3> HIDE DEF x, n
    <3>4. [x EXCEPT !.availableAt = now + ContentionDelay, !.attempts = n] \in Rows
      BY <3>1, <3>3, RowUpdates
    <3> QED BY <2>1, <3>2, <3>4 DEF TypeOK
  <2>4. charged' \in [Jobs -> Int]
    BY <1>13, <2>1 DEF DeferContention, TypeOK
  <2>5. /\ [wk[r] EXCEPT !.pc = "readCancel", !.aborted = TRUE] \in Workers
        /\ [wk[r] EXCEPT !.pc = "readCancel", !.aborted = TRUE].job = wk[r].job
        /\ [wk[r] EXCEPT !.pc = "settle", !.outcome = "error"] \in Workers
        /\ [wk[r] EXCEPT !.pc = "settle", !.outcome = "error"].job = wk[r].job
    BY <1>0 DEF Workers, Pcs, Outcomes
  <2>6. \/ Goto(r, Idle)
        \/ Goto(r, [wk[r] EXCEPT !.pc = "readCancel", !.aborted = TRUE])
        \/ Goto(r, [wk[r] EXCEPT !.pc = "settle", !.outcome = "error"])
    BY <1>13 DEF DeferContention
  <2>7. UNCHANGED <<now, issued, phase, canceller, scan>>
    BY <1>13 DEF DeferContention
  <2>8. Idle.pc = "idle"
    BY DEF Idle
  <2> QED BY <1>0, <2>1, <2>3, <2>4, <2>5, <2>6, <2>7, <2>8, GotoType DEF TypeOK
<1>14. CASE Settle(r)
  <2>1. wk[r].job \in Jobs
    BY <1>14, <1>0 DEF Settle
  <2>2. row' \in [Jobs -> Rows]
    BY <1>14, <2>1, SettledIsRow DEF Settle, TypeOK
  <2> QED BY <1>14, <1>0, <2>2, GotoType DEF Settle, TypeOK, Idle
<1>15. CASE Relinquish(r)
  <2>1. wk[r].job \in Jobs
    BY <1>15, <1>0 DEF Relinquish
  <2>2. \A s \in {"cancelled", "queued"} : Released(wk[r].job, s) \in Rows
    BY <2>1, ReleasedIsRow DEF TypeOK, Statuses
  <2>3. row' \in [Jobs -> Rows]
    BY <1>15, <2>1, <2>2 DEF Relinquish, TypeOK, Rows
  <2> QED BY <1>15, <1>0, <2>3, GotoType DEF Relinquish, TypeOK, Idle
<1>16. CASE WorkerThrows(r)
  <2>1. /\ [wk[r] EXCEPT !.pc = "relinquish"] \in Workers
        /\ [wk[r] EXCEPT !.pc = "relinquish"].job = wk[r].job
        /\ [wk[r] EXCEPT !.pc = "settle", !.outcome = "error"] \in Workers
        /\ [wk[r] EXCEPT !.pc = "settle", !.outcome = "error"].job = wk[r].job
        /\ [wk[r] EXCEPT !.outcome = "error"] \in Workers
        /\ [wk[r] EXCEPT !.outcome = "error"].job = wk[r].job
        /\ Idle.pc = "idle"
    BY <1>0 DEF Workers, Pcs, Outcomes, Idle
  <2>2. \/ Goto(r, Idle)
        \/ /\ wk[r].job \in Jobs
           /\ \/ Goto(r, [wk[r] EXCEPT !.pc = "relinquish"])
              \/ Goto(r, [wk[r] EXCEPT !.pc = "settle", !.outcome = "error"])
              \/ Goto(r, [wk[r] EXCEPT !.outcome = "error"])
    BY <1>16, <1>0 DEF WorkerThrows
  <2>3. UNCHANGED <<now, issued, row, phase, canceller, scan, charged>>
    BY <1>16 DEF WorkerThrows
  <2> QED BY <1>0, <2>1, <2>2, <2>3, GotoType DEF TypeOK
<1> QED
  BY <1>2, <1>3, <1>4, <1>5, <1>6, <1>7, <1>8, <1>9, <1>10, <1>11, <1>12,
     <1>13, <1>14, <1>15, <1>16 DEF WorkerStep

LEMMA AbortedIsWorkers ==
    ASSUME TypeOK, NEW r \in Runtimes
    PROVE  [wk EXCEPT ![r].aborted = TRUE] \in [Runtimes -> Workers]
<1>1. wk \in [Runtimes -> Workers] /\ wk[r] \in Workers
  BY DEF TypeOK
<1>2. [wk[r] EXCEPT !.aborted = TRUE] \in Workers
  BY <1>1 DEF Workers
<1> QED BY <1>1, <1>2

LEMMA CancelType ==
    ASSUME TypeOK, CancelStep
    PROVE  TypeOK'
<1>0. NoCall \in Calls /\ NoCall.pc = "idle"
  <2>1. 0 \in 0..MaxClaims
    BY ClockAssumption
  <2> QED BY <2>1 DEF NoCall, Calls, Statuses, NoToken
<1>1. ASSUME NEW r \in Runtimes, NEW j \in Jobs, CancelRead(r, j)
      PROVE  TypeOK'
  <2>1. canceller' \in Calls /\ canceller'.job = j /\ canceller'.on = r
    BY <1>1 DEF CancelRead, TypeOK, Calls, Rows, Statuses
  <2> QED BY <1>1, <2>1 DEF CancelRead, TypeOK
<1>2. CASE CancelWaiting
  <2>1. canceller.job \in Jobs
    BY <1>2 DEF CancelWaiting, TypeOK
  <2>2. Released(canceller.job, "cancelled") \in Rows
    BY <2>1, ReleasedIsRow DEF TypeOK, Statuses
  <2>3. row' \in [Jobs -> Rows]
    BY <1>2, <2>1, <2>2 DEF CancelWaiting, TypeOK
  <2> QED BY <1>0, <1>2, <2>3 DEF CancelWaiting, TypeOK
<1>3. CASE CancelRunning
  <2>1. canceller.job \in Jobs /\ canceller.on \in Runtimes
    BY <1>3 DEF CancelRunning, TypeOK
  <2>2. row' \in [Jobs -> Rows]
    BY <1>3, <2>1 DEF CancelRunning, TypeOK, Rows
  <2>3. /\ [canceller EXCEPT !.pc = "abort"] \in Calls
        /\ [canceller EXCEPT !.pc = "abort"].job = canceller.job
        /\ [canceller EXCEPT !.pc = "abort"].on = canceller.on
    BY DEF TypeOK, Calls
  <2> QED BY <1>0, <1>3, <2>1, <2>2, <2>3 DEF CancelRunning, TypeOK
<1>4. CASE CancelAbort
  <2>1. wk' \in [Runtimes -> Workers]
    <3>1. canceller.on \in Runtimes
      BY <1>4 DEF CancelAbort, TypeOK
    <3> QED BY <1>4, <3>1, AbortedIsWorkers DEF CancelAbort, TypeOK
  <2>2. \A q \in Runtimes : wk'[q].pc = wk[q].pc /\ wk'[q].job = wk[q].job
    BY <1>4 DEF CancelAbort, TypeOK, Workers
  <2> QED BY <1>0, <1>4, <2>1, <2>2 DEF CancelAbort, TypeOK
<1> QED BY <1>1, <1>2, <1>3, <1>4 DEF CancelStep

LEMMA RuntimeType ==
    ASSUME TypeOK, NEW r \in Runtimes, RuntimeStep(r)
    PROVE  TypeOK'
<1>1. CASE ScanLeases(r)
  <2>1. \A j \in Jobs : Read(j) \in Reads
    BY DEF Read, Reads, TypeOK, Rows
  <2>2. scan' \in [Runtimes -> SUBSET Reads]
    BY <1>1, <2>1 DEF ScanLeases, Due, TypeOK
  <2> QED BY <1>1, <2>2 DEF ScanLeases, TypeOK
<1>2. CASE RecoverRow(r)
  <2>1. PICK s \in scan[r] : /\ scan' = [scan EXCEPT ![r] = @ \ {s}]
                             /\ row' = IF Unchanged(s)
                                       THEN [row EXCEPT ![s.job] = Recovered(s)] ELSE row
                             /\ UNCHANGED <<now, issued, phase, wk, canceller, charged>>
    BY <1>2 DEF RecoverRow
  <2>2. s \in Reads /\ s.job \in Jobs
    BY DEF TypeOK, Reads
  <2>3. row' \in [Jobs -> Rows]
    BY <2>1, <2>2, RecoveredIsRow DEF TypeOK
  <2> QED BY <2>1, <2>3 DEF TypeOK
<1>3. CASE Open(r)
  <2>1. row' \in [Jobs -> Rows]
    BY <1>3 DEF Open, TypeOK, Rows, Statuses
  <2> QED BY <1>3, <2>1 DEF Open, TypeOK
<1>4. CASE Activate(r)
  BY <1>4 DEF Activate, TypeOK
<1>5. CASE Stop(r)
  <2>1. wk' \in [Runtimes -> Workers]
    BY <1>5, AbortedIsWorkers DEF Stop, TypeOK
  <2>2. \A q \in Runtimes : wk'[q].pc = wk[q].pc /\ wk'[q].job = wk[q].job
    BY <1>5 DEF Stop, TypeOK, Workers
  <2> QED BY <1>5, <2>1, <2>2 DEF Stop, TypeOK
<1>6. CASE Close(r)
  BY <1>6 DEF Close, TypeOK
<1>7. CASE Crash(r)
  <2>1. NoCall \in Calls /\ NoCall.pc = "idle"
    <3>1. 0 \in 0..MaxClaims
      BY ClockAssumption
    <3> QED BY <3>1 DEF NoCall, Calls, Statuses, NoToken
  <2> QED BY <1>7, <2>1, IdleIsWorker DEF Crash, TypeOK
<1> QED BY <1>1, <1>2, <1>3, <1>4, <1>5, <1>6, <1>7 DEF RuntimeStep

LEMMA TypeStep == TypeOK /\ [Next]_vars => TypeOK'
<1> SUFFICES ASSUME TypeOK, [Next]_vars PROVE TypeOK'
  OBVIOUS
<1>1. CASE Tick
  BY <1>1 DEF Tick, TypeOK
<1>2. ASSUME NEW j \in Jobs, NEW at \in Availabilities, Enqueue(j, at)
      PROVE  TypeOK'
  <2>1. at \in Nat /\ 0 \in 0..MaxClaims
    BY ClockAssumption
  <2>2. row' \in [Jobs -> Rows]
    BY <1>2, <2>1 DEF Enqueue, Absent, TypeOK, Rows, Statuses, NoLease, NoToken
  <2> QED BY <1>2, <2>2 DEF Enqueue, TypeOK
<1>3. CASE UNCHANGED vars
  BY <1>3 DEF vars, TypeOK
<1> QED BY <1>1, <1>2, <1>3, WorkerType, CancelType, RuntimeType DEF Next

\* Type correctness holds in every behaviour (TypeOK of the run job_queue_one).
THEOREM TypeCorrect == Spec => []TypeOK
<1>1. Init => TypeOK
  BY TypeInit
<1>2. TypeOK /\ [Next]_vars => TypeOK'
  BY TypeStep
<1> QED BY <1>1, <1>2, PTL DEF Spec

-----------------------------------------------------------------------------
(* Terminal rows are final.                                                *)

TerminalStays == \A j \in Jobs : row[j].status \in Terminal => row'[j] = row[j]

\* Every write of a row is guarded by a status that is not terminal.
LEMMA TerminalStep == TypeOK /\ [Next]_vars => TerminalStays
<1> SUFFICES ASSUME TypeOK, [Next]_vars, NEW j \in Jobs, row[j].status \in Terminal
             PROVE  row'[j] = row[j]
  BY DEF TerminalStays
<1>0. row[j].status \notin {"absent", "delayed", "queued", "running"}
  BY DEF Terminal
<1>1. ASSUME NEW r \in Runtimes, WorkerStep(r)
      PROVE  row'[j] = row[j]
  <2>1. CASE row' = row
    BY <2>1
  <2>2. CASE Promote(r)
    BY <1>0, <2>2 DEF Promote, TypeOK
  <2>3. CASE FailInvalid(r)
    BY <1>0, <2>3 DEF FailInvalid, TypeOK
  <2>4. CASE Claim(r)
    BY <1>0, <2>4 DEF Claim, Claimable, TypeOK
  <2>5. CASE DeferContention(r) \/ Settle(r) \/ Relinquish(r)
    BY <1>0, <2>5 DEF DeferContention, Settle, Relinquish, Owns, TypeOK
  <2> QED
    BY <1>1, <2>1, <2>2, <2>3, <2>4, <2>5
    DEF WorkerStep, Select, NextDelayed, ClaimLost, Register, Recheck, Start, HandlerEnds,
        ReadCancellation, WorkerThrows
<1>2. ASSUME NEW r \in Runtimes, RuntimeStep(r)
      PROVE  row'[j] = row[j]
  BY <1>0, <1>2 DEF RuntimeStep, ScanLeases, RecoverRow, Unchanged, Open, Activate, Stop,
                    Close, Crash, TypeOK
<1>3. CASE CancelStep
  BY <1>0, <1>3 DEF CancelStep, CancelRead, CancelWaiting, CancelRunning, CancelAbort, TypeOK
<1>4. ASSUME NEW k \in Jobs, NEW at \in Availabilities, Enqueue(k, at)
      PROVE  row'[j] = row[j]
  BY <1>0, <1>4 DEF Enqueue, TypeOK
<1>5. CASE Tick \/ UNCHANGED vars
  BY <1>5 DEF Tick, vars
<1> QED BY <1>1, <1>2, <1>3, <1>4, <1>5 DEF Next

\* A settled row is never written again, by any stale worker, scan or cancellation.
THEOREM SettledIsFinal == Spec => TerminalIsFinal
<1>1. TypeOK /\ [Next]_vars => [TerminalStays]_vars
  BY TerminalStep
<1> QED BY <1>1, TypeCorrect, PTL DEF Spec, TerminalIsFinal, TerminalStays

-----------------------------------------------------------------------------
(* A claim is its worker's until its lease runs out.                       *)

Claimed(q) ==
    /\ wk[q].token \in 1..issued
    /\ \/ Owns(q) /\ row[wk[q].job].lease = wk[q].lease
       \/ wk[q].lease <= now

\* A holder stays one if its memory is kept and so is the row of its live claim.
LEMMA HolderKept ==
    ASSUME TypeOK, HoldersOwn, TypeOK', NEW q \in Runtimes,
           wk[q].pc \in Holding,
           wk'[q].job = wk[q].job, wk'[q].token = wk[q].token, wk'[q].lease = wk[q].lease,
           now <= now', issued <= issued',
           Owns(q) /\ row[wk[q].job].lease = wk[q].lease /\ ~(wk[q].lease <= now)
             => /\ row'[wk[q].job].status = row[wk[q].job].status
                /\ row'[wk[q].job].token = row[wk[q].job].token
                /\ row'[wk[q].job].lease = row[wk[q].job].lease
    PROVE  Claimed(q)'
<1>1. Claimed(q)
  BY DEF HoldersOwn, Claimed
<1>2. wk[q].lease \in Nat /\ wk[q].token \in Nat /\ now \in Nat /\ now' \in Nat
      /\ issued \in Nat /\ issued' \in Nat
  BY DEF TypeOK, Workers
<1>3. wk'[q].token \in 1..issued'
  BY <1>1, <1>2 DEF Claimed
<1>4. CASE wk[q].lease <= now
  BY <1>2, <1>3, <1>4 DEF Claimed
<1>5. CASE ~(wk[q].lease <= now)
  BY <1>1, <1>3, <1>5 DEF Claimed, Owns
<1> QED BY <1>4, <1>5

\* What a worker step may do to the memory of the workers.
LEMMA WorkerMemory ==
    ASSUME TypeOK, NEW r \in Runtimes, WorkerStep(r), ~Claim(r)
    PROVE  /\ \A q \in Runtimes \ {r} : wk'[q] = wk[q]
           /\ wk'[r].pc \in Holding =>
                /\ wk[r].pc \in Holding
                /\ wk'[r].job = wk[r].job /\ wk'[r].token = wk[r].token
                /\ wk'[r].lease = wk[r].lease
           /\ now' = now /\ issued' = issued /\ scan' = scan
<1>1. wk \in [Runtimes -> Workers] /\ wk[r] \in Workers
  BY DEF TypeOK
<1>2. Idle.pc = "idle" /\ [Idle EXCEPT !.pc = "select", !.wnow = now].pc = "select"
      /\ [Idle EXCEPT !.pc = "nextDelayed", !.wnow = wk[r].wnow].pc = "nextDelayed"
  BY DEF Idle
<1>3. ASSUME NEW w, Goto(r, w)
      PROVE  wk'[r] = w /\ \A q \in Runtimes \ {r} : wk'[q] = wk[q]
  BY <1>1, <1>3 DEF Goto
<1>4. CASE Promote(r) \/ ClaimLost(r) \/ Settle(r) \/ Relinquish(r) \/ FailInvalid(r)
  BY <1>2, <1>3, <1>4 DEF Promote, ClaimLost, Settle, Relinquish, FailInvalid, Holding
<1>5. CASE Select(r) \/ NextDelayed(r)
  <2>1. \A j \in Jobs, pc \in Pcs : Snapshot(r, j, pc).pc = pc
    BY <1>1 DEF Snapshot, Workers
  <2>2. [wk[r] EXCEPT !.pc = "nextDelayed"].pc = "nextDelayed"
    BY <1>1 DEF Workers
  <2>3. \A j \in Jobs :
          Snapshot(r, j, IF Invalid(j) THEN "failQueued" ELSE "claim").pc \notin Holding
    BY <2>1 DEF Pcs, Holding
  <2>4. CASE Select(r)
    BY <1>2, <1>3, <2>2, <2>3, <2>4 DEF Select, Earliest, Runnable, Holding
  <2>5. CASE NextDelayed(r)
    <3>1. \A j \in Jobs : Snapshot(r, j, "failDelayed").pc \notin Holding
      BY <2>1 DEF Pcs, Holding
    <3>2. \/ Goto(r, Idle)
          \/ \E j \in Jobs : Goto(r, Snapshot(r, j, "failDelayed"))
      BY <2>5 DEF NextDelayed, Earliest, Delayed
    <3> QED BY <1>2, <1>3, <2>5, <3>1, <3>2 DEF NextDelayed, Holding
  <2> QED BY <1>5, <2>4, <2>5
<1>6. CASE Register(r) \/ Recheck(r) \/ Start(r) \/ HandlerEnds(r) \/ ReadCancellation(r)
           \/ DeferContention(r) \/ WorkerThrows(r)
  <2>1. wk[r].pc \in Holding \/ wk' = [wk EXCEPT ![r] = Idle]
    BY <1>6 DEF Register, Recheck, Start, HandlerEnds, ReadCancellation, DeferContention,
                WorkerThrows, Holding, Goto
  <2>2. CASE wk' = [wk EXCEPT ![r] = Idle]
    BY <1>1, <1>2, <1>6, <2>2 DEF Holding, Register, Recheck, Start, HandlerEnds,
        ReadCancellation, DeferContention, WorkerThrows
  <2>3. \/ wk' = [wk EXCEPT ![r] = Idle]
        \/ \E pc \in Pcs, o \in Outcomes, b \in BOOLEAN :
             \/ wk'[r] = [wk[r] EXCEPT !.pc = pc]
             \/ wk'[r] = [wk[r] EXCEPT !.pc = pc, !.outcome = o]
             \/ wk'[r] = [wk[r] EXCEPT !.outcome = o]
             \/ wk'[r] = [wk[r] EXCEPT !.pc = pc, !.aborted = b]
    <3>1. CASE Register(r)
      <4>1. PICK pc \in {"relinquish", "recheck"} : Goto(r, [wk[r] EXCEPT !.pc = pc])
        BY <3>1 DEF Register
      <4>2. wk'[r] = [wk[r] EXCEPT !.pc = pc] /\ pc \in Pcs
        BY <1>1, <4>1 DEF Goto, Pcs
      <4>3. "error" \in Outcomes
        BY DEF Outcomes
      <4> QED BY <4>2, <4>3
    <3>4. CASE Start(r)
      BY <1>1, <3>4 DEF Start, Goto, Pcs, Outcomes
    <3>5. CASE HandlerEnds(r)
      BY <1>1, <3>5 DEF HandlerEnds, Goto, Pcs, Outcomes
    <3>6. CASE ReadCancellation(r)
      BY <1>1, <3>6 DEF ReadCancellation, Goto, Pcs, Outcomes
    <3>2. CASE DeferContention(r) \/ WorkerThrows(r)
      BY <1>1, <3>2 DEF DeferContention, WorkerThrows, Goto, Pcs, Outcomes
    <3>3. CASE Recheck(r)
      <4>1. wk[r].job \in Jobs /\ (wk[r].aborted \/ row[wk[r].job].cancel) \in BOOLEAN
        BY <3>3 DEF Recheck, TypeOK, Workers, Rows
      <4> QED BY <1>1, <3>3, <4>1 DEF Recheck, Goto, Pcs, Outcomes
    <3> QED BY <1>6, <3>1, <3>2, <3>3, <3>4, <3>5, <3>6
  <2>4. \/ wk' = [wk EXCEPT ![r] = Idle]
        \/ /\ wk'[r].job = wk[r].job
           /\ wk'[r].token = wk[r].token
           /\ wk'[r].lease = wk[r].lease
    BY <1>1, <2>3 DEF Workers
  <2>5. \A q \in Runtimes \ {r} : wk'[q] = wk[q]
    BY <1>1, <1>6 DEF Register, Recheck, Start, HandlerEnds, ReadCancellation,
                      DeferContention, WorkerThrows, Goto
  <2>6. now' = now /\ issued' = issued /\ scan' = scan
    BY <1>6 DEF Register, Recheck, Start, HandlerEnds, ReadCancellation,
                DeferContention, WorkerThrows
  <2> QED BY <2>1, <2>2, <2>4, <2>5, <2>6
<1> QED BY <1>4, <1>5, <1>6 DEF WorkerStep

\* Short of a claim, a worker step leaves alone every row another worker owns.
LEMMA OwnedRowKept ==
    ASSUME TypeOK, TokensDistinct, NEW r \in Runtimes, WorkerStep(r), ~Claim(r),
           NEW q \in Runtimes, wk[q].pc \in Holding, wk'[q].pc \in Holding, Owns(q)
    PROVE  row'[wk[q].job] = row[wk[q].job]
<1>1. wk[q].job \in Jobs /\ row[wk[q].job].status = "running"
  BY DEF TypeOK, Holding, Owns
<1>2. CASE row' = row
  BY <1>2
<1>3. CASE Promote(r)
  BY <1>1, <1>3 DEF Promote
<1>4. CASE FailInvalid(r)
  BY <1>1, <1>4 DEF FailInvalid, TypeOK
<1>5. CASE (DeferContention(r) \/ Settle(r) \/ Relinquish(r)) /\ row' # row
  <2>1. wk[r].pc \in Holding /\ Owns(r) /\ wk' = [wk EXCEPT ![r] = Idle]
    BY <1>5 DEF DeferContention, Settle, Relinquish, Holding, Goto
  <2>2. q # r
    BY <2>1, IdleIsWorker DEF Holding, TypeOK
  <2>3. wk[q].job # wk[r].job
    BY <2>1, <2>2 DEF TokensDistinct, Owns
  <2>4. \A j \in Jobs \ {wk[r].job} : row'[j] = row[j]
    BY <1>5 DEF DeferContention, Settle, Relinquish, TypeOK
  <2> QED BY <1>1, <2>3, <2>4
<1> QED
  BY <1>2, <1>3, <1>4, <1>5
  DEF WorkerStep, Select, NextDelayed, ClaimLost, Register, Recheck, Start, HandlerEnds,
      ReadCancellation, WorkerThrows

LEMMA ClaimInit == Init => ClaimInvariant
BY IdleIsWorker DEF Init, ClaimInvariant, HoldersOwn, TokensDistinct, ScansExpired, Holding

LEMMA ClaimByWorker ==
    ASSUME TypeOK, ClaimInvariant, TypeOK', NEW r \in Runtimes, WorkerStep(r)
    PROVE  ClaimInvariant'
<1> USE DEF ClaimInvariant
<1>1. CASE ~Claim(r)
  <2>1. \A q \in Runtimes :
          wk'[q].pc \in Holding =>
            /\ wk[q].pc \in Holding
            /\ wk'[q].job = wk[q].job /\ wk'[q].token = wk[q].token
            /\ wk'[q].lease = wk[q].lease
    BY <1>1, WorkerMemory
  <2>2. now' = now /\ issued' = issued /\ scan' = scan
    BY <1>1, WorkerMemory
  <2>3. TokensDistinct'
    BY <2>1 DEF TokensDistinct
  <2>4. ScansExpired'
    BY <2>2 DEF ScansExpired
  <2>5. ASSUME NEW q \in Runtimes, wk'[q].pc \in Holding
        PROVE  Claimed(q)'
    <3>1. Owns(q) => row'[wk[q].job] = row[wk[q].job]
      BY <1>1, <2>1, <2>5, OwnedRowKept
    <3>2. now <= now' /\ issued <= issued'
      BY <2>2 DEF TypeOK
    <3> QED BY <2>1, <2>5, <3>1, <3>2, HolderKept
  <2>6. HoldersOwn'
    BY <2>5 DEF HoldersOwn, Claimed
  <2> QED BY <2>3, <2>4, <2>6
<1>2. CASE Claim(r)
  <2> DEFINE j == wk[r].job
             lease == wk[r].wnow + LeaseTicks
             w == [wk[r] EXCEPT !.pc = "claimed", !.token = issued + 1,
                                !.lease = lease, !.wnow = 0, !.availableAt = 0]
  <2>1. /\ j \in Jobs /\ row[j].status = "queued" /\ wk' = [wk EXCEPT ![r] = w]
        /\ issued' = issued + 1 /\ now' = now /\ scan' = scan
        /\ row' = [row EXCEPT ![j].status = "running", ![j].attempts = row[j].attempts + 1,
                              ![j].lease = lease, ![j].token = issued + 1]
    BY <1>2 DEF Claim, Claimable, Goto, TypeOK
  <2>2. /\ wk'[r].job = j /\ wk'[r].token = issued + 1 /\ wk'[r].lease = lease
        /\ \A q \in Runtimes \ {r} : wk'[q] = wk[q]
    BY <2>1 DEF TypeOK, Workers
  <2>3. /\ row'[j].status = "running" /\ row'[j].token = issued + 1 /\ row'[j].lease = lease
        /\ \A k \in Jobs \ {j} : row'[k] = row[k]
    BY <2>1 DEF TypeOK, Rows
  <2>4. issued \in Nat /\ now \in Nat
    BY DEF TypeOK
  <2> HIDE DEF j, lease, w
  <2>5. ASSUME NEW q \in Runtimes \ {r}, wk'[q].pc \in Holding
        PROVE  Claimed(q)'
    <3>1. wk[q].pc \in Holding /\ wk[q].job \in Jobs
      BY <2>2, <2>5 DEF TypeOK, Holding
    <3>2. Owns(q) => row'[wk[q].job] = row[wk[q].job]
      BY <2>1, <2>3, <3>1 DEF Owns
    <3>3. now <= now' /\ issued <= issued'
      BY <2>1, <2>4
    <3> QED BY <2>2, <2>5, <3>1, <3>2, <3>3, HolderKept
  <2>6. Claimed(r)'
    <3>1. wk'[r].token \in 1..issued'
      BY <2>1, <2>2, <2>4
    <3>2. row'[wk'[r].job].status = "running" /\ row'[wk'[r].job].token = wk'[r].token
          /\ row'[wk'[r].job].lease = wk'[r].lease
      <4>1. /\ wk'[r].job = j /\ wk'[r].token = issued + 1 /\ wk'[r].lease = lease
        BY <2>2
      <4>2. /\ row'[j].status = "running" /\ row'[j].token = issued + 1 /\ row'[j].lease = lease
        BY <2>3
      <4> QED BY <4>1, <4>2
    <3> QED BY <3>1, <3>2 DEF Claimed, Owns
  <2>7. HoldersOwn'
    BY <2>5, <2>6 DEF HoldersOwn, Claimed
  <2>8. TokensDistinct'
    <3>1. \A q \in Runtimes \ {r} : wk'[q].pc \in Holding => wk'[q].token # issued + 1
      BY <2>2, <2>4 DEF HoldersOwn
    <3> QED BY <2>2, <3>1 DEF TokensDistinct
  <2>9. ScansExpired'
    BY <2>1 DEF ScansExpired
  <2> QED BY <2>7, <2>8, <2>9
<1> QED BY <1>1, <1>2

\* A step that leaves the workers' memory alone keeps the invariant when it takes no
\* live claim and no scan remembers a lease still running.
LEMMA ClaimFrame ==
    ASSUME TypeOK, ClaimInvariant, TypeOK', ScansExpired', now <= now', issued' = issued,
           \A q \in Runtimes :
              wk'[q].pc \in Holding =>
                /\ wk[q].pc \in Holding
                /\ wk'[q].job = wk[q].job /\ wk'[q].token = wk[q].token
                /\ wk'[q].lease = wk[q].lease,
           \A j \in Jobs :
              row[j].status = "running" /\ ~(row[j].lease <= now)
                => /\ row'[j].status = "running"
                   /\ row'[j].token = row[j].token
                   /\ row'[j].lease = row[j].lease
    PROVE  ClaimInvariant'
<1>1. ASSUME NEW q \in Runtimes, wk'[q].pc \in Holding
      PROVE  Claimed(q)'
  <2>1. wk[q].pc \in Holding /\ wk[q].job \in Jobs
    BY <1>1 DEF TypeOK, Holding
  <2>2. issued <= issued'
    BY DEF TypeOK
  <2> QED BY <1>1, <2>1, <2>2, HolderKept DEF Owns, ClaimInvariant
<1>2. HoldersOwn'
  BY <1>1 DEF HoldersOwn, Claimed
<1>3. TokensDistinct'
  BY DEF TokensDistinct, ClaimInvariant
<1> QED BY <1>2, <1>3 DEF ClaimInvariant

LEMMA ClaimByCancel ==
    ASSUME TypeOK, ClaimInvariant, TypeOK', CancelStep
    PROVE  ClaimInvariant'
<1>1. now' = now /\ issued' = issued /\ scan' = scan /\ now \in Nat
  BY DEF CancelStep, CancelRead, CancelWaiting, CancelRunning, CancelAbort, TypeOK
<1>2. ScansExpired' /\ now <= now'
  BY <1>1 DEF ScansExpired, ClaimInvariant
<1>3. \A q \in Runtimes :
        /\ wk'[q].pc = wk[q].pc /\ wk'[q].job = wk[q].job
        /\ wk'[q].token = wk[q].token /\ wk'[q].lease = wk[q].lease
  <2>1. CASE CancelAbort
    BY <2>1 DEF CancelAbort, TypeOK, Workers
  <2> QED BY <2>1 DEF CancelStep, CancelRead, CancelWaiting, CancelRunning
<1>4. ASSUME NEW j \in Jobs, row[j].status = "running"
      PROVE  /\ row'[j].status = "running"
             /\ row'[j].token = row[j].token /\ row'[j].lease = row[j].lease
  <2>1. CASE CancelWaiting
    BY <1>4, <2>1 DEF CancelWaiting, TypeOK
  <2>2. CASE CancelRunning
    BY <1>4, <2>2 DEF CancelRunning, TypeOK, Rows
  <2> QED BY <1>4, <2>1, <2>2 DEF CancelStep, CancelRead, CancelAbort
<1> QED BY <1>1, <1>2, <1>3, <1>4, ClaimFrame

LEMMA ClaimByRuntime ==
    ASSUME TypeOK, ClaimInvariant, TypeOK', NEW r \in Runtimes, RuntimeStep(r)
    PROVE  ClaimInvariant'
<1>1. now' = now /\ issued' = issued /\ now \in Nat
  BY DEF RuntimeStep, ScanLeases, RecoverRow, Open, Activate, Stop, Close, Crash, TypeOK
<1>2. ScansExpired'
  <2>1. CASE ScanLeases(r)
    BY <1>1, <2>1 DEF ScanLeases, Due, Read, ScansExpired, ClaimInvariant, TypeOK
  <2>2. CASE RecoverRow(r)
    BY <1>1, <2>2 DEF RecoverRow, ScansExpired, ClaimInvariant, TypeOK
  <2>3. CASE Crash(r)
    BY <1>1, <2>3 DEF Crash, ScansExpired, ClaimInvariant, TypeOK
  <2>4. CASE scan' = scan
    BY <1>1, <2>4 DEF ScansExpired, ClaimInvariant
  <2> QED BY <2>1, <2>2, <2>3, <2>4 DEF RuntimeStep, Open, Activate, Stop, Close
<1>3. \A q \in Runtimes :
        wk'[q].pc \in Holding =>
          /\ wk[q].pc \in Holding
          /\ wk'[q].job = wk[q].job /\ wk'[q].token = wk[q].token
          /\ wk'[q].lease = wk[q].lease
  <2>1. CASE wk' = wk
    BY <2>1
  <2>2. CASE Stop(r)
    BY <2>2 DEF Stop, TypeOK, Workers
  <2>3. CASE Crash(r)
    BY <2>3, IdleIsWorker DEF Crash, TypeOK, Holding
  <2> QED BY <2>1, <2>2, <2>3 DEF RuntimeStep, ScanLeases, RecoverRow, Open, Activate, Close
<1>4. ASSUME NEW j \in Jobs, row[j].status = "running", ~(row[j].lease <= now)
      PROVE  row'[j] = row[j]
  <2>1. CASE RecoverRow(r)
    <3>1. PICK s \in scan[r] :
            row' = IF Unchanged(s) THEN [row EXCEPT ![s.job] = Recovered(s)] ELSE row
      BY <2>1 DEF RecoverRow
    <3>2. s.lease <= now
      BY DEF ClaimInvariant, ScansExpired
    <3>3. Unchanged(s) => s.job # j
      BY <1>4, <3>2 DEF Unchanged
    <3> QED BY <3>1, <3>3 DEF TypeOK
  <2>2. CASE Open(r)
    BY <1>4, <2>2 DEF Open
  <2> QED BY <2>1, <2>2 DEF RuntimeStep, ScanLeases, Activate, Stop, Close, Crash
<1>5. now <= now'
  BY <1>1
<1> QED BY <1>1, <1>2, <1>3, <1>4, <1>5, ClaimFrame

LEMMA ClaimStep == TypeOK /\ ClaimInvariant /\ [Next]_vars => ClaimInvariant'
<1> SUFFICES ASSUME TypeOK, ClaimInvariant, [Next]_vars PROVE ClaimInvariant'
  OBVIOUS
<1>0. TypeOK'
  BY TypeStep
<1>1. CASE Tick
  <2>1. ScansExpired' /\ now <= now'
    BY <1>1 DEF Tick, ScansExpired, ClaimInvariant, TypeOK, Reads
  <2> QED BY <1>0, <1>1, <2>1, ClaimFrame DEF Tick
<1>2. ASSUME NEW j \in Jobs, NEW at \in Availabilities, Enqueue(j, at)
      PROVE  ClaimInvariant'
  <2>1. ScansExpired' /\ now <= now'
    BY <1>2 DEF Enqueue, ScansExpired, ClaimInvariant, TypeOK
  <2>2. \A k \in Jobs : row[k].status = "running" => row'[k] = row[k]
    BY <1>2 DEF Enqueue, TypeOK
  <2> QED BY <1>0, <1>2, <2>1, <2>2, ClaimFrame DEF Enqueue
<1>3. CASE UNCHANGED vars
  BY <1>3 DEF vars, ClaimInvariant, HoldersOwn, TokensDistinct, ScansExpired, Owns
<1> QED
  BY <1>0, <1>1, <1>2, <1>3, ClaimByWorker, ClaimByCancel, ClaimByRuntime DEF Next

\* The inductive invariant behind the theorem that follows.
THEOREM ClaimsHeld == Spec => []ClaimInvariant
<1>1. Init => ClaimInvariant
  BY ClaimInit
<1>2. TypeOK /\ ClaimInvariant /\ [Next]_vars => ClaimInvariant'
  BY ClaimStep
<1> QED BY <1>1, <1>2, TypeCorrect, PTL DEF Spec

\* No shutdown, recovery, cancellation or completion takes the row of a running
\* handler from it before its lease has run out, in any number of runtimes.
THEOREM OwnershipUntilExpiry == Spec => []OwnedUntilExpiry
<1>1. ClaimInvariant => OwnedUntilExpiry
  BY DEF ClaimInvariant, HoldersOwn, OwnedUntilExpiry, InHandler, Holding
<1> QED BY <1>1, ClaimsHeld, PTL

-----------------------------------------------------------------------------
(* What a step may do to a row: the moves of its life cycle.               *)

\* Nobody reads a row in the very instant it is retried: retries wait, or there is one
\* runtime.  The run job_queue_same_instant shows what happens otherwise.
NoSameInstant ==
    \/ \A j \in Jobs : RetryDelay[j] > 0
    \/ \A r, q \in Runtimes : r = q

RowSound(j) ==
    /\ row[j].token <= issued /\ row[j].attempts <= MaxAttempts[j]
    /\ row[j].status = "absent" => row[j] = Absent
    /\ row[j].status \in {"queued", "delayed"} => row[j].attempts < MaxAttempts[j]
    /\ row[j].status = "running" =>
         /\ row[j].attempts > 0 /\ row[j].availableAt <= now
         /\ row[j].lease = NoLease => j \in Legacy
         /\ row[j].lease # NoLease => row[j].availableAt < row[j].lease

\* The row a worker is about to claim is the one it read, is in another worker's hands
\* or settled, or is available later than the one it read.
ReadIsCurrent(r, x) ==
    /\ wk[r].availableAt <= x.availableAt
    /\ wk[r].availableAt = x.availableAt =>
         \/ x.status = "queued" /\ x.attempts = wk[r].attempts /\ x.hist = wk[r].hist
         \/ x.status = "running" /\ x.attempts = wk[r].attempts + 1 /\ x.hist = wk[r].hist
         \/ x.status \in Terminal

ReaderSound(r) ==
    /\ wk[r].wnow <= now
    /\ wk[r].pc \notin {"failQueued", "failDelayed"}
    /\ wk[r].pc \notin Holding => wk[r].outcome = "none"
    /\ wk[r].pc = "claim" =>
         /\ wk[r].availableAt <= wk[r].wnow
         /\ wk[r].attempts < MaxAttempts[wk[r].job]
         /\ row[wk[r].job].status # "absent"
         /\ ReadIsCurrent(r, row[wk[r].job])

\* What the holder of a claim remembers is still in the row.
HolderSound(r) ==
    wk[r].pc \in Holding /\ Owns(r) =>
        /\ row[wk[r].job].attempts = wk[r].attempts + 1
        /\ row[wk[r].job].hist = wk[r].hist
        /\ wk[r].outcome = "cancelled" => row[wk[r].job].cancel

\* So is what a scan remembers of a row that it finds unchanged.
ScanSound(s) ==
    /\ s.token <= issued /\ s.lease <= s.at
    /\ Unchanged(s) => s.attempts = row[s.job].attempts /\ s.hist = row[s.job].hist

Bookkeeping ==
    /\ TypeOK /\ ClaimInvariant
    /\ \A j \in Jobs : RowSound(j)
    /\ \A r \in Runtimes : ReaderSound(r) /\ HolderSound(r)
    /\ \A r \in Runtimes : \A s \in scan[r] : ScanSound(s)

Keeps(j) ==
    /\ row'[j].attempts = row[j].attempts /\ row'[j].hist = row[j].hist
    /\ row'[j].availableAt = row[j].availableAt /\ row'[j].cancel = row[j].cancel

Unclaimed(j) == row'[j].token = NoToken

Submits(j) ==
    /\ row[j].status = "absent" /\ row'[j].status \in {"queued", "delayed"}
    /\ row'[j].attempts = 0 /\ row'[j].hist = 0 /\ row'[j].cancel = FALSE
    /\ Unclaimed(j)

Readies(j) ==
    /\ row[j].status = "delayed" /\ row'[j].status = "queued"
    /\ Keeps(j) /\ row'[j].token = row[j].token

Claims(j) ==
    /\ row[j].status = "queued" /\ row'[j].status = "running"
    /\ row[j].attempts < MaxAttempts[j] /\ row'[j].attempts = row[j].attempts + 1
    /\ row'[j].hist = row[j].hist /\ row'[j].cancel = row[j].cancel
    /\ row'[j].availableAt = row[j].availableAt /\ row[j].availableAt <= now
    /\ row'[j].lease > row[j].availableAt
    /\ issued' = issued + 1 /\ row'[j].token = issued'

Marks(j) ==
    /\ row[j].status = "running" /\ row' = [row EXCEPT ![j].cancel = TRUE]
    /\ issued' = issued

Abandons(j) ==
    /\ row[j].status \in {"queued", "delayed"} /\ row'[j].status = "cancelled"
    /\ Keeps(j) /\ Unclaimed(j)

\* The attempt is used up; a row that is retried is available later, unless there is
\* no other reader.
Ends(j) ==
    /\ row[j].status = "running"
    /\ row'[j].attempts = row[j].attempts /\ row'[j].cancel = row[j].cancel
    /\ row'[j].hist = row[j].hist + 1 \/ row[j].lease = NoLease
    /\ \/ row'[j].status \in {"succeeded", "failed"} /\ row'[j].availableAt = row[j].availableAt
       \/ /\ row'[j].status = "cancelled" /\ row'[j].availableAt = row[j].availableAt
          /\ row[j].cancel
       \/ /\ row'[j].status = "delayed" /\ row[j].attempts < MaxAttempts[j]
          /\ row'[j].availableAt >= row[j].availableAt
          /\ row'[j].availableAt = row[j].availableAt =>
               \A q \in Runtimes : wk'[q].pc # "claim"
    /\ Unclaimed(j)

\* The attempt is given back.
GivesBack(j) ==
    /\ row[j].status = "running"
    /\ row'[j].attempts = row[j].attempts - 1 /\ row'[j].hist = row[j].hist
    /\ row'[j].cancel = row[j].cancel
    /\ \/ /\ row'[j].status = IF row[j].cancel THEN "cancelled" ELSE "queued"
          /\ row'[j].availableAt = row[j].availableAt
       \/ /\ row'[j].status = "delayed" /\ ~row[j].cancel
          /\ row'[j].availableAt > row[j].availableAt
    /\ Unclaimed(j)

Moves(j) ==
    \/ row'[j] = row[j]
    \/ Submits(j) \/ Readies(j) \/ Claims(j) \/ Marks(j) \/ Abandons(j) \/ Ends(j) \/ GivesBack(j)

LEMMA ReleasedFields ==
    ASSUME NEW j \in Jobs, row \in [Jobs -> Rows], NEW s \in Statuses
    PROVE  /\ Released(j, s).status = s
           /\ Released(j, s).token = NoToken /\ Released(j, s).lease = NoLease
           /\ Released(j, s).attempts = row[j].attempts /\ Released(j, s).hist = row[j].hist
           /\ Released(j, s).availableAt = row[j].availableAt
           /\ Released(j, s).cancel = row[j].cancel
BY DEF Released, Rows

LEMMA SettleMoves ==
    ASSUME Bookkeeping, NoSameInstant, NEW r \in Runtimes, Settle(r), NEW j \in Jobs
    PROVE  Moves(j)
<1>1. /\ TypeOK /\ wk[r].pc = "settle" /\ wk[r].job \in Jobs /\ wk[r] \in Workers
      /\ now \in Nat /\ RowSound(j) /\ row[j] \in Rows
  BY RetryAssumption DEF Settle, Bookkeeping, TypeOK
<1>2. CASE ~(Owns(r) /\ wk[r].job = j)
  BY <1>1, <1>2 DEF Settle, Moves, TypeOK
<1>3. CASE Owns(r) /\ wk[r].job = j
  <2> DEFINE x == Released(j, SettledStatus(r))
  <2>1. SettledStatus(r) \in Statuses
    BY DEF SettledStatus, Statuses
  <2>2. /\ x \in Rows /\ x.status = SettledStatus(r) /\ x.token = NoToken
        /\ x.attempts = row[j].attempts /\ x.availableAt = row[j].availableAt
        /\ x.cancel = row[j].cancel
    BY <1>1, <2>1, ReleasedIsRow, ReleasedFields DEF TypeOK
  <2>3. row'[j] = Settled(r)
    BY <1>1, <1>3 DEF Settle, TypeOK
  <2>4. Settled(r) = [x EXCEPT !.hist = wk[r].hist + 1,
                               !.availableAt = IF SettledStatus(r) = "delayed"
                                               THEN now + RetryDelay[j] ELSE @]
    BY <1>3 DEF Settled
  <2> HIDE DEF x
  <2>5. /\ row'[j].status = SettledStatus(r) /\ row'[j].token = NoToken
        /\ row'[j].attempts = row[j].attempts /\ row'[j].cancel = row[j].cancel
        /\ row'[j].hist = wk[r].hist + 1
        /\ row'[j].availableAt = IF SettledStatus(r) = "delayed" THEN now + RetryDelay[j]
                                 ELSE row[j].availableAt
    BY <2>2, <2>3, <2>4 DEF Rows
  <2>6. /\ row[j].status = "running" /\ row[j].attempts = wk[r].attempts + 1
        /\ row[j].hist = wk[r].hist /\ (wk[r].outcome = "cancelled" => row[j].cancel)
    BY <1>1, <1>3 DEF Bookkeeping, HolderSound, Holding, Owns
  <2>7. CASE SettledStatus(r) = "delayed"
    <3>1. row[j].attempts < MaxAttempts[j]
      BY <1>3, <2>6, <2>7 DEF SettledStatus, RetryEligible
    <3>2. RetryDelay[j] \in Nat /\ row[j].availableAt <= now /\ row[j].availableAt \in Nat
      BY <1>1, <2>6, RetryAssumption DEF RowSound, Rows
    <3>3. row'[j].availableAt = now + RetryDelay[j]
      BY <2>5, <2>7
    <3>4. CASE RetryDelay[j] > 0
      <4>1. row'[j].availableAt >= row[j].availableAt /\ row'[j].availableAt # row[j].availableAt
        BY <1>1, <3>2, <3>3, <3>4
      <4> QED BY <2>5, <2>6, <2>7, <3>1, <4>1 DEF Ends, Moves, Unclaimed
    <3>5. CASE \A p, q \in Runtimes : p = q
      <4>1. \A q \in Runtimes : wk'[q].pc # "claim"
        BY <1>1, <3>5, IdleIsWorker DEF Settle, Goto, TypeOK
      <4>2. row'[j].availableAt >= row[j].availableAt
        BY <1>1, <3>2, <3>3
      <4> QED BY <2>5, <2>6, <2>7, <3>1, <4>1, <4>2 DEF Ends, Moves, Unclaimed
    <3> QED BY <3>4, <3>5 DEF NoSameInstant
  <2>8. CASE SettledStatus(r) # "delayed"
    <3>1. \/ SettledStatus(r) \in {"succeeded", "failed"}
          \/ SettledStatus(r) = "cancelled" /\ wk[r].outcome = "cancelled"
      BY <2>8 DEF SettledStatus
    <3> QED BY <2>5, <2>6, <2>8, <3>1 DEF Ends, Moves, Unclaimed
  <2> QED BY <2>7, <2>8
<1> QED BY <1>2, <1>3

\* Relinquishing and fence contention give the attempt back.
LEMMA GiveBackMoves ==
    ASSUME Bookkeeping, NEW r \in Runtimes, Relinquish(r) \/ DeferContention(r), NEW j \in Jobs
    PROVE  Moves(j)
<1>1. /\ TypeOK /\ wk[r].job \in Jobs /\ now \in Nat /\ RowSound(j) /\ row[j] \in Rows
      /\ row \in [Jobs -> Rows]
  BY DEF Relinquish, DeferContention, Bookkeeping, TypeOK
<1>2. CASE ~(Owns(r) /\ wk[r].job = j)
  BY <1>1, <1>2 DEF Relinquish, DeferContention, Moves
<1>3. CASE Owns(r) /\ wk[r].job = j
  <2>1. /\ row[j].status = "running" /\ row[j].attempts \in Nat /\ row[j].attempts > 0
        /\ row[j].availableAt \in Nat /\ row[j].availableAt <= now
    BY <1>1, <1>3, RetryAssumption DEF Owns, RowSound, Rows
  <2>2. CASE Relinquish(r)
    <3> DEFINE s == IF row[j].cancel THEN "cancelled" ELSE "queued"
               x == Released(j, s)
    <3>1. x \in Rows /\ x.attempts = row[j].attempts
      BY <1>1, ReleasedIsRow, ReleasedFields DEF Statuses
    <3>2. row'[j] = [x EXCEPT !.attempts = IF @ > 0 THEN @ - 1 ELSE 0]
      BY <1>1, <1>3, <2>2 DEF Relinquish
    <3>3. row'[j] = [x EXCEPT !.attempts = row[j].attempts - 1]
      BY <2>1, <3>1, <3>2 DEF Rows
    <3>4. /\ x.status = s /\ x.token = NoToken /\ x.hist = row[j].hist
          /\ x.availableAt = row[j].availableAt /\ x.cancel = row[j].cancel
      BY <1>1, ReleasedFields DEF Statuses
    <3> HIDE DEF x
    <3>5. /\ row'[j].status = s /\ row'[j].token = NoToken /\ row'[j].hist = row[j].hist
          /\ row'[j].availableAt = row[j].availableAt /\ row'[j].cancel = row[j].cancel
          /\ row'[j].attempts = row[j].attempts - 1
      BY <3>1, <3>3, <3>4 DEF Rows
    <3> QED BY <2>1, <3>5 DEF GivesBack, Moves, Unclaimed
  <2>3. CASE DeferContention(r) /\ row' # row
    <3> DEFINE x == Released(j, "delayed")
               at == now + ContentionDelay
    <3>1. x \in Rows /\ x.attempts = row[j].attempts
      BY <1>1, ReleasedIsRow, ReleasedFields DEF Statuses
    <3>2. /\ row'[j] = [x EXCEPT !.availableAt = at, !.attempts = IF @ > 0 THEN @ - 1 ELSE 0]
          /\ ~row[j].cancel
      BY <1>1, <1>3, <2>3 DEF DeferContention
    <3>3. row'[j] = [x EXCEPT !.availableAt = at, !.attempts = row[j].attempts - 1]
      BY <2>1, <3>1, <3>2 DEF Rows
    <3>4. x.status = "delayed" /\ x.token = NoToken /\ x.hist = row[j].hist /\ x.cancel = row[j].cancel
      BY <1>1, ReleasedFields DEF Statuses
    <3>5. at > row[j].availableAt
      BY <1>1, <2>1, RetryAssumption
    <3> HIDE DEF x, at
    <3>6. /\ row'[j].status = "delayed" /\ row'[j].token = NoToken /\ row'[j].hist = row[j].hist
          /\ row'[j].availableAt = at /\ row'[j].cancel = row[j].cancel
          /\ row'[j].attempts = row[j].attempts - 1
      BY <3>1, <3>3, <3>4 DEF Rows
    <3> QED BY <2>1, <3>2, <3>5, <3>6 DEF GivesBack, Moves, Unclaimed
  <2> QED BY <2>2, <2>3 DEF Moves
<1> QED BY <1>2, <1>3

\* Lease recovery ends the attempt of a row that it finds as it was read.
LEMMA RecoverMoves ==
    ASSUME Bookkeeping, NEW r \in Runtimes, RecoverRow(r), NEW j \in Jobs
    PROVE  Moves(j)
<1>1. TypeOK /\ RowSound(j) /\ row[j] \in Rows /\ row \in [Jobs -> Rows]
  BY DEF Bookkeeping, TypeOK
<1>2. PICK s \in scan[r] :
        row' = IF Unchanged(s) THEN [row EXCEPT ![s.job] = Recovered(s)] ELSE row
  BY DEF RecoverRow
<1>3. s \in Reads /\ ScanSound(s)
  BY <1>1 DEF Bookkeeping, TypeOK
<1>4. CASE ~(Unchanged(s) /\ s.job = j)
  BY <1>1, <1>2, <1>4 DEF Moves
<1>5. CASE Unchanged(s) /\ s.job = j
  <2>1. /\ row[j].status = "running" /\ row'[j] = Recovered(s)
        /\ s.lease = row[j].lease /\ s.attempts = row[j].attempts /\ s.hist = row[j].hist
    BY <1>1, <1>2, <1>3, <1>5 DEF Unchanged, ScanSound
  <2>2. \A t \in {"failed", "delayed"} :
          /\ Released(j, t) \in Rows
          /\ Released(j, t).status = t /\ Released(j, t).token = NoToken
          /\ Released(j, t).attempts = row[j].attempts /\ Released(j, t).hist = row[j].hist
          /\ Released(j, t).availableAt = row[j].availableAt
          /\ Released(j, t).cancel = row[j].cancel
    BY <1>1, ReleasedIsRow, ReleasedFields DEF Statuses
  <2>3. CASE s.lease = NoLease
    BY <1>5, <2>1, <2>2, <2>3 DEF Recovered, Moves, Ends, Unclaimed
  <2>4. CASE s.lease # NoLease /\ ~(s.attempts < MaxAttempts[j])
    <3> DEFINE x == Released(j, "failed")
    <3>1. row'[j] = [x EXCEPT !.hist = s.hist + 1]
      BY <1>5, <2>1, <2>4 DEF Recovered
    <3>2. /\ x \in Rows /\ x.status = "failed" /\ x.token = NoToken
          /\ x.attempts = row[j].attempts /\ x.availableAt = row[j].availableAt
          /\ x.cancel = row[j].cancel
      BY <2>2
    <3> HIDE DEF x
    <3>3. /\ row'[j].status = "failed" /\ row'[j].token = NoToken
          /\ row'[j].attempts = row[j].attempts /\ row'[j].availableAt = row[j].availableAt
          /\ row'[j].cancel = row[j].cancel /\ row'[j].hist = s.hist + 1
      BY <3>1, <3>2 DEF Rows
    <3> QED BY <2>1, <3>3 DEF Moves, Ends, Unclaimed
  <2>5. CASE s.lease # NoLease /\ s.attempts < MaxAttempts[j]
    <3> DEFINE x == Released(j, "delayed")
               at == s.at + RetryDelay[j]
    <3>1. row'[j] = [x EXCEPT !.availableAt = at, !.hist = s.hist + 1]
      BY <1>5, <2>1, <2>5 DEF Recovered
    <3>2. /\ x \in Rows /\ x.status = "delayed" /\ x.token = NoToken
          /\ x.attempts = row[j].attempts /\ x.cancel = row[j].cancel
      BY <2>2
    <3>3. at >= row[j].availableAt /\ at # row[j].availableAt
      BY <1>1, <1>3, <2>1, <2>5, RetryAssumption DEF RowSound, ScanSound, Reads, Rows
    <3> HIDE DEF x, at
    <3>4. /\ row'[j].status = "delayed" /\ row'[j].token = NoToken
          /\ row'[j].attempts = row[j].attempts /\ row'[j].availableAt = at
          /\ row'[j].cancel = row[j].cancel /\ row'[j].hist = s.hist + 1
      BY <3>1, <3>2 DEF Rows
    <3> QED BY <2>1, <2>5, <3>3, <3>4 DEF Moves, Ends, Unclaimed
  <2> QED BY <2>3, <2>4, <2>5
<1> QED BY <1>4, <1>5

LEMMA ClaimMoves ==
    ASSUME Bookkeeping, NEW r \in Runtimes, Claim(r), NEW j \in Jobs
    PROVE  Moves(j)
<1>1. /\ TypeOK /\ wk[r].job \in Jobs /\ wk[r] \in Workers /\ now \in Nat
      /\ row \in [Jobs -> Rows] /\ ReaderSound(r) /\ wk[r].pc = "claim"
  BY DEF Claim, Bookkeeping, TypeOK
<1>2. CASE wk[r].job # j
  BY <1>1, <1>2 DEF Claim, Moves
<1>3. CASE wk[r].job = j
  <2> DEFINE lease == wk[r].wnow + LeaseTicks
  <2>1. /\ row[j].status = "queued" /\ row[j].availableAt = wk[r].availableAt
        /\ row' = [row EXCEPT ![j].status = "running", ![j].attempts = row[j].attempts + 1,
                              ![j].lease = lease, ![j].token = issued + 1]
        /\ issued' = issued + 1
    BY <1>3 DEF Claim, Claimable
  <2>2. /\ row[j].attempts < MaxAttempts[j] /\ row[j].availableAt <= now
        /\ lease > row[j].availableAt
    BY <1>1, <1>3, <2>1, ClockAssumption DEF ReaderSound, ReadIsCurrent, Terminal, Workers
  <2> HIDE DEF lease
  <2>3. /\ row'[j].status = "running" /\ row'[j].attempts = row[j].attempts + 1
        /\ row'[j].lease = lease /\ row'[j].token = issued + 1
        /\ row'[j].hist = row[j].hist /\ row'[j].cancel = row[j].cancel
        /\ row'[j].availableAt = row[j].availableAt
    BY <1>1, <2>1 DEF Rows
  <2> QED BY <2>1, <2>2, <2>3 DEF Claims, Moves
<1> QED BY <1>2, <1>3

\* No other step than a claim issues a token, and time does not go back.
LEMMA IssuedGrows ==
    ASSUME TypeOK, [Next]_vars
    PROVE  /\ issued \in Nat /\ issued' \in Nat /\ issued <= issued'
           /\ now \in Nat /\ now' \in Nat /\ now <= now'
<1>1. issued \in Nat /\ now \in Nat
  BY DEF TypeOK
<1>2. /\ issued' = issued \/ issued' = issued + 1
      /\ now' = now \/ now' = now + 1
  <2>1. ASSUME NEW r \in Runtimes, WorkerStep(r)
        PROVE  now' = now /\ (issued' = issued \/ issued' = issued + 1)
    BY <2>1 DEF WorkerStep, Promote, Select, NextDelayed, FailInvalid, Claim, ClaimLost, Register,
         Recheck, Start, HandlerEnds, ReadCancellation, DeferContention, Settle, Relinquish,
         WorkerThrows
  <2>2. ASSUME NEW r \in Runtimes, RuntimeStep(r)
        PROVE  now' = now /\ issued' = issued
    BY <2>2 DEF RuntimeStep, ScanLeases, RecoverRow, Open, Activate, Stop, Close, Crash
  <2>3. CancelStep => now' = now /\ issued' = issued
    BY DEF CancelStep, CancelRead, CancelWaiting, CancelRunning, CancelAbort
  <2> QED BY <2>1, <2>2, <2>3 DEF Next, vars, Tick, Enqueue
<1> QED BY <1>1, <1>2

\* The heart of what follows: whatever step is taken, every row makes one of its moves.
LEMMA RowsMove ==
    ASSUME Bookkeeping, NoSameInstant, [Next]_vars, NEW j \in Jobs
    PROVE  Moves(j)
<1>1. /\ TypeOK /\ row \in [Jobs -> Rows] /\ row[j] \in Rows /\ RowSound(j)
      /\ now \in Nat
  BY DEF Bookkeeping, TypeOK
<1>2. CASE row' = row
  BY <1>2 DEF Moves
<1>3. ASSUME NEW k \in Jobs, NEW at \in Availabilities, Enqueue(k, at)
      PROVE  Moves(j)
  <2> DEFINE x == [Absent EXCEPT !.status = IF at > now THEN "delayed" ELSE "queued",
                                 !.availableAt = at]
  <2>1. /\ x.status \in {"queued", "delayed"} /\ x.attempts = 0 /\ x.hist = 0
        /\ x.cancel = FALSE /\ x.token = NoToken
    BY DEF Absent
  <2>2. row' = [row EXCEPT ![k] = x] /\ row[k].status = "absent"
    BY <1>3 DEF Enqueue
  <2> HIDE DEF x
  <2> QED BY <1>1, <2>1, <2>2 DEF Moves, Submits, Unclaimed
<1>4. ASSUME NEW r \in Runtimes, WorkerStep(r)
      PROVE  Moves(j)
  <2>1. CASE Promote(r)
    <3>1. \/ row'[j] = row[j]
          \/ row[j].status = "delayed" /\ row'[j] = [row[j] EXCEPT !.status = "queued"]
      BY <2>1 DEF Promote
    <3> QED BY <1>1, <3>1 DEF Moves, Readies, Keeps, Rows
  <2>2. CASE FailInvalid(r)
    BY <2>2 DEF FailInvalid, Bookkeeping, ReaderSound
  <2>3. CASE Claim(r)
    BY <2>3, ClaimMoves
  <2>4. CASE Settle(r)
    BY <2>4, SettleMoves
  <2>5. CASE Relinquish(r) \/ DeferContention(r)
    BY <2>5, GiveBackMoves
  <2>6. CASE Select(r) \/ NextDelayed(r) \/ ClaimLost(r) \/ Register(r) \/ Recheck(r) \/ Start(r)
             \/ HandlerEnds(r) \/ ReadCancellation(r) \/ WorkerThrows(r)
    BY <1>2, <2>6 DEF Select, NextDelayed, ClaimLost, Register, Recheck, Start, HandlerEnds,
                      ReadCancellation, WorkerThrows
  <2> QED BY <1>4, <2>1, <2>2, <2>3, <2>4, <2>5, <2>6 DEF WorkerStep
<1>5. CASE CancelStep
  <2>1. CASE CancelWaiting
    <3> DEFINE k == canceller.job
               x == Released(k, "cancelled")
    <3>1. k \in Jobs
      BY <1>1, <2>1 DEF CancelWaiting, TypeOK
    <3>2. \/ row' = row
          \/ row[k].status \in {"queued", "delayed"} /\ row' = [row EXCEPT ![k] = x]
      BY <2>1 DEF CancelWaiting
    <3>3. /\ x.status = "cancelled" /\ x.token = NoToken /\ x.hist = row[k].hist
          /\ x.availableAt = row[k].availableAt /\ x.cancel = row[k].cancel
          /\ x.attempts = row[k].attempts
      BY <1>1, <3>1, ReleasedFields DEF Statuses
    <3> HIDE DEF x, k
    <3> QED BY <1>1, <3>1, <3>2, <3>3 DEF Moves, Abandons, Keeps, Unclaimed
  <2>2. CASE CancelRunning
    <3>1. \/ row' = row
          \/ /\ row[canceller.job].status = "running" /\ issued' = issued
             /\ row' = [row EXCEPT ![canceller.job].cancel = TRUE]
      BY <2>2 DEF CancelRunning
    <3> QED BY <1>1, <3>1 DEF Moves, Marks
  <2> QED BY <1>2, <1>5, <2>1, <2>2 DEF CancelStep, CancelRead, CancelAbort
<1>6. ASSUME NEW r \in Runtimes, RuntimeStep(r)
      PROVE  Moves(j)
  <2>1. CASE RecoverRow(r)
    BY <2>1, RecoverMoves
  <2>2. CASE Open(r)
    <3>1. row[j].status \in {"queued", "delayed"} => ~Invalid(j)
      BY <1>1, RetryAssumption DEF RowSound, Invalid, Rows
    <3> QED BY <2>2, <3>1 DEF Open, Moves
  <2> QED BY <1>2, <1>6, <2>1, <2>2 DEF RuntimeStep, ScanLeases, Activate, Stop, Close, Crash
<1> QED BY <1>2, <1>3, <1>4, <1>5, <1>6 DEF Next, Tick, vars

-----------------------------------------------------------------------------
(* The bookkeeping of rows, readers, holders and scans is inductive.       *)

LEMMA RowSoundKept ==
    ASSUME Bookkeeping, NoSameInstant, [Next]_vars, TypeOK', NEW j \in Jobs
    PROVE  RowSound(j)'
<1>1. Moves(j) /\ RowSound(j) /\ row[j] \in Rows /\ row'[j] \in Rows /\ row \in [Jobs -> Rows]
  BY RowsMove DEF Bookkeeping, TypeOK
<1>2. issued \in Nat /\ issued' \in Nat /\ issued <= issued' /\ now \in Nat /\ now' \in Nat
      /\ now <= now'
  BY IssuedGrows DEF Bookkeeping
<1>3. /\ row[j].token \in Nat /\ row[j].attempts \in Nat /\ row[j].availableAt \in Nat
      /\ row[j].lease \in Nat /\ row'[j].lease \in Nat /\ MaxAttempts[j] \in Nat \ {0}
  BY <1>1, RetryAssumption, ClockAssumption DEF Rows
<1>4. CASE row'[j] = row[j]
  BY <1>1, <1>2, <1>3, <1>4 DEF RowSound
<1>5. CASE Submits(j)
  BY <1>2, <1>3, <1>5 DEF Submits, RowSound, Unclaimed, NoToken
<1>6. CASE Readies(j)
  BY <1>1, <1>2, <1>3, <1>6 DEF Readies, Keeps, RowSound
<1>7. CASE Claims(j)
  BY <1>1, <1>2, <1>3, <1>7 DEF Claims, RowSound, NoLease
<1>8. CASE Marks(j)
  <2>1. /\ row'[j].status = "running" /\ row'[j].token = row[j].token
        /\ row'[j].attempts = row[j].attempts /\ row'[j].availableAt = row[j].availableAt
        /\ row'[j].lease = row[j].lease /\ row[j].status = "running"
    BY <1>1, <1>8 DEF Marks, Rows
  <2> QED BY <1>1, <1>2, <1>3, <2>1 DEF RowSound
<1>9. CASE Abandons(j)
  BY <1>1, <1>2, <1>3, <1>9 DEF Abandons, Keeps, Unclaimed, NoToken, RowSound
<1>10. CASE Ends(j)
  BY <1>1, <1>2, <1>3, <1>10 DEF Ends, Unclaimed, NoToken, RowSound
<1>11. CASE GivesBack(j)
  BY <1>1, <1>2, <1>3, <1>11 DEF GivesBack, Unclaimed, NoToken, RowSound
<1> QED BY <1>1, <1>4, <1>5, <1>6, <1>7, <1>8, <1>9, <1>10, <1>11 DEF Moves

\* What was read of a row stays current through all its moves.
LEMMA ReadStaysCurrent ==
    ASSUME Bookkeeping, NoSameInstant, [Next]_vars, TypeOK',
           NEW r \in Runtimes, NEW j \in Jobs, wk[r].pc = "claim", wk'[r].pc = "claim",
           wk[r].job = j, wk'[r].availableAt = wk[r].availableAt,
           wk'[r].attempts = wk[r].attempts, wk'[r].hist = wk[r].hist
    PROVE  row'[j].status # "absent" /\ ReadIsCurrent(r, row[j])'
<1>1. /\ Moves(j) /\ RowSound(j) /\ row[j] \in Rows /\ row'[j] \in Rows /\ row \in [Jobs -> Rows]
      /\ ReadIsCurrent(r, row[j]) /\ row[j].status # "absent" /\ wk[r] \in Workers
  BY RowsMove DEF Bookkeeping, ReaderSound, TypeOK
<1>2. /\ row[j].availableAt \in Nat /\ row'[j].availableAt \in Nat /\ wk[r].availableAt \in Nat
      /\ wk[r].attempts \in Nat /\ row[j].attempts \in Nat
  BY <1>1 DEF Rows, Workers
<1>3. SUFFICES /\ row'[j].status # "absent"
               /\ wk[r].availableAt <= row'[j].availableAt
               /\ wk[r].availableAt = row'[j].availableAt =>
                    \/ /\ row'[j].status = "queued" /\ row'[j].attempts = wk[r].attempts
                       /\ row'[j].hist = wk[r].hist
                    \/ /\ row'[j].status = "running" /\ row'[j].attempts = wk[r].attempts + 1
                       /\ row'[j].hist = wk[r].hist
                    \/ row'[j].status \in Terminal
  BY DEF ReadIsCurrent
<1>4. CASE row'[j] = row[j] \/ Readies(j) \/ Claims(j) \/ Abandons(j)
  BY <1>1, <1>2, <1>4 DEF ReadIsCurrent, Readies, Claims, Abandons, Keeps, Terminal
<1>5. CASE Marks(j)
  <2>1. /\ row'[j].status = row[j].status /\ row'[j].hist = row[j].hist
        /\ row'[j].attempts = row[j].attempts /\ row'[j].availableAt = row[j].availableAt
    BY <1>1, <1>5 DEF Marks, Rows
  <2> QED BY <1>1, <1>2, <2>1 DEF ReadIsCurrent
<1>6. CASE Ends(j)
  <2>1. row'[j].status = "delayed" => row'[j].availableAt # row[j].availableAt
    BY <1>6 DEF Ends
  <2> QED BY <1>1, <1>2, <1>6, <2>1 DEF ReadIsCurrent, Ends, Terminal
<1>7. CASE GivesBack(j)
  BY <1>1, <1>2, <1>7 DEF ReadIsCurrent, GivesBack, Terminal
<1> QED BY <1>1, <1>4, <1>5, <1>6, <1>7 DEF Moves, Submits

-----------------------------------------------------------------------------
(* What a step may do to the memory of a worker.                           *)

Remembers(r) ==
    /\ wk'[r].pc = wk[r].pc /\ wk'[r].job = wk[r].job /\ wk'[r].wnow = wk[r].wnow
    /\ wk'[r].availableAt = wk[r].availableAt /\ wk'[r].attempts = wk[r].attempts
    /\ wk'[r].hist = wk[r].hist /\ wk'[r].token = wk[r].token /\ wk'[r].lease = wk[r].lease
    /\ wk'[r].outcome = wk[r].outcome

LooksRound(r) ==
    /\ wk'[r].pc \in {"idle", "select", "nextDelayed"}
    /\ wk'[r].wnow <= now /\ wk'[r].outcome = "none"

Fetches(r) ==
    /\ wk'[r].pc = "claim" /\ wk'[r].wnow = wk[r].wnow /\ wk[r].wnow <= now
    /\ wk'[r].outcome = "none" /\ row' = row
    /\ \E j \in Jobs :
         /\ row[j].status = "queued" /\ row[j].availableAt <= wk[r].wnow
         /\ wk'[r].job = j /\ wk'[r].availableAt = row[j].availableAt
         /\ wk'[r].attempts = row[j].attempts /\ wk'[r].hist = row[j].hist

HoldsOn(r) ==
    /\ wk[r].pc \in Holding /\ wk'[r].pc \in Holding /\ row' = row
    /\ wk'[r].job = wk[r].job /\ wk'[r].wnow = wk[r].wnow
    /\ wk'[r].attempts = wk[r].attempts /\ wk'[r].hist = wk[r].hist
    /\ wk'[r].token = wk[r].token
    /\ wk'[r].outcome = "cancelled" =>
         \/ wk[r].outcome = "cancelled"
         \/ Owns(r) /\ row[wk[r].job].cancel

LEMMA WorkerMoves ==
    ASSUME Bookkeeping, NEW r \in Runtimes, WorkerStep(r)
    PROVE  LooksRound(r) \/ Fetches(r) \/ Claim(r) \/ HoldsOn(r)
<1>0. /\ TypeOK /\ wk \in [Runtimes -> Workers] /\ wk[r] \in Workers /\ ReaderSound(r)
      /\ now \in Nat /\ wk[r].wnow \in Nat /\ row \in [Jobs -> Rows]
  BY DEF Bookkeeping, TypeOK, Workers
<1>1. ASSUME NEW w, Goto(r, w)
      PROVE  wk'[r] = w
  BY <1>0, <1>1 DEF Goto
<1>2. ASSUME Goto(r, Idle)
      PROVE  LooksRound(r)
  BY <1>0, <1>1, <1>2 DEF LooksRound, Idle
<1>3. CASE Promote(r)
  <2>1. wk'[r] = [Idle EXCEPT !.pc = "select", !.wnow = now]
    BY <1>1, <1>3 DEF Promote
  <2>2. wk'[r].pc = "select" /\ wk'[r].wnow = now /\ wk'[r].outcome = "none"
    BY <2>1 DEF Idle
  <2> QED BY <1>0, <2>2 DEF LooksRound
<1>4. CASE Select(r)
  <2>1. CASE Goto(r, [wk[r] EXCEPT !.pc = "nextDelayed"]) /\ wk[r].pc = "select"
    <3>1. wk'[r].pc = "nextDelayed" /\ wk'[r].wnow = wk[r].wnow /\ wk'[r].outcome = wk[r].outcome
      BY <1>0, <1>1, <2>1 DEF Workers
    <3> QED BY <1>0, <2>1, <3>1 DEF ReaderSound, LooksRound, Holding
  <2>2. ASSUME NEW j \in Earliest(Runnable(r)),
               Goto(r, Snapshot(r, j, IF Invalid(j) THEN "failQueued" ELSE "claim"))
        PROVE  Fetches(r)
    <3>1. j \in Jobs /\ row[j].status = "queued" /\ row[j].availableAt <= wk[r].wnow
      BY <2>2 DEF Earliest, Runnable
    <3>2. ~Invalid(j)
      BY <1>0, <3>1, RetryAssumption DEF Bookkeeping, RowSound, Invalid, Rows
    <3>3. wk'[r] = Snapshot(r, j, "claim")
      BY <1>1, <2>2, <3>2
    <3>4. /\ wk'[r].pc = "claim" /\ wk'[r].wnow = wk[r].wnow /\ wk'[r].job = j
          /\ wk'[r].outcome = wk[r].outcome /\ wk'[r].availableAt = row[j].availableAt
          /\ wk'[r].attempts = row[j].attempts /\ wk'[r].hist = row[j].hist
      BY <1>0, <3>3 DEF Snapshot, Workers
    <3> QED BY <1>0, <1>4, <3>1, <3>4 DEF Select, Fetches, ReaderSound, Holding
  <2> QED BY <1>2, <1>4, <2>1, <2>2 DEF Select
<1>5. CASE NextDelayed(r)
  <2>1. \A j \in Earliest(Delayed) : ~Invalid(j)
    <3>1. \A j \in Earliest(Delayed) : j \in Jobs /\ row[j].status = "delayed"
      BY DEF Earliest, Delayed
    <3> QED BY <1>0, <3>1, RetryAssumption DEF Bookkeeping, RowSound, Invalid, Rows
  <2> QED BY <1>2, <1>5, <2>1 DEF NextDelayed
<1>6. CASE FailInvalid(r)
  BY <1>0, <1>6 DEF FailInvalid, ReaderSound
<1>7. CASE ClaimLost(r) \/ Settle(r) \/ Relinquish(r)
  BY <1>2, <1>7 DEF ClaimLost, Settle, Relinquish
<1>8. ASSUME NEW pc \in Holding, NEW o \in Outcomes, NEW b \in BOOLEAN,
             wk[r].pc \in Holding, row' = row,
             o = "cancelled" => Owns(r) /\ row[wk[r].job].cancel,
             \/ Goto(r, [wk[r] EXCEPT !.pc = pc])
             \/ Goto(r, [wk[r] EXCEPT !.outcome = o])
             \/ Goto(r, [wk[r] EXCEPT !.pc = pc, !.outcome = o])
             \/ Goto(r, [wk[r] EXCEPT !.pc = pc, !.aborted = b])
      PROVE  HoldsOn(r)
  <2>1. \/ wk'[r] = [wk[r] EXCEPT !.pc = pc]
        \/ wk'[r] = [wk[r] EXCEPT !.outcome = o]
        \/ wk'[r] = [wk[r] EXCEPT !.pc = pc, !.outcome = o]
        \/ wk'[r] = [wk[r] EXCEPT !.pc = pc, !.aborted = b]
    BY <1>1, <1>8
  <2>2. /\ wk'[r].pc \in Holding
        /\ wk'[r].job = wk[r].job /\ wk'[r].wnow = wk[r].wnow
        /\ wk'[r].attempts = wk[r].attempts /\ wk'[r].hist = wk[r].hist
        /\ wk'[r].token = wk[r].token
        /\ wk'[r].outcome \in {wk[r].outcome, o}
    <3>1. CASE wk'[r] = [wk[r] EXCEPT !.pc = pc]
      BY <1>0, <1>8, <3>1 DEF Workers
    <3>2. CASE wk'[r] = [wk[r] EXCEPT !.outcome = o]
      BY <1>0, <1>8, <3>2 DEF Workers
    <3>3. CASE wk'[r] = [wk[r] EXCEPT !.pc = pc, !.outcome = o]
      BY <1>0, <1>8, <3>3 DEF Workers
    <3>4. CASE wk'[r] = [wk[r] EXCEPT !.pc = pc, !.aborted = b]
      BY <1>0, <1>8, <3>4 DEF Workers
    <3> QED BY <2>1, <3>1, <3>2, <3>3, <3>4
  <2> QED BY <1>8, <2>2 DEF HoldsOn
<1>9. CASE Register(r)
  BY <1>8, <1>9 DEF Register, Holding, Outcomes
<1>10. CASE Recheck(r)
  <2>1. wk[r].job \in Jobs /\ (wk[r].aborted \/ row[wk[r].job].cancel) \in BOOLEAN
    BY <1>0, <1>10 DEF Recheck, TypeOK, Workers, Rows
  <2> DEFINE b == wk[r].aborted \/ row[wk[r].job].cancel
  <2>2. Goto(r, Idle) \/ Goto(r, [wk[r] EXCEPT !.pc = "start", !.aborted = b])
    BY <1>10 DEF Recheck
  <2>3. row' = row /\ wk[r].pc = "recheck"
    BY <1>10 DEF Recheck
  <2> HIDE DEF b
  <2>4. ASSUME Goto(r, [wk[r] EXCEPT !.pc = "start", !.aborted = b])
        PROVE  HoldsOn(r)
    <3>1. wk'[r] = [wk[r] EXCEPT !.pc = "start", !.aborted = b]
      BY <1>1, <2>4
    <3>2. /\ wk'[r].pc = "start" /\ wk'[r].job = wk[r].job /\ wk'[r].wnow = wk[r].wnow
          /\ wk'[r].attempts = wk[r].attempts /\ wk'[r].hist = wk[r].hist
          /\ wk'[r].token = wk[r].token /\ wk'[r].outcome = wk[r].outcome
      BY <1>0, <3>1 DEF Workers
    <3> QED BY <2>3, <3>2 DEF HoldsOn, Holding
  <2> QED BY <1>2, <2>2, <2>4
<1>11. CASE Start(r)
  BY <1>8, <1>11 DEF Start, Holding, Outcomes
<1>12. CASE HandlerEnds(r)
  BY <1>8, <1>12 DEF HandlerEnds, Holding, Outcomes
<1>13. CASE ReadCancellation(r)
  <2> DEFINE o == IF Owns(r) /\ row[wk[r].job].cancel THEN "cancelled" ELSE "error"
  <2>1. /\ o \in Outcomes /\ (o = "cancelled" => Owns(r) /\ row[wk[r].job].cancel)
        /\ Goto(r, [wk[r] EXCEPT !.pc = "settle", !.outcome = o])
        /\ row' = row /\ wk[r].pc = "readCancel"
    BY <1>13 DEF ReadCancellation, Outcomes
  <2> HIDE DEF o
  <2> QED BY <1>8, <2>1 DEF Holding
<1>14. CASE DeferContention(r)
  BY <1>2, <1>8, <1>14 DEF DeferContention, Holding, Outcomes
<1>15. CASE WorkerThrows(r)
  BY <1>2, <1>8, <1>15 DEF WorkerThrows, Holding, Outcomes
<1> QED BY <1>3, <1>4, <1>5, <1>6, <1>7, <1>9, <1>10, <1>11, <1>12, <1>13, <1>14, <1>15
        DEF WorkerStep

LEMMA MemoryMoves ==
    ASSUME Bookkeeping, [Next]_vars, NEW r \in Runtimes
    PROVE  Remembers(r) \/ LooksRound(r) \/ Fetches(r) \/ Claim(r) \/ HoldsOn(r)
<1>1. TypeOK /\ wk \in [Runtimes -> Workers] /\ wk[r] \in Workers /\ now \in Nat
  BY DEF Bookkeeping, TypeOK
<1>2. CASE wk'[r] = wk[r]
  BY <1>2 DEF Remembers
<1>3. CASE WorkerStep(r)
  BY <1>3, WorkerMoves
<1>4. ASSUME NEW q \in Runtimes, q # r, WorkerStep(q)
      PROVE  wk'[r] = wk[r]
  <2>1. \A w : Goto(q, w) => wk'[r] = wk[r]
    BY <1>1, <1>4 DEF Goto
  <2> QED BY <1>4, <2>1
          DEF WorkerStep, Promote, Select, NextDelayed, FailInvalid, Claim, ClaimLost, Register,
              Recheck, Start, HandlerEnds, ReadCancellation, DeferContention, Settle,
              Relinquish, WorkerThrows
<1>5. CASE wk'[r] = [wk[r] EXCEPT !.aborted = TRUE]
  BY <1>1, <1>5 DEF Remembers, Workers
<1>6. CASE wk'[r] = Idle
  BY <1>1, <1>6 DEF LooksRound, Idle
<1>7. CASE CancelStep
  BY <1>1, <1>2, <1>5, <1>7 DEF CancelStep, CancelRead, CancelWaiting, CancelRunning, CancelAbort
<1>8. ASSUME NEW q \in Runtimes, RuntimeStep(q)
      PROVE  wk'[r] = wk[r] \/ wk'[r] = [wk[r] EXCEPT !.aborted = TRUE] \/ wk'[r] = Idle
  BY <1>1, <1>8 DEF RuntimeStep, ScanLeases, RecoverRow, Open, Activate, Stop, Close, Crash
<1> QED BY <1>2, <1>3, <1>4, <1>5, <1>6, <1>7, <1>8 DEF Next, Tick, Enqueue, vars

LEMMA ReaderSoundKept ==
    ASSUME Bookkeeping, NoSameInstant, [Next]_vars, TypeOK', NEW r \in Runtimes
    PROVE  ReaderSound(r)'
<1>1. /\ ReaderSound(r) /\ wk[r] \in Workers /\ wk'[r] \in Workers
      /\ \A j \in Jobs : RowSound(j) /\ row[j] \in Rows
      /\ wk[r].pc = "claim" => wk[r].job \in Jobs
  BY DEF Bookkeeping, TypeOK
<1>2. now \in Nat /\ now' \in Nat /\ now <= now' /\ wk[r].wnow \in Nat /\ wk'[r].wnow \in Nat
  BY <1>1, IssuedGrows DEF Bookkeeping, Workers
<1>3. CASE Remembers(r)
  <2>1. ASSUME wk[r].pc = "claim"
        PROVE  row'[wk[r].job].status # "absent" /\ ReadIsCurrent(r, row[wk[r].job])'
    <3>1. PICK j \in Jobs : j = wk[r].job
      BY <1>1, <2>1
    <3>2. row'[j].status # "absent" /\ ReadIsCurrent(r, row[j])'
      BY <1>3, <2>1, <3>1, ReadStaysCurrent DEF Remembers
    <3> QED BY <1>3, <3>1, <3>2 DEF Remembers, ReadIsCurrent
  <2> QED BY <1>1, <1>2, <1>3, <2>1 DEF Remembers, ReaderSound, ReadIsCurrent
<1>4. CASE LooksRound(r)
  BY <1>2, <1>4 DEF LooksRound, ReaderSound
<1>5. CASE Fetches(r)
  <2>1. PICK j \in Jobs :
          /\ row[j].status = "queued" /\ row[j].availableAt <= wk[r].wnow
          /\ wk'[r].job = j /\ wk'[r].availableAt = row[j].availableAt
          /\ wk'[r].attempts = row[j].attempts /\ wk'[r].hist = row[j].hist
    BY <1>5 DEF Fetches
  <2>2. row[j].attempts < MaxAttempts[j] /\ row[j].availableAt \in Nat
    BY <1>1, <2>1 DEF RowSound, Rows
  <2> QED BY <1>2, <1>5, <2>1, <2>2 DEF Fetches, ReaderSound, ReadIsCurrent
<1>6. CASE Claim(r)
  <2>1. wk'[r].pc = "claimed" /\ wk'[r].wnow = 0
    <3> DEFINE lease == wk[r].wnow + LeaseTicks
               n == issued + 1
    <3>1. wk' = [wk EXCEPT ![r] = [wk[r] EXCEPT !.pc = "claimed", !.token = n, !.lease = lease,
                                                 !.wnow = 0, !.availableAt = 0]]
      BY <1>6 DEF Claim, Goto
    <3> HIDE DEF lease, n
    <3> QED BY <1>1, <3>1 DEF Bookkeeping, TypeOK, Workers
  <2> QED BY <1>2, <2>1 DEF ReaderSound, Holding
<1>7. CASE HoldsOn(r)
  BY <1>1, <1>2, <1>7 DEF HoldsOn, ReaderSound, Holding
<1> QED BY <1>3, <1>4, <1>5, <1>6, <1>7, MemoryMoves

LEMMA HolderSoundKept ==
    ASSUME Bookkeeping, NoSameInstant, [Next]_vars, TypeOK', NEW r \in Runtimes
    PROVE  HolderSound(r)'
<1>1. /\ HolderSound(r) /\ ReaderSound(r) /\ wk[r] \in Workers /\ row \in [Jobs -> Rows]
      /\ wk \in [Runtimes -> Workers]
      /\ wk[r].pc \in Holding \cup {"claim"} => wk[r].job \in Jobs
      /\ wk[r].pc \in Holding => wk[r].token \in 1..issued
      /\ issued \in Nat
  BY DEF Bookkeeping, TypeOK, Holding, ClaimInvariant, HoldersOwn
<1>2. CASE Remembers(r)
  <2> SUFFICES ASSUME wk[r].pc \in Holding, Owns(r)'
               PROVE  /\ Owns(r)
                      /\ row'[wk[r].job].attempts = row[wk[r].job].attempts
                      /\ row'[wk[r].job].hist = row[wk[r].job].hist
                      /\ row[wk[r].job].cancel => row'[wk[r].job].cancel
    BY <1>1, <1>2 DEF HolderSound, Remembers
  <2>1. PICK j \in Jobs : j = wk[r].job
    BY <1>1
  <2>2. row'[j].status = "running" /\ row'[j].token = wk[r].token
    BY <1>2, <2>1 DEF Remembers, Owns
  <2>3. row'[j].token # NoToken /\ row'[j].token # issued + 1
    BY <1>1, <2>2 DEF NoToken
  <2>4. row'[j] = row[j] \/ Marks(j)
    BY <2>2, <2>3, RowsMove
    DEF Moves, Submits, Readies, Claims, Abandons, Ends, GivesBack, Unclaimed
  <2>5. /\ row'[j].status = row[j].status /\ row'[j].token = row[j].token
        /\ row'[j].attempts = row[j].attempts /\ row'[j].hist = row[j].hist
        /\ row[j].cancel => row'[j].cancel
    BY <1>1, <2>4 DEF Marks, Rows
  <2> QED BY <2>1, <2>2, <2>5 DEF Owns
<1>3. CASE LooksRound(r) \/ Fetches(r)
  BY <1>3 DEF LooksRound, Fetches, HolderSound, Holding
<1>4. CASE Claim(r)
  <2> DEFINE lease == wk[r].wnow + LeaseTicks
             n == issued + 1
  <2>1. /\ wk' = [wk EXCEPT ![r] = [wk[r] EXCEPT !.pc = "claimed", !.token = n, !.lease = lease,
                                                 !.wnow = 0, !.availableAt = 0]]
        /\ row' = [row EXCEPT ![wk[r].job].status = "running",
                              ![wk[r].job].attempts = row[wk[r].job].attempts + 1,
                              ![wk[r].job].lease = lease, ![wk[r].job].token = n]
        /\ wk[r].pc = "claim" /\ Claimable(r)
    BY <1>4 DEF Claim, Goto
  <2> HIDE DEF lease, n
  <2>2. /\ wk'[r].job = wk[r].job /\ wk'[r].attempts = wk[r].attempts /\ wk'[r].hist = wk[r].hist
        /\ wk'[r].outcome = wk[r].outcome
    BY <1>1, <2>1 DEF Workers
  <2>3. PICK j \in Jobs : j = wk[r].job
    BY <1>1, <2>1
  <2>4. row'[j].attempts = row[j].attempts + 1 /\ row'[j].hist = row[j].hist
    BY <1>1, <2>1, <2>3 DEF Rows
  <2>5. row[j].attempts = wk[r].attempts /\ row[j].hist = wk[r].hist /\ wk[r].outcome = "none"
    BY <1>1, <2>1, <2>3 DEF Claimable, ReaderSound, ReadIsCurrent, Holding, Terminal
  <2> QED BY <2>2, <2>3, <2>4, <2>5 DEF HolderSound
<1>5. CASE HoldsOn(r)
  BY <1>1, <1>5 DEF HoldsOn, HolderSound, Owns
<1> QED BY <1>2, <1>3, <1>4, <1>5, MemoryMoves

LEMMA ScanSoundKept ==
    ASSUME Bookkeeping, NoSameInstant, [Next]_vars, TypeOK', NEW r \in Runtimes,
           NEW s \in scan'[r]
    PROVE  ScanSound(s)'
<1>1. /\ TypeOK /\ row \in [Jobs -> Rows] /\ issued \in Nat /\ issued' \in Nat
      /\ issued <= issued' /\ s \in Reads
  BY IssuedGrows DEF Bookkeeping, TypeOK
<1>2. CASE s \in scan[r]
  <2>1. ScanSound(s) /\ s.job \in Jobs /\ s.token \in Nat
    BY <1>1, <1>2, ClockAssumption DEF Bookkeeping, Reads
  <2>2. PICK j \in Jobs : j = s.job
    BY <2>1
  <2>3. s.token <= issued'
    BY <1>1, <2>1 DEF ScanSound
  <2>4. ASSUME Unchanged(s)'
        PROVE  s.attempts = row'[j].attempts /\ s.hist = row'[j].hist
    <3>1. row'[j].status = "running" /\ row'[j].lease = s.lease /\ row'[j].token = s.token
      BY <2>2, <2>4 DEF Unchanged
    <3>2. ~Claims(j)
      BY <1>1, <2>1, <3>1 DEF Claims, ScanSound
    <3>3. row'[j] = row[j] \/ Marks(j)
      BY <3>1, <3>2, RowsMove DEF Moves, Submits, Readies, Abandons, Ends, GivesBack
    <3>4. /\ row'[j].status = row[j].status /\ row'[j].token = row[j].token
          /\ row'[j].lease = row[j].lease
          /\ row'[j].attempts = row[j].attempts /\ row'[j].hist = row[j].hist
      BY <1>1, <3>3 DEF Marks, Rows
    <3> QED BY <2>1, <2>2, <3>1, <3>4 DEF ScanSound, Unchanged
  <2> QED BY <2>1, <2>2, <2>3, <2>4 DEF ScanSound
<1>3. CASE s \notin scan[r]
  <2>1. PICK j \in Due : s = Read(j) /\ row' = row /\ issued' = issued
    <3>1. ASSUME NEW q \in Runtimes, ScanLeases(q)
          PROVE  \E j \in Due : s = Read(j) /\ row' = row /\ issued' = issued
      BY <1>1, <1>3, <3>1 DEF ScanLeases, TypeOK
    <3>2. ASSUME NEW q \in Runtimes, RecoverRow(q) \/ Crash(q)
          PROVE  FALSE
      BY <1>1, <1>3, <3>2 DEF RecoverRow, Crash, TypeOK
    <3>3. scan' # scan
      BY <1>3
    <3>4. ASSUME NEW q \in Runtimes, WorkerStep(q)
          PROVE  scan' = scan
      BY <3>4 DEF WorkerStep, Promote, Select, NextDelayed, FailInvalid, Claim, ClaimLost,
          Register, Recheck, Start, HandlerEnds, ReadCancellation, DeferContention, Settle,
          Relinquish, WorkerThrows
    <3>5. ASSUME NEW q \in Runtimes, Open(q) \/ Activate(q) \/ Stop(q) \/ Close(q)
          PROVE  scan' = scan
      BY <3>5 DEF Open, Activate, Stop, Close
    <3>6. CancelStep => scan' = scan
      BY DEF CancelStep, CancelRead, CancelWaiting, CancelRunning, CancelAbort
    <3> QED
      BY <3>1, <3>2, <3>3, <3>4, <3>5, <3>6 DEF Next, vars, Tick, Enqueue, RuntimeStep
  <2>2. j \in Jobs /\ row[j].lease <= now /\ row[j].token <= issued
    BY DEF Due, Bookkeeping, RowSound
  <2>3. /\ s.job = j /\ s.at = now /\ s.lease = row[j].lease /\ s.token = row[j].token
        /\ s.attempts = row[j].attempts /\ s.hist = row[j].hist
    BY <2>1 DEF Read
  <2> QED BY <2>1, <2>2, <2>3 DEF ScanSound
<1> QED BY <1>2, <1>3

\* A row at the start: absent, or running since before claims existed.
LEMMA InitialRow ==
    ASSUME Init, NEW j \in Jobs
    PROVE  \/ /\ row[j] = Absent
              /\ row[j].status = "absent" /\ row[j].attempts = 0 /\ row[j].hist = 0
              /\ row[j].token = 0 /\ row[j].cancel = FALSE
           \/ /\ row[j].status = "running" /\ row[j].attempts = 1 /\ row[j].lease \in {0, 1}
              /\ row[j].token = 0 /\ row[j].availableAt = 0 /\ row[j].cancel = FALSE
              /\ j \in Legacy
<1>1. row[j] = Absent \/ \E l \in {NoLease, 1} :
        row[j] = [Absent EXCEPT !.status = "running", !.attempts = 1, !.lease = l]
  BY DEF Init
<1>2. row[j].status = "running" => j \in Legacy
  BY DEF Init
<1>3. CASE row[j] = Absent
  BY <1>3 DEF Absent, NoToken
<1>4. ASSUME NEW l \in {NoLease, 1},
             row[j] = [Absent EXCEPT !.status = "running", !.attempts = 1, !.lease = l]
      PROVE  /\ row[j].status = "running" /\ row[j].attempts = 1 /\ row[j].lease \in {0, 1}
             /\ row[j].token = 0 /\ row[j].availableAt = 0 /\ row[j].cancel = FALSE
  BY <1>4 DEF Absent, NoToken, NoLease
<1> QED BY <1>1, <1>2, <1>3, <1>4

LEMMA BookkeepingInit == Init => Bookkeeping
<1> SUFFICES ASSUME Init PROVE Bookkeeping
  OBVIOUS
<1>1. TypeOK /\ ClaimInvariant
  BY TypeInit, ClaimInit
<1>2. ASSUME NEW j \in Jobs
      PROVE  RowSound(j)
  <2>1. MaxAttempts[j] \in Nat \ {0} /\ now = 0 /\ issued = 0
    BY RetryAssumption DEF Init
  <2>2. CASE row[j] = Absent
    BY <2>1, <2>2 DEF RowSound, Absent, NoToken
  <2>3. CASE row[j].status = "running"
    <3>1. /\ row[j].attempts = 1 /\ row[j].lease \in {0, 1} /\ row[j].token = 0
          /\ row[j].availableAt = 0 /\ j \in Legacy
      BY <2>3, InitialRow
    <3> QED BY <2>1, <2>3, <3>1 DEF RowSound, NoLease
  <2> QED BY <2>2, <2>3, InitialRow
<1>3. \A r \in Runtimes : ReaderSound(r) /\ HolderSound(r)
  BY DEF Init, Idle, ReaderSound, HolderSound, Holding
<1> QED BY <1>1, <1>2, <1>3 DEF Bookkeeping, Init

LEMMA BookkeepingStep == Bookkeeping /\ NoSameInstant /\ [Next]_vars => Bookkeeping'
<1> SUFFICES ASSUME Bookkeeping, NoSameInstant, [Next]_vars PROVE Bookkeeping'
  OBVIOUS
<1>1. TypeOK' /\ ClaimInvariant'
  BY TypeStep, ClaimStep DEF Bookkeeping
<1>2. \A j \in Jobs : RowSound(j)'
  BY <1>1, RowSoundKept
<1>3. \A r \in Runtimes : ReaderSound(r)' /\ HolderSound(r)'
  BY <1>1, ReaderSoundKept, HolderSoundKept
<1>4. \A r \in Runtimes : \A s \in scan'[r] : ScanSound(s)'
  BY <1>1, ScanSoundKept
<1> QED BY <1>1, <1>2, <1>3, <1>4 DEF Bookkeeping

LEMMA BooksAreKept ==
    ASSUME NoSameInstant
    PROVE  Spec => []Bookkeeping
<1>1. Init => Bookkeeping
  BY BookkeepingInit
<1>2. Bookkeeping /\ [Next]_vars => Bookkeeping'
  BY BookkeepingStep
<1> QED BY <1>1, <1>2, PTL DEF Spec

-----------------------------------------------------------------------------
(* The attempt history is complete, and every Job lives the life the       *)
(* abstract specification gives it.                                        *)

LEMMA HistoryInit == Init => HistoryIsComplete
<1> SUFFICES ASSUME Init, NEW j \in Jobs, j \notin Legacy
             PROVE  row[j].hist = row[j].attempts - (IF row[j].status = "running" THEN 1 ELSE 0)
  BY DEF HistoryIsComplete
<1>1. row[j].status = "absent" /\ row[j].attempts = 0 /\ row[j].hist = 0
  BY InitialRow
<1> QED BY <1>1

\* Where no row is retried in the very instant it is read, attemptHistory has exactly one
\* entry for each attempt that was used up: no settlement or recovery appends to an
\* outdated copy of it, however many runtimes hold one.
THEOREM NoHistoryIsLost ==
    ASSUME NoSameInstant
    PROVE  Spec => []HistoryIsComplete
<1>1. Init => HistoryIsComplete
  BY HistoryInit
<1>2. Bookkeeping /\ HistoryIsComplete /\ [Next]_vars => HistoryIsComplete'
  <2> SUFFICES ASSUME Bookkeeping, HistoryIsComplete, [Next]_vars, NEW j \in Jobs, j \notin Legacy
               PROVE  row'[j].hist = row'[j].attempts - (IF row'[j].status = "running" THEN 1 ELSE 0)
    BY DEF HistoryIsComplete
  <2>1. /\ row[j].hist = row[j].attempts - (IF row[j].status = "running" THEN 1 ELSE 0)
        /\ RowSound(j) /\ Moves(j) /\ row[j] \in Rows /\ row \in [Jobs -> Rows]
    BY RowsMove DEF HistoryIsComplete, Bookkeeping, TypeOK
  <2>2. row[j].hist \in Nat /\ row[j].attempts \in Nat
    BY <2>1 DEF Rows
  <2>3. CASE row'[j] = row[j] \/ Submits(j) \/ Readies(j) \/ Claims(j) \/ Abandons(j) \/ GivesBack(j)
    BY <2>1, <2>2, <2>3 DEF Submits, Readies, Claims, Abandons, GivesBack, Keeps
  <2>4. CASE Ends(j)
    <3>1. row'[j].hist = row[j].hist + 1
      BY <2>1, <2>4 DEF Ends, RowSound
    <3> QED BY <2>1, <2>2, <2>4, <3>1 DEF Ends
  <2>5. CASE Marks(j)
    <3>1. /\ row'[j].status = row[j].status /\ row'[j].hist = row[j].hist
          /\ row'[j].attempts = row[j].attempts
      BY <2>1, <2>5 DEF Marks, Rows
    <3> QED BY <2>1, <3>1
  <2> QED BY <2>1, <2>3, <2>4, <2>5 DEF Moves
<1> QED BY <1>1, <1>2, BooksAreKept, PTL DEF Spec

\* Nor does a row use more attempts than its policy allows: the disagreement that the run
\* job_queue_same_instant shows needs a retry in the very instant it is read.
THEOREM PolicyIsKept ==
    ASSUME NoSameInstant
    PROVE  Spec => []AttemptsWithinPolicy
<1>1. Bookkeeping => AttemptsWithinPolicy
  BY DEF Bookkeeping, RowSound, AttemptsWithinPolicy
<1> QED BY <1>1, BooksAreKept, PTL

LEMMA LifecycleInit == Init => Lifecycle!Init
<1> SUFFICES ASSUME Init PROVE Lifecycle!Init
  OBVIOUS
<1>1. \A j \in Jobs : /\ row[j].status \in {"absent", "running"}
                      /\ row[j].attempts = IF row[j].status = "running" THEN 1 ELSE 0
                      /\ row[j].cancel = FALSE
  BY InitialRow
<1> QED BY <1>1 DEF Lifecycle!Init

\* A move of a row is a move of the Job in the abstract specification.
LEMMA RowMovesAreJobMoves ==
    ASSUME Bookkeeping, NEW j \in Jobs, Moves(j)
    PROVE  \/ Lifecycle!Submit(j) \/ Lifecycle!Ready(j) \/ Lifecycle!Attempt(j)
           \/ Lifecycle!Request(j) \/ Lifecycle!Finish(j) \/ Lifecycle!Retry(j)
           \/ Lifecycle!GiveBack(j) \/ Lifecycle!Cancel(j) \/ Lifecycle!Stay(j)
<1> USE DEF Lifecycle!Move
<1>1. /\ RowSound(j) /\ row[j] \in Rows /\ row \in [Jobs -> Rows] /\ row[j].attempts \in Nat
      /\ row[j].cancel \in BOOLEAN
  BY DEF Bookkeeping, TypeOK, Rows
<1>2. CASE row'[j] = row[j]
  BY <1>2 DEF Lifecycle!Stay
<1>3. CASE Submits(j)
  <2>1. /\ row'[j].attempts = row[j].attempts + 0 /\ row'[j].cancel = row[j].cancel
        /\ row[j].status = "absent"
    <3>1. row[j].attempts = 0 /\ row[j].cancel = FALSE
      BY <1>1, <1>3 DEF Submits, RowSound, Absent
    <3>2. row'[j].attempts = row[j].attempts + 0
      BY <1>3, <3>1 DEF Submits
    <3> QED BY <1>3, <3>1, <3>2, Zenon DEF Submits
  <2>2. CASE row'[j].status = "queued"
    BY <2>1, <2>2 DEF Lifecycle!Submit
  <2>3. CASE row'[j].status = "delayed"
    BY <2>1, <2>3 DEF Lifecycle!Submit
  <2> QED BY <1>3, <2>2, <2>3 DEF Submits
<1>4. CASE Readies(j)
  BY <1>1, <1>4 DEF Readies, Keeps, Lifecycle!Ready
<1>5. CASE Claims(j)
  BY <1>5 DEF Claims, Lifecycle!Attempt
<1>6. CASE Marks(j)
  <2>1. /\ row'[j].status = row[j].status /\ row'[j].attempts = row[j].attempts
        /\ row'[j].cancel = TRUE /\ row[j].status = "running"
    BY <1>1, <1>6 DEF Marks, Rows
  <2> QED BY <2>1 DEF Lifecycle!Request
<1>7. CASE Abandons(j)
  BY <1>1, <1>7 DEF Abandons, Keeps, Lifecycle!Cancel
<1>8. CASE Ends(j)
  BY <1>1, <1>8 DEF Ends, Lifecycle!Finish, Lifecycle!Retry, Lifecycle!Cancel
<1>9. CASE GivesBack(j)
  BY <1>1, <1>9 DEF GivesBack, Lifecycle!GiveBack, Lifecycle!Cancel
<1> QED BY <1>2, <1>3, <1>4, <1>5, <1>6, <1>7, <1>8, <1>9 DEF Moves

\* The queue implements the life cycle that the reference documents: whatever statement of
\* whatever runtime, worker, recovery or cancel call is executed, every Job makes one of
\* the moves of JobLifecycle or none.
THEOREM QueueImplementsLifecycle ==
    ASSUME NoSameInstant
    PROVE  Spec => ImplementsLifecycle
<1>1. Init => Lifecycle!Init
  BY LifecycleInit
<1>2. Bookkeeping /\ [Next]_vars => [Lifecycle!Next]_(Lifecycle!lifecycle)
  <2> SUFFICES ASSUME Bookkeeping, [Next]_vars PROVE Lifecycle!Next
    OBVIOUS
  <2>1. \A j \in Jobs : Moves(j)
    BY RowsMove
  <2> QED BY <2>1, RowMovesAreJobMoves DEF Lifecycle!Next
<1> QED BY <1>1, <1>2, BooksAreKept, PTL DEF Spec, ImplementsLifecycle, Lifecycle!Spec

-----------------------------------------------------------------------------
(* Handler starts are paid for.                                            *)

\* Where a claim is held that has not led to a start.
Pending == {"claimed", "recheck", "start", "relinquish"}

Unstarted(j) ==
    {r \in Runtimes : wk[r].job = j /\ wk[r].pc \in Pending}

\* Each start and each claim that may still lead to one has its attempt in the row.
Paid(j) ==
    /\ charged[j] + Cardinality(Unstarted(j)) <= row[j].attempts
    /\ row[j].status = "running" => row[j].attempts > 0
    /\ row[j].status = "absent" => row[j].attempts = 0

\* One runtime more or fewer holds such a claim.
LEMMA OneMore ==
    ASSUME IsFiniteSet(Runtimes), NEW S \in SUBSET Runtimes, NEW r \in Runtimes
    PROVE  /\ IsFiniteSet(S) /\ Cardinality(S) \in Nat
           /\ Cardinality(S \cup {r}) \in Nat /\ Cardinality(S \ {r}) \in Nat
           /\ Cardinality(S \cup {r}) <= Cardinality(S) + 1
           /\ Cardinality(S \ {r}) <= Cardinality(S)
           /\ r \in S => Cardinality(S \ {r}) = Cardinality(S) - 1
<1>1. IsFiniteSet(S)
  BY FS_Subset
<1>2. /\ IsFiniteSet(S \cup {r})
      /\ Cardinality(S \cup {r}) = IF r \in S THEN Cardinality(S) ELSE Cardinality(S) + 1
  BY <1>1, FS_AddElement
<1>3. /\ IsFiniteSet(S \ {r})
      /\ Cardinality(S \ {r}) = IF r \in S THEN Cardinality(S) - 1 ELSE Cardinality(S)
  BY <1>1, FS_RemoveElement
<1>4. /\ Cardinality(S) \in Nat /\ Cardinality(S \cup {r}) \in Nat /\ Cardinality(S \ {r}) \in Nat
  BY <1>1, <1>2, <1>3, FS_CardinalityType
<1> QED BY <1>1, <1>2, <1>3, <1>4

\* A worker leaves a claim unstarted only where it had it.
LEMMA PendingMoves ==
    ASSUME TypeOK, NEW r \in Runtimes, WorkerStep(r), ~Claim(r), wk'[r].pc \in Pending
    PROVE  wk[r].pc \in Pending /\ wk'[r].job = wk[r].job
<1>1. wk \in [Runtimes -> Workers] /\ wk[r] \in Workers /\ Idle.pc = "idle"
  BY DEF TypeOK, Idle
<1>2. wk'[r].pc \in Holding
  BY DEF Pending, Holding
<1>3. wk[r].pc \in Holding /\ wk'[r].job = wk[r].job
  BY <1>2, WorkerMemory
<1>4. CASE wk[r].pc \notin Pending
  <2>1. ASSUME NEW pc \in {"settle", "readCancel", "contention"},
               \/ wk'[r] = [wk[r] EXCEPT !.pc = pc]
               \/ \E o \in Outcomes : wk'[r] = [wk[r] EXCEPT !.pc = pc, !.outcome = o]
               \/ wk'[r] = [wk[r] EXCEPT !.pc = pc, !.aborted = TRUE]
        PROVE  FALSE
    <3>1. wk'[r].pc = pc
      BY <1>1, <2>1 DEF Workers
    <3> QED BY <2>1, <3>1 DEF Pending
  <2>2. wk'[r] # Idle
    BY <1>1 DEF Pending
  <2>3. \A o \in Outcomes : wk'[r] = [wk[r] EXCEPT !.outcome = o] => wk'[r].pc = wk[r].pc
    BY <1>1 DEF Workers
  <2>4. ASSUME NEW w, Goto(r, w) PROVE wk'[r] = w
    BY <1>1, <2>4 DEF Goto
  <2>5. CASE HandlerEnds(r) \/ ReadCancellation(r)
    BY <2>1, <2>4, <2>5 DEF HandlerEnds, ReadCancellation, Outcomes
  <2>6. CASE DeferContention(r)
    BY <2>1, <2>2, <2>4, <2>6 DEF DeferContention, Outcomes
  <2>7. CASE Settle(r)
    BY <2>2, <2>4, <2>7 DEF Settle
  <2>8. CASE WorkerThrows(r)
    BY <1>4, <2>2, <2>3, <2>4, <2>8 DEF WorkerThrows, Pending, Outcomes
  <2>9. wk[r].pc \in {"handler", "readCancel", "contention", "settle"}
    BY <1>3, <1>4 DEF Holding, Pending
  <2> QED
    BY <2>5, <2>6, <2>7, <2>8, <2>9
    DEF WorkerStep, Promote, Select, NextDelayed, FailInvalid, ClaimLost, Register, Recheck, Start,
        Relinquish
<1> QED BY <1>3, <1>4

\* A row that keeps its attempts and starts to run by no other step than a claim.
KeepsAttempts(j) ==
    /\ row'[j].attempts = row[j].attempts
    /\ row'[j].status \in {"running", "absent"} => row'[j].status = row[j].status

\* Enqueueing, lease recovery, cancellation and the life of a runtime take and give no attempt.
LEMMA OthersPay ==
    ASSUME TypeOK, [Next]_vars, \A r \in Runtimes : ~WorkerStep(r), NEW j \in Jobs, Paid(j)
    PROVE  charged' = charged /\ Unstarted(j)' \in SUBSET Unstarted(j) /\ KeepsAttempts(j)
<1>1. /\ wk \in [Runtimes -> Workers] /\ row \in [Jobs -> Rows] /\ row[j] \in Rows
      /\ Idle.pc \notin Pending
  BY DEF TypeOK, Idle, Pending
<1>2. charged' = charged
  BY DEF Next, vars, Tick, Enqueue, RuntimeStep, CancelStep, CancelRead, CancelWaiting, CancelRunning,
         CancelAbort, ScanLeases, RecoverRow, Open, Activate, Stop, Close, Crash
<1>3. Unstarted(j)' \in SUBSET Unstarted(j)
  <2> SUFFICES ASSUME NEW r \in Runtimes, wk'[r].pc \in Pending
               PROVE  wk'[r].pc = wk[r].pc /\ wk'[r].job = wk[r].job
    BY DEF Unstarted
  <2>1. CASE wk'[r] = wk[r]
    BY <2>1
  <2>2. CASE wk'[r] = [wk[r] EXCEPT !.aborted = TRUE]
    BY <1>1, <2>2 DEF Workers
  <2>3. wk'[r] # Idle
    BY <1>1
  <2>4. CASE CancelStep
    BY <1>1, <2>1, <2>2, <2>4 DEF CancelStep, CancelRead, CancelWaiting, CancelRunning, CancelAbort
  <2>5. ASSUME NEW q \in Runtimes, RuntimeStep(q)
        PROVE  wk'[r] = wk[r] \/ wk'[r] = [wk[r] EXCEPT !.aborted = TRUE] \/ wk'[r] = Idle
    BY <1>1, <2>5 DEF RuntimeStep, ScanLeases, RecoverRow, Open, Activate, Stop, Close, Crash
  <2> QED BY <2>1, <2>2, <2>3, <2>4, <2>5 DEF Next, Tick, Enqueue, vars
<1>4. KeepsAttempts(j)
  <2>1. CASE row'[j] = row[j]
    BY <2>1 DEF KeepsAttempts
  <2>2. ASSUME NEW k \in Jobs, NEW at \in Availabilities, Enqueue(k, at)
        PROVE  KeepsAttempts(j)
    <3> DEFINE x == [Absent EXCEPT !.status = IF at > now THEN "delayed" ELSE "queued",
                                   !.availableAt = at]
    <3>1. x.status \in {"delayed", "queued"} /\ x.attempts = 0
      BY DEF Absent
    <3>2. row' = [row EXCEPT ![k] = x] /\ row[k].status = "absent"
      BY <2>2 DEF Enqueue
    <3> HIDE DEF x
    <3>3. k = j => row[j].attempts = 0
      BY <3>2 DEF Paid
    <3> QED BY <1>1, <3>1, <3>2, <3>3 DEF KeepsAttempts
  <2>3. CASE CancelWaiting
    <3>1. canceller.job \in Jobs
      BY <2>3 DEF CancelWaiting, TypeOK
    <3>2. row'[j] = row[j] \/ row'[j] = Released(j, "cancelled")
      BY <1>1, <2>3, <3>1 DEF CancelWaiting
    <3> QED BY <1>1, <3>2, ReleasedFields DEF Statuses, KeepsAttempts
  <2>4. CASE CancelRunning
    <3>1. row' = row \/ row' = [row EXCEPT ![canceller.job].cancel = TRUE]
      BY <2>4 DEF CancelRunning
    <3> QED BY <1>1, <3>1 DEF Rows, KeepsAttempts
  <2>5. ASSUME NEW r \in Runtimes, RecoverRow(r)
        PROVE  KeepsAttempts(j)
    <3>1. PICK s \in scan[r] :
            row' = IF Unchanged(s) THEN [row EXCEPT ![s.job] = Recovered(s)] ELSE row
      BY <2>5 DEF RecoverRow
    <3>2. CASE row'[j] = Recovered(s) /\ s.job = j
      <4>1. \A t \in {"failed", "delayed"} :
              /\ Released(j, t) \in Rows
              /\ Released(j, t).status = t /\ Released(j, t).attempts = row[j].attempts
        BY <1>1, ReleasedIsRow, ReleasedFields DEF Statuses
      <4>2. ASSUME NEW x \in Rows, NEW h, NEW a
            PROVE  /\ [x EXCEPT !.hist = h].status = x.status
                   /\ [x EXCEPT !.hist = h].attempts = x.attempts
                   /\ [x EXCEPT !.availableAt = a, !.hist = h].status = x.status
                   /\ [x EXCEPT !.availableAt = a, !.hist = h].attempts = x.attempts
        BY DEF Rows
      <4>3. Recovered(s).status \in {"failed", "delayed"} /\ Recovered(s).attempts = row[j].attempts
        BY <3>2, <4>1, <4>2 DEF Recovered
      <4> QED BY <3>2, <4>3 DEF KeepsAttempts
    <3> QED BY <1>1, <2>1, <3>1, <3>2
  <2>6. ASSUME NEW r \in Runtimes, Open(r)
        PROVE  KeepsAttempts(j)
    <3>1. \/ row'[j] = row[j]
          \/ row'[j] = [row[j] EXCEPT !.status = "failed"]
      BY <2>6 DEF Open
    <3> QED BY <1>1, <3>1 DEF Rows, KeepsAttempts
  <2> QED
    BY <2>1, <2>2, <2>3, <2>4, <2>5, <2>6
    DEF Next, Tick, vars, CancelStep, CancelRead, CancelAbort, RuntimeStep, ScanLeases, Activate,
        Stop, Close, Crash
<1> QED BY <1>2, <1>3, <1>4

LEMMA PaidKept ==
    ASSUME IsFiniteSet(Runtimes), TypeOK, TypeOK', [Next]_vars, NEW j \in Jobs, Paid(j)
    PROVE  Paid(j)'
<1> DEFINE n == Cardinality(Unstarted(j))
<1>0. /\ wk \in [Runtimes -> Workers] /\ row \in [Jobs -> Rows] /\ row[j] \in Rows
      /\ row[j].attempts \in Nat /\ charged \in [Jobs -> Int] /\ charged[j] \in Int
      /\ row'[j].attempts \in Nat /\ charged'[j] \in Int
      /\ charged[j] + n <= row[j].attempts
  BY DEF TypeOK, Rows, Paid
<1>1. /\ Unstarted(j) \in SUBSET Runtimes /\ Unstarted(j)' \in SUBSET Runtimes
      /\ IsFiniteSet(Unstarted(j)) /\ n \in Nat /\ n' \in Nat
  <2>1. Unstarted(j) \in SUBSET Runtimes /\ Unstarted(j)' \in SUBSET Runtimes
    BY DEF Unstarted
  <2>2. IsFiniteSet(Unstarted(j)) /\ IsFiniteSet(Unstarted(j)')
    BY <2>1, FS_Subset
  <2> QED BY <2>1, <2>2, FS_CardinalityType
<1>2. ASSUME Unstarted(j)' \in SUBSET Unstarted(j)
      PROVE  n' <= n
  BY <1>1, <1>2, FS_Subset
<1>3. CASE /\ charged'[j] = charged[j] /\ Unstarted(j)' \in SUBSET Unstarted(j)
           /\ KeepsAttempts(j)
  BY <1>0, <1>1, <1>2, <1>3 DEF KeepsAttempts, Paid
<1>4. ASSUME NEW r \in Runtimes, WorkerStep(r)
      PROVE  Paid(j)'
  <2>1. \A q \in Runtimes \ {r} : q \in Unstarted(j)' <=> q \in Unstarted(j)
    <3>1. \A w : Goto(r, w) => \A q \in Runtimes \ {r} : wk'[q] = wk[q]
      BY <1>0 DEF Goto
    <3>2. \A q \in Runtimes \ {r} : wk'[q] = wk[q]
      BY <1>4, <3>1
      DEF WorkerStep, Promote, Select, NextDelayed, FailInvalid, Claim, ClaimLost, Register,
          Recheck, Start, HandlerEnds, ReadCancellation, DeferContention, Settle, Relinquish,
          WorkerThrows
    <3> QED BY <3>2 DEF Unstarted
  <2>2. CASE Claim(r)
    <3> DEFINE w == [wk[r] EXCEPT !.pc = "claimed", !.token = issued + 1,
                                  !.lease = wk[r].wnow + LeaseTicks, !.wnow = 0, !.availableAt = 0]
    <3>1. charged' = charged /\ Claimable(r) /\ wk[r].pc = "claim" /\ wk[r].job \in Jobs
      BY <2>2 DEF Claim, TypeOK
    <3>2. CASE wk[r].job = j
      <4>1. row'[j].status = "running" /\ row'[j].attempts = row[j].attempts + 1
        <5> DEFINE lease == wk[r].wnow + LeaseTicks
        <5>1. row' = [row EXCEPT ![j].status = "running", ![j].attempts = row[j].attempts + 1,
                                 ![j].lease = lease, ![j].token = issued + 1]
          BY <2>2, <3>2 DEF Claim
        <5> HIDE DEF lease
        <5> QED BY <1>0, <5>1 DEF Rows
      <4>2. Unstarted(j)' \in SUBSET (Unstarted(j) \cup {r})
        BY <1>1, <2>1
      <4>3. n' <= n + 1
        <5>1. /\ IsFiniteSet(Unstarted(j) \cup {r})
              /\ Cardinality(Unstarted(j) \cup {r}) <= n + 1
              /\ Cardinality(Unstarted(j) \cup {r}) \in Nat
          BY <1>1, OneMore, FS_AddElement
        <5>2. n' <= Cardinality(Unstarted(j) \cup {r})
          BY <4>2, <5>1, FS_Subset
        <5> QED BY <1>1, <5>1, <5>2
      <4> QED BY <1>0, <1>1, <3>1, <4>1, <4>3 DEF Paid
    <3>3. CASE wk[r].job # j
      <4>1. row'[j] = row[j]
        BY <1>0, <2>2, <3>3 DEF Claim
      <4>2. r \notin Unstarted(j)'
        <5>1. wk' = [wk EXCEPT ![r] = w]
          BY <2>2 DEF Claim, Goto
        <5>2. wk'[r].job = wk[r].job
          BY <1>0, <5>1 DEF Workers
        <5> QED BY <3>3, <5>2 DEF Unstarted
      <4> QED BY <1>1, <1>3, <2>1, <3>1, <4>1, <4>2 DEF KeepsAttempts
    <3> QED BY <3>2, <3>3
  <2>3. ASSUME ~Claim(r)
        PROVE  Unstarted(j)' \in SUBSET Unstarted(j)
    <3>1. r \in Unstarted(j)' => r \in Unstarted(j)
      BY <1>4, <2>3, PendingMoves DEF Unstarted
    <3> QED BY <1>1, <2>1, <3>1
  <2>4. CASE Start(r)
    <3>1. row' = row /\ wk[r].pc = "start" /\ wk[r].job \in Jobs
      BY <2>4 DEF Start, TypeOK
    <3>2. CASE wk[r].job = j /\ charged' # charged
      <4>1. charged'[j] = charged[j] + 1 /\ wk' = [wk EXCEPT ![r] = [wk[r] EXCEPT !.pc = "handler"]]
        BY <1>0, <2>4, <3>2 DEF Start, Goto
      <4>2. r \in Unstarted(j) /\ r \notin Unstarted(j)'
        <5>1. wk'[r].pc = "handler"
          BY <1>0, <4>1 DEF Workers
        <5> QED BY <3>1, <3>2, <5>1 DEF Unstarted, Pending
      <4>3. Unstarted(j)' = Unstarted(j) \ {r}
        BY <1>1, <2>1, <4>2
      <4>4. n' = n - 1
        BY <1>1, <4>2, <4>3, OneMore
      <4> QED BY <1>0, <1>1, <3>1, <4>1, <4>4 DEF Paid
    <3>3. CASE ~(wk[r].job = j /\ charged' # charged)
      <4>1. charged'[j] = charged[j]
        BY <1>0, <2>4, <3>1, <3>3 DEF Start
      <4>2. ~Claim(r)
        BY <3>1 DEF Claim
      <4> QED BY <1>3, <2>3, <3>1, <4>1, <4>2 DEF KeepsAttempts
    <3> QED BY <3>2, <3>3
  <2>5. CASE Relinquish(r) \/ DeferContention(r)
    <3>1. /\ wk[r].job \in Jobs /\ ~Claim(r) /\ wk[r].pc \in {"relinquish", "contention"}
      BY <2>5 DEF Relinquish, DeferContention, Claim, TypeOK
    <3>2. CASE wk[r].job = j /\ row' # row
      <4>1. /\ row[j].status = "running" /\ row[j].attempts > 0
            /\ wk' = [wk EXCEPT ![r] = Idle]
        BY <2>5, <3>2 DEF Relinquish, DeferContention, Owns, Goto, Paid
      <4>2. row'[j].attempts = row[j].attempts - 1 /\ row'[j].status \notin {"running", "absent"}
        <5>1. \A t \in {"queued", "delayed", "cancelled"} :
                /\ Released(j, t) \in Rows /\ Released(j, t).status = t
                /\ Released(j, t).attempts = row[j].attempts
          BY <1>0, ReleasedIsRow, ReleasedFields DEF Statuses
        <5>2. \A t \in {"queued", "delayed", "cancelled"} :
                (IF Released(j, t).attempts > 0 THEN Released(j, t).attempts - 1 ELSE 0)
                  = row[j].attempts - 1
          BY <4>1, <5>1
        <5> DEFINE a == row[j].attempts - 1
        <5>3. \E t \in {"queued", "delayed", "cancelled"} :
                \/ row'[j] = [Released(j, t) EXCEPT !.attempts =
                               IF Released(j, t).attempts > 0 THEN Released(j, t).attempts - 1 ELSE 0]
                \/ \E b : row'[j] = [Released(j, t) EXCEPT !.availableAt = b, !.attempts =
                               IF Released(j, t).attempts > 0 THEN Released(j, t).attempts - 1 ELSE 0]
          <6>1. CASE Relinquish(r)
            <7> DEFINE t == IF row[j].cancel THEN "cancelled" ELSE "queued"
            <7>1. row'[j] = [Released(j, t) EXCEPT !.attempts = IF @ > 0 THEN @ - 1 ELSE 0]
              BY <1>0, <3>2, <6>1 DEF Relinquish
            <7> QED BY <5>1, <7>1 DEF Rows
          <6>2. CASE DeferContention(r)
            <7>1. row'[j] = [Released(j, "delayed") EXCEPT
                               !.availableAt = now + ContentionDelay,
                               !.attempts = IF @ > 0 THEN @ - 1 ELSE 0]
              BY <1>0, <3>2, <6>2 DEF DeferContention
            <7> QED BY <5>1, <7>1 DEF Rows
          <6> QED BY <2>5, <6>1, <6>2
        <5>4. \E t \in {"queued", "delayed", "cancelled"} :
                \/ row'[j] = [Released(j, t) EXCEPT !.attempts = a]
                \/ \E b : row'[j] = [Released(j, t) EXCEPT !.availableAt = b, !.attempts = a]
          BY <5>2, <5>3
        <5> HIDE DEF a
        <5>5. row'[j].attempts = a /\ row'[j].status \notin {"running", "absent"}
          <6>1. PICK t \in {"queued", "delayed", "cancelled"} :
                  \/ row'[j] = [Released(j, t) EXCEPT !.attempts = a]
                  \/ \E b : row'[j] = [Released(j, t) EXCEPT !.availableAt = b, !.attempts = a]
            BY <5>4
          <6> DEFINE x == Released(j, t)
          <6>2. x \in Rows /\ x.status = t
            BY <5>1
          <6>3. \/ row'[j] = [x EXCEPT !.attempts = a]
                \/ \E b : row'[j] = [x EXCEPT !.availableAt = b, !.attempts = a]
            BY <6>1
          <6> HIDE DEF x
          <6>4. row'[j].attempts = a /\ row'[j].status = t
            <7>1. CASE row'[j] = [x EXCEPT !.attempts = a]
              BY <6>2, <7>1 DEF Rows
            <7>2. ASSUME NEW b, row'[j] = [x EXCEPT !.availableAt = b, !.attempts = a]
                  PROVE  row'[j].attempts = a /\ row'[j].status = t
              BY <6>2, <7>2 DEF Rows
            <7> QED BY <6>3, <7>1, <7>2
          <6> QED BY <6>4
        <5> QED BY <5>5 DEF a
      <4>3. CASE Relinquish(r)
        <5>1. charged' = charged /\ r \in Unstarted(j) /\ r \notin Unstarted(j)'
          BY <1>0, <3>2, <4>1, <4>3 DEF Relinquish, Unstarted, Pending, Idle
        <5>2. Unstarted(j)' = Unstarted(j) \ {r}
          BY <1>1, <2>1, <5>1
        <5>3. n' = n - 1
          BY <1>1, <5>1, <5>2, OneMore
        <5> QED BY <1>0, <1>1, <4>2, <5>1, <5>3 DEF Paid
      <4>4. CASE DeferContention(r)
        <5>1. charged'[j] = charged[j] - 1
          BY <1>0, <3>2, <4>4 DEF DeferContention
        <5>2. n' <= n
          BY <1>2, <2>3, <3>1
        <5> QED BY <1>0, <1>1, <4>2, <5>1, <5>2 DEF Paid
      <4> QED BY <2>5, <4>3, <4>4
    <3>3. CASE ~(wk[r].job = j /\ row' # row)
      <4>1. row'[j] = row[j] /\ charged'[j] <= charged[j]
        BY <1>0, <2>5, <3>1, <3>3 DEF Relinquish, DeferContention
      <4> QED BY <1>0, <1>1, <1>2, <2>3, <3>1, <4>1 DEF Paid
    <3> QED BY <3>2, <3>3
  <2>6. CASE Settle(r)
    <3>1. charged' = charged /\ ~Claim(r) /\ wk[r].job \in Jobs
      BY <2>6 DEF Settle, Claim, TypeOK
    <3>2. KeepsAttempts(j)
      <4>1. row'[j] = row[j] \/ (wk[r].job = j /\ row'[j] = Settled(r))
        BY <1>0, <2>6, <3>1 DEF Settle
      <4>2. CASE wk[r].job = j /\ row'[j] = Settled(r)
        <5> DEFINE x == Released(j, SettledStatus(r))
                   b == IF SettledStatus(r) = "delayed" THEN now + RetryDelay[j] ELSE x.availableAt
                   h == wk[r].hist + 1
        <5>1. SettledStatus(r) \in Statuses \ {"running", "absent"}
          BY DEF SettledStatus, Statuses
        <5>2. x \in Rows /\ x.status = SettledStatus(r) /\ x.attempts = row[j].attempts
          BY <1>0, <5>1, ReleasedIsRow, ReleasedFields
        <5>3. row'[j] = [x EXCEPT !.hist = h, !.availableAt = b]
          BY <4>2, <5>2 DEF Settled, Rows
        <5> HIDE DEF x, b, h
        <5>4. row'[j].status = SettledStatus(r) /\ row'[j].attempts = row[j].attempts
          BY <5>2, <5>3 DEF Rows
        <5> QED BY <5>1, <5>4 DEF KeepsAttempts
      <4> QED BY <4>1, <4>2 DEF KeepsAttempts
    <3> QED BY <1>3, <2>3, <3>1, <3>2
  <2>7. CASE Promote(r) \/ FailInvalid(r)
    <3>1. charged' = charged /\ ~Claim(r)
      BY <2>7 DEF Promote, FailInvalid, Claim
    <3>2. \/ row'[j] = row[j]
          \/ \E t \in {"queued", "failed"} : row'[j] = [row[j] EXCEPT !.status = t]
      BY <1>0, <2>7 DEF Promote, FailInvalid
    <3>3. KeepsAttempts(j)
      BY <1>0, <3>2 DEF KeepsAttempts, Rows
    <3> QED BY <1>3, <2>3, <3>1, <3>3
  <2>8. CASE row' = row /\ charged' = charged /\ ~Claim(r)
    BY <1>3, <2>3, <2>8 DEF KeepsAttempts
  <2>9. CASE Select(r) \/ NextDelayed(r) \/ ClaimLost(r) \/ Register(r) \/ Recheck(r)
             \/ HandlerEnds(r) \/ ReadCancellation(r) \/ WorkerThrows(r)
    BY <2>2, <2>8, <2>9 DEF Select, NextDelayed, ClaimLost, Register, Recheck, HandlerEnds,
                            ReadCancellation, WorkerThrows
  <2> QED BY <1>4, <2>2, <2>4, <2>5, <2>6, <2>7, <2>9 DEF WorkerStep
<1>5. CASE \A r \in Runtimes : ~WorkerStep(r)
  BY <1>3, <1>5, OthersPay
<1> QED BY <1>4, <1>5

\* Every handler start has cost the row an attempt, but for those that fence contention
\* gave back: no number of runtimes, crashes, stops and lost claims makes a start free.
THEOREM NoStartIsFree ==
    ASSUME IsFiniteSet(Runtimes)
    PROVE  Spec => []StartsAreCharged
<1>1. Init => \A j \in Jobs : Paid(j)
  <2> SUFFICES ASSUME Init, NEW j \in Jobs PROVE Paid(j)
    OBVIOUS
  <2>1. Unstarted(j) = {}
    BY DEF Init, Unstarted, Idle, Pending
  <2>2. charged[j] = 0 /\ Cardinality(Unstarted(j)) = 0
    BY <2>1, FS_EmptySet DEF Init
  <2>3. CASE row[j].status = "absent"
    <3>1. row[j].attempts = 0
      BY <2>3, InitialRow
    <3> QED BY <2>2, <2>3, <3>1 DEF Paid
  <2>4. CASE row[j].status = "running"
    <3>1. row[j].attempts = 1
      BY <2>4, InitialRow
    <3> QED BY <2>2, <2>4, <3>1 DEF Paid
  <2> QED BY <2>3, <2>4, InitialRow
<1>2. TypeOK /\ TypeOK' /\ (\A j \in Jobs : Paid(j)) /\ [Next]_vars => (\A j \in Jobs : Paid(j))'
  BY PaidKept
<1>3. TypeOK /\ (\A j \in Jobs : Paid(j)) => StartsAreCharged
  <2> SUFFICES ASSUME TypeOK, NEW j \in Jobs, Paid(j) PROVE charged[j] <= row[j].attempts
    BY DEF StartsAreCharged
  <2>1. Unstarted(j) \in SUBSET Runtimes
    BY DEF Unstarted
  <2>2. Cardinality(Unstarted(j)) \in Nat
    BY <2>1, FS_Subset, FS_CardinalityType
  <2>3. charged[j] \in Int /\ row[j].attempts \in Nat
    BY DEF TypeOK, Rows
  <2> QED BY <2>2, <2>3 DEF Paid
<1> QED BY <1>1, <1>2, <1>3, TypeCorrect, PTL DEF Spec

-----------------------------------------------------------------------------
(* A cancellation reaches the handler.                                     *)

AboutToStart == {"start", "handler"}

\* The cancel call that marked the worker's claim and is about to abort it.
AbortComes(r) ==
    /\ canceller.pc = "abort" /\ canceller.on = r
    /\ canceller.job = wk[r].job /\ canceller.token = wk[r].token

\* The marker of a claim that was rechecked has raised the abort signal or will.
MarkIsSeen(r) ==
    wk[r].pc \in AboutToStart /\ Owns(r) /\ row[wk[r].job].cancel =>
        wk[r].aborted \/ AbortComes(r)

\* Steps of the worker: it gets there by a recheck that has seen the row as it is.
LEMMA WorkerSeesMark ==
    ASSUME TypeOK, NEW r \in Runtimes, WorkerStep(r), MarkIsSeen(r)
    PROVE  MarkIsSeen(r)'
<1>1. wk \in [Runtimes -> Workers] /\ wk[r] \in Workers /\ Idle.pc \notin AboutToStart
  BY DEF TypeOK, Idle, AboutToStart
<1>2. ASSUME NEW w, Goto(r, w) PROVE wk'[r] = w
  BY <1>1, <1>2 DEF Goto
<1>3. CASE wk'[r].pc \notin AboutToStart
  BY <1>3 DEF MarkIsSeen
<1>4. CASE Recheck(r)
  <2>1. CASE Goto(r, Idle)
    BY <1>1, <1>2, <1>3, <2>1
  <2>2. CASE Owns(r) /\ Goto(r, [wk[r] EXCEPT !.pc = "start", !.aborted = @ \/ row[wk[r].job].cancel])
    <3> DEFINE b == wk[r].aborted \/ row[wk[r].job].cancel
    <3>1. wk'[r] = [wk[r] EXCEPT !.pc = "start", !.aborted = b] /\ row' = row
      BY <1>2, <1>4, <2>2 DEF Recheck
    <3>2. row[wk[r].job].cancel => b
      OBVIOUS
    <3> HIDE DEF b
    <3>3. wk'[r].job = wk[r].job /\ wk'[r].aborted = b
      BY <1>1, <3>1 DEF Workers
    <3> QED BY <3>1, <3>2, <3>3, Zenon DEF MarkIsSeen
  <2> QED BY <1>4, <2>1, <2>2 DEF Recheck
<1>5. CASE Start(r)
  <2>1. CASE Goto(r, [wk[r] EXCEPT !.pc = "handler"])
    <3>1. /\ wk'[r].job = wk[r].job /\ wk'[r].aborted = wk[r].aborted
          /\ wk'[r].token = wk[r].token
      BY <1>1, <1>2, <2>1 DEF Workers
    <3>2. row' = row /\ canceller' = canceller /\ wk[r].pc \in AboutToStart
      BY <1>5 DEF Start, AboutToStart
    <3> QED BY <3>1, <3>2, Zenon DEF MarkIsSeen, AbortComes, Owns
  <2>2. CASE Goto(r, [wk[r] EXCEPT !.pc = "relinquish"])
             \/ \E o \in Outcomes : Goto(r, [wk[r] EXCEPT !.pc = "settle", !.outcome = o])
    <3>1. \/ wk'[r] = [wk[r] EXCEPT !.pc = "relinquish"]
          \/ \E o \in Outcomes : wk'[r] = [wk[r] EXCEPT !.pc = "settle", !.outcome = o]
      BY <1>2, <2>2
    <3> QED BY <1>1, <1>3, <3>1 DEF Workers, AboutToStart
  <2> QED BY <1>5, <2>1, <2>2 DEF Start, Outcomes
<1>6. ASSUME NEW pc \in Pcs \ AboutToStart,
             \/ Goto(r, [wk[r] EXCEPT !.pc = pc])
             \/ \E o \in Outcomes : Goto(r, [wk[r] EXCEPT !.pc = pc, !.outcome = o])
             \/ Goto(r, [wk[r] EXCEPT !.pc = pc, !.aborted = TRUE])
             \/ \E j \in Jobs : Goto(r, Snapshot(r, j, pc))
      PROVE  wk'[r].pc \notin AboutToStart
  <2>1. \/ wk'[r] = [wk[r] EXCEPT !.pc = pc]
        \/ \E o \in Outcomes : wk'[r] = [wk[r] EXCEPT !.pc = pc, !.outcome = o]
        \/ wk'[r] = [wk[r] EXCEPT !.pc = pc, !.aborted = TRUE]
        \/ \E j \in Jobs : wk'[r] = Snapshot(r, j, pc)
    BY <1>2, <1>6
  <2> QED BY <1>1, <2>1 DEF Workers, Snapshot
<1>7. CASE Promote(r) \/ FailInvalid(r)
  <2>1. [Idle EXCEPT !.pc = "select", !.wnow = now].pc \notin AboutToStart
        /\ [Idle EXCEPT !.pc = "nextDelayed", !.wnow = wk[r].wnow].pc \notin AboutToStart
    BY DEF Idle, AboutToStart
  <2> QED BY <1>1, <1>2, <1>3, <1>7, <2>1 DEF Promote, FailInvalid
<1>8. CASE Claim(r)
  <2> DEFINE lease == wk[r].wnow + LeaseTicks
             n == issued + 1
  <2>1. wk'[r] = [wk[r] EXCEPT !.pc = "claimed", !.token = n, !.lease = lease,
                               !.wnow = 0, !.availableAt = 0]
    BY <1>2, <1>8 DEF Claim
  <2> HIDE DEF lease, n
  <2> QED BY <1>1, <1>3, <2>1 DEF Workers, AboutToStart
<1>9. CASE Select(r) \/ NextDelayed(r)
  <2>1. CASE Select(r)
    BY <1>1, <1>2, <1>3, <1>6, <2>1 DEF Select, Earliest, Runnable, Pcs, AboutToStart
  <2>2. CASE NextDelayed(r)
    BY <1>1, <1>2, <1>3, <1>6, <2>2 DEF NextDelayed, Earliest, Delayed, Pcs, AboutToStart
  <2> QED BY <1>9, <2>1, <2>2
<1>10. CASE ClaimLost(r) \/ Settle(r) \/ Relinquish(r)
  BY <1>1, <1>2, <1>3, <1>10 DEF ClaimLost, Settle, Relinquish
<1>11. CASE Register(r)
  BY <1>3, <1>6, <1>11 DEF Register, Pcs, AboutToStart
<1>12. CASE HandlerEnds(r)
  <2>1. \/ \E o \in Outcomes : Goto(r, [wk[r] EXCEPT !.pc = "settle", !.outcome = o])
        \/ \E pc \in {"readCancel", "contention"} : Goto(r, [wk[r] EXCEPT !.pc = pc])
    BY <1>12 DEF HandlerEnds, Outcomes
  <2>2. {"settle", "readCancel", "contention"} \subseteq Pcs \ AboutToStart
    BY DEF Pcs, AboutToStart
  <2> QED BY <1>3, <1>6, <2>1, <2>2
<1>13. CASE ReadCancellation(r)
  <2> DEFINE o == IF Owns(r) /\ row[wk[r].job].cancel THEN "cancelled" ELSE "error"
  <2>1. o \in Outcomes /\ Goto(r, [wk[r] EXCEPT !.pc = "settle", !.outcome = o])
    BY <1>13 DEF ReadCancellation, Outcomes
  <2>2. "settle" \in Pcs \ AboutToStart
    BY DEF Pcs, AboutToStart
  <2> HIDE DEF o
  <2> QED BY <1>3, <1>6, <2>1, <2>2
<1>14. CASE DeferContention(r)
  BY <1>1, <1>2, <1>3, <1>6, <1>14 DEF DeferContention, Pcs, AboutToStart, Outcomes
<1>15. CASE WorkerThrows(r)
  <2>1. CASE Goto(r, [wk[r] EXCEPT !.outcome = "error"]) /\ wk[r].pc = "settle"
    <3>1. wk'[r] = [wk[r] EXCEPT !.outcome = "error"]
      BY <1>2, <2>1
    <3> QED BY <1>1, <1>3, <2>1, <3>1 DEF Workers, AboutToStart
  <2> QED BY <1>1, <1>2, <1>3, <1>6, <1>15, <2>1 DEF WorkerThrows, Pcs, AboutToStart, Outcomes
<1> QED
  BY <1>4, <1>5, <1>7, <1>8, <1>9, <1>10, <1>11, <1>12, <1>13, <1>14, <1>15 DEF WorkerStep

\* Steps of others: none marks a claim but the cancel call, which then aborts it.
LEMMA MarkIsFollowed ==
    ASSUME TypeOK, [Next]_vars, NEW r \in Runtimes, \A q \in Runtimes : q = r,
           ~WorkerStep(r), MarkIsSeen(r)
    PROVE  MarkIsSeen(r)'
<1>1. /\ wk \in [Runtimes -> Workers] /\ wk[r] \in Workers /\ row \in [Jobs -> Rows]
      /\ Idle.pc \notin AboutToStart /\ canceller \in Calls
      /\ wk[r].pc \in AboutToStart => wk[r].job \in Jobs
      /\ canceller.pc # "idle" => canceller.on = r /\ canceller.job \in Jobs
  BY DEF TypeOK, Idle, AboutToStart
<1> SUFFICES ASSUME wk'[r].pc \in AboutToStart, Owns(r)', row'[wk'[r].job].cancel
             PROVE  wk'[r].aborted \/ AbortComes(r)'
  BY DEF MarkIsSeen
<1>2. \/ wk'[r] = wk[r]
      \/ wk'[r] = [wk[r] EXCEPT !.aborted = TRUE]
  <2>1. wk'[r] # Idle
    BY <1>1
  <2>2. CASE CancelStep
    BY <1>1, <2>2 DEF CancelStep, CancelRead, CancelWaiting, CancelRunning, CancelAbort
  <2>3. CASE RuntimeStep(r)
    <3>1. CASE Crash(r)
      BY <1>1, <2>1, <3>1 DEF Crash
    <3>2. CASE Stop(r)
      BY <1>1, <3>2 DEF Stop
    <3>3. CASE ScanLeases(r) \/ RecoverRow(r) \/ Open(r) \/ Activate(r) \/ Close(r)
      BY <3>3 DEF ScanLeases, RecoverRow, Open, Activate, Close
    <3> QED BY <2>3, <3>1, <3>2, <3>3 DEF RuntimeStep
  <2> QED BY <2>2, <2>3 DEF Next, Tick, Enqueue, vars
<1>3. /\ wk'[r].pc = wk[r].pc /\ wk'[r].job = wk[r].job /\ wk'[r].token = wk[r].token
      /\ wk[r].aborted => wk'[r].aborted
  BY <1>1, <1>2 DEF Workers
<1>4. PICK j \in Jobs : j = wk[r].job
  BY <1>1, <1>3
<1>5. row'[j].status = "running" /\ row'[j].token = wk[r].token /\ row'[j].cancel
  BY <1>3, <1>4 DEF Owns
<1>6. CASE row'[j] = row[j] /\ canceller' = canceller
  <2>1. wk[r].aborted \/ AbortComes(r)
    BY <1>3, <1>4, <1>5, <1>6, Zenon DEF MarkIsSeen, Owns
  <2> QED BY <1>3, <1>6, <2>1, Zenon DEF AbortComes
<1>7. CASE row'[j] = row[j] /\ canceller.pc # "abort"
  <2>1. wk[r].aborted
    BY <1>3, <1>4, <1>5, <1>7, Zenon DEF MarkIsSeen, Owns, AbortComes
  <2> QED BY <1>3, <2>1
<1>8. CASE CancelWaiting
  <2>1. canceller.pc # "abort"
    BY <1>8 DEF CancelWaiting
  <2>2. row'[j] = row[j]
    <3>1. Released(canceller.job, "cancelled").status = "cancelled" \/ row' = row
      BY <1>1, <1>8, ReleasedFields DEF CancelWaiting, Statuses
    <3> QED BY <1>1, <1>5, <1>8, <3>1 DEF CancelWaiting
  <2> QED BY <1>7, <2>1, <2>2
<1>9. CASE CancelRunning
  <2>1. canceller.pc = "write" /\ canceller.job \in Jobs /\ canceller.on = r
    BY <1>1, <1>9 DEF CancelRunning
  <2>2. CASE row'[j] = row[j]
    BY <1>7, <2>1, <2>2
  <2>3. CASE row'[j] # row[j]
    <3>1. /\ canceller.job = j /\ row[j].token = canceller.token
          /\ canceller' = [canceller EXCEPT !.pc = "abort"]
          /\ row' = [row EXCEPT ![j].cancel = TRUE]
      BY <1>1, <1>9, <2>1, <2>3 DEF CancelRunning
    <3>2. row'[j].token = row[j].token
      BY <1>1, <3>1 DEF Rows
    <3>3. /\ canceller'.pc = "abort" /\ canceller'.on = r /\ canceller'.job = j
          /\ canceller'.token = canceller.token
      BY <1>1, <2>1, <3>1 DEF Calls
    <3> QED BY <1>3, <1>4, <1>5, <3>1, <3>2, <3>3 DEF AbortComes
  <2> QED BY <2>2, <2>3
<1>10. CASE CancelAbort
  <2>1. row' = row /\ canceller.on = r
    BY <1>1, <1>10 DEF CancelAbort
  <2>2. wk[r].aborted \/ AbortComes(r)
    BY <1>3, <1>4, <1>5, <2>1, Zenon DEF MarkIsSeen, Owns
  <2>3. CASE AbortComes(r)
    <3>1. Registered(r, canceller.job) /\ wk[r].token = canceller.token
      BY <1>3, <2>3 DEF AbortComes, Registered, AboutToStart
    <3>2. wk' = [wk EXCEPT ![r].aborted = TRUE]
      BY <1>10, <2>1, <3>1 DEF CancelAbort
    <3> QED BY <1>1, <3>2 DEF Workers
  <2> QED BY <1>3, <2>2, <2>3
<1>11. ASSUME NEW k \in Jobs, NEW at \in Availabilities, Enqueue(k, at)
       PROVE  row'[j] = row[j]
  <2> DEFINE x == [Absent EXCEPT !.status = IF at > now THEN "delayed" ELSE "queued",
                                 !.availableAt = at]
  <2>1. x.status # "running"
    BY DEF Absent
  <2>2. row' = [row EXCEPT ![k] = x]
    BY <1>11 DEF Enqueue
  <2> HIDE DEF x
  <2> QED BY <1>1, <1>5, <2>1, <2>2
<1>12. CASE RecoverRow(r)
  <2>1. PICK s \in scan[r] :
          row' = IF Unchanged(s) THEN [row EXCEPT ![s.job] = Recovered(s)] ELSE row
    BY <1>12 DEF RecoverRow
  <2>2. s.job = j => Recovered(s).status # "running"
    <3>1. \A t \in {"failed", "delayed"} : Released(j, t) \in Rows /\ Released(j, t).status = t
      BY <1>1, ReleasedIsRow, ReleasedFields DEF Statuses
    <3>2. ASSUME NEW x \in Rows, NEW h, NEW a
          PROVE  /\ [x EXCEPT !.hist = h].status = x.status
                 /\ [x EXCEPT !.availableAt = a, !.hist = h].status = x.status
      BY DEF Rows
    <3> QED BY <3>1, <3>2 DEF Recovered
  <2>3. row'[j] = row[j]
    BY <1>1, <1>5, <2>1, <2>2
  <2> QED BY <1>6, <1>12, <2>3 DEF RecoverRow
<1>13. CASE Open(r)
  <2>1. row'[j] = row[j]
    <3>1. row'[j] = row[j] \/ row'[j] = [row[j] EXCEPT !.status = "failed"]
      BY <1>13 DEF Open
    <3> QED BY <1>1, <1>5, <3>1 DEF Rows
  <2> QED BY <1>6, <1>13, <2>1 DEF Open
<1>14. ~Crash(r)
  BY <1>1 DEF Crash
<1>15. CASE RuntimeStep(r)
  BY <1>6, <1>12, <1>13, <1>14, <1>15 DEF RuntimeStep, ScanLeases, Activate, Stop, Close
<1>16. CASE CancelStep
  <2>1. CASE \E k \in Jobs : CancelRead(r, k)
    <3>1. row' = row /\ canceller.pc # "abort"
      BY <2>1 DEF CancelRead, NoCall
    <3> QED BY <1>7, <3>1
  <2> QED BY <1>8, <1>9, <1>10, <1>16, <2>1 DEF CancelStep
<1> QED BY <1>6, <1>11, <1>15, <1>16 DEF Next, Tick, Enqueue, vars

\* With one runtime, a handler whose claim carries a cancellation marker has its abort
\* signal raised, or the cancel call is about to raise it: the marker is written before
\* the controller is looked up, and read after it was registered.
THEOREM CancellationArrives ==
    ASSUME \A r, q \in Runtimes : r = q
    PROVE  Spec => []CancelReachesHandler
<1>1. Init => \A r \in Runtimes : MarkIsSeen(r)
  BY DEF Init, MarkIsSeen, Idle, AboutToStart
<1>2. TypeOK /\ (\A r \in Runtimes : MarkIsSeen(r)) /\ [Next]_vars
        => (\A r \in Runtimes : MarkIsSeen(r))'
  BY WorkerSeesMark, MarkIsFollowed
<1>3. (\A r \in Runtimes : MarkIsSeen(r)) => CancelReachesHandler
  BY DEF MarkIsSeen, CancelReachesHandler, InHandler, AbortComes, AboutToStart
<1> QED BY <1>1, <1>2, <1>3, TypeCorrect, PTL DEF Spec
=============================================================================
