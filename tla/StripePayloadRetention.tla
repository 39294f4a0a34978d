----------------------- MODULE StripePayloadRetention ----------------------
(***************************************************************************)
(* The maintenance that erases the payload of a settled Stripe Event Job   *)
(* thirty days after its settlement: src/jobs-runtime.ts 116-436.  Every   *)
(* runtime over the store runs passes of the same statements, one budget   *)
(* of row changes per pass: redact what is due, look again at rows whose   *)
(* settlement time was unreadable (a durable cursor pages through them),   *)
(* give older rows their deadline.  A pass ends by arming one timer.       *)
(*                                                                         *)
(* One action is one statement, with the code up to the next one.  A Job   *)
(* is "pending" until its worker settles it (JobQueue has the rest of its  *)
(* life); settlements beyond the range of timestamps are left out.         *)
(***************************************************************************)
EXTENDS Integers, Sequences, FiniteSets

CONSTANTS
  Runtimes,
  Pending, Older, Unreadable,   \* Jobs by their start: to be settled, legacy, legacy without a settlement time
  BatchSize, Retention, Recheck,
  MaxTime, MaxFaults, MaxRestarts,
  RepairsUntil,                 \* bound: the last repair, so that there is time to find it
  Overtaken,                    \* whether a settlement may fall between a pass's end and its promise's
  LosesReplies,                 \* whether a settlement may be stored and reported as failed
  Unassigned, Sentinel, Bad     \* payloadRetentionUntil NULL and '', completedAt unreadable

Jobs == Pending \union Older \union Unreadable

StripePayloadRetentionAssumption ==
  /\ Runtimes # {} /\ Jobs \subseteq Nat \ {0} /\ IsFiniteSet(Jobs)
  /\ BatchSize \in Nat \ {0} /\ Retention \in Nat \ {0} /\ Recheck \in Nat \ {0}
  /\ {MaxTime, MaxFaults, MaxRestarts, RepairsUntil} \subseteq Nat
  /\ Overtaken \in BOOLEAN /\ LosesReplies \in BOOLEAN
  /\ Unassigned # Sentinel /\ {Unassigned, Sentinel, Bad} \intersect Nat = {}

\* Later than every deadline: no timer, no request, no recheck.
Never == MaxTime + Retention + Recheck + 1
\* A second, and nothing on the scale of the other intervals.
RetryDelay == 0
Instants == 0..(Never - 1)
Rows == [state : {"pending", "succeeded", "redacted"}, completed : Instants \union {Bad},
         until : Instants \union {Unassigned, Sentinel}]
Cursors == [after : Jobs \union {0}, recheck : Instants \union {Never}]
Steps == {"idle", "ending", "due", "redact", "cursor", "page", "scan", "rescan", "advance", "legacy",
          "assign", "reassign", "more", "schedule", "next"}

VARIABLES
  now,
  rows,       \* the reserved Jobs
  cursor,     \* the durable cursor of the sentinel scan
  pass,       \* per runtime: the running pass, as its next step and local variables
  timer,      \* per runtime: __stripeEventPayloadCleanupDueAt
  requested,  \* per runtime: __stripeEventPayloadCleanupRequestedAt
  notices,    \* per runtime: deadlines of settlements that are to be scheduled
  faults, restarts

vars == <<now, rows, cursor, pass, timer, requested, notices, faults, restarts>>
control == <<timer, requested, notices, faults, restarts>>

Earlier(a, b) == IF a <= b THEN a ELSE b
InitialCursor == [after |-> 0, recheck |-> Never]

FreshPass(t) ==
  [pc |-> "due", started |-> t, budget |-> BatchSize, queue |-> <<>>, again |-> FALSE,
   seen |-> InitialCursor, next |-> InitialCursor, found |-> 0, processed |-> 0, last |-> 0,
   rescan |-> FALSE, recheck |-> Never, classified |-> FALSE, more |-> FALSE]
NoPass == [FreshPass(0) EXCEPT !.pc = "idle"]

-----------------------------------------------------------------------------
(* Statements *)

Stored(j) == [id |-> j, completed |-> rows[j].completed, until |-> rows[j].until]

Succeeded(S) == {Stored(j) : j \in {i \in S : rows[i].state = "succeeded"}}

\* The first n of the rows that a statement found, in its order: before[<<x, y>>] if x is first.
Selected(found, before, n) ==
  {q \in [1..Earlier(n, Cardinality(found)) -> found] :
     \A i \in DOMAIN q :
       /\ \A k \in DOMAIN q : i < k => before[<<q[i], q[k]>>]
       /\ \A x \in found : before[<<x, q[i]>>] => \E k \in DOMAIN q : q[k] = x}

ById(found) == [q \in found \X found |-> q[1].id < q[2].id]
BySettlement(found) ==
  [q \in found \X found |->
     IF q[1].completed = q[2].completed THEN q[1].id < q[2].id
     ELSE IF Bad \in {q[1].completed, q[2].completed} THEN q[1].completed = Bad
     ELSE q[1].completed < q[2].completed]
ByDeadline(found) ==
  [q \in found \X found |->
     q[1].until < q[2].until \/ (q[1].until = q[2].until /\ q[1].id < q[2].id)]
At(until) == {j \in Jobs : rows[j].until = until}
Anywhere(until) == \E j \in At(until) : rows[j].state = "succeeded"
Dated == {j \in Jobs : rows[j].until \in Instants /\ rows[j].state = "succeeded"}

\* The compare-and-set on what was observed of a row.
Unchanged(q) == rows[q.id].state = "succeeded" /\ Stored(q.id) = q

\* The runtime's pass goes on with p; nothing else of the runtime changes.
Goes(r, p) == pass' = [pass EXCEPT ![r] = p]
Locally(r, p) == Goes(r, p) /\ UNCHANGED <<now, rows, cursor, control>>

AtStep(r, pc) == pass[r].pc = pc

-----------------------------------------------------------------------------
(* Redaction of what is due *)

ReadDue(r) ==
  /\ AtStep(r, "due")
  /\ LET found == Succeeded({j \in Dated : rows[j].until <= pass[r].started})
     IN \E q \in Selected(found, ByDeadline(found), BatchSize) :
          Locally(r, [pass[r] EXCEPT !.pc = "redact", !.queue = q])

Redact(r) ==
  LET p == pass[r] q == Head(p.queue) IN
  /\ AtStep(r, "redact") /\ p.queue # <<>>
  /\ IF Unchanged(q)
     THEN /\ rows' = [rows EXCEPT ![q.id].state = "redacted"]
          /\ Goes(r, [p EXCEPT !.queue = Tail(@), !.budget = @ - 1])
     ELSE Goes(r, [p EXCEPT !.queue = Tail(@)]) /\ UNCHANGED rows
  /\ UNCHANGED <<now, cursor, control>>

-----------------------------------------------------------------------------
(* The page of sentinels *)

\* A recheck that is not due yet.
Waiting(p) == p.seen.after = 0 /\ p.seen.recheck # Never /\ p.seen.recheck > p.started

ReadCursor(r) ==
  LET p == [pass[r] EXCEPT !.pc = "page", !.seen = cursor] IN
  /\ AtStep(r, "redact") /\ pass[r].queue = <<>>
  /\ Locally(r, [p EXCEPT !.recheck = IF Waiting(p) THEN cursor.recheck ELSE Never])

ReadPage(r) ==
  LET p == pass[r]
      found == Succeeded({j \in At(Sentinel) : j > p.seen.after})
      pages == IF p.budget = 0 \/ Waiting(p) THEN {<<>>}
               ELSE Selected(found, ById(found), BatchSize + 1)
  IN /\ AtStep(r, "page")
     /\ \E page \in pages :
          Locally(r, [p EXCEPT !.pc = "scan", !.found = Len(page),
                               !.queue = SubSeq(page, 1, Earlier(BatchSize, Len(page)))])

Deadline(completed) == IF completed = Bad THEN Sentinel ELSE completed + Retention

Drop(p) == [p EXCEPT !.queue = Tail(@), !.again = FALSE]

\* A row of the page ("scan") or an older row ("assign") gets its deadline if it is still
\* as it was observed; otherwise it is read once more.
GiveDeadline(r, pc, reread) ==
  LET q == Head(pass[r].queue)
      p == IF pass[r].again THEN pass[r] ELSE [pass[r] EXCEPT !.processed = @ + 1, !.last = q.id]
  IN /\ AtStep(r, pc) /\ pass[r].queue # <<>> /\ pass[r].budget > 0
     /\ \/ /\ pc = "scan" /\ q.completed = Bad
           /\ Goes(r, Drop(p)) /\ UNCHANGED rows
        \/ /\ pc = "assign" \/ q.completed # Bad
           /\ Unchanged(q)
           /\ rows' = [rows EXCEPT ![q.id].until = Deadline(q.completed)]
           /\ Goes(r, [Drop(p) EXCEPT !.budget = @ - 1, !.classified = @ \/ q.completed = Bad])
        \/ /\ pc = "assign" \/ q.completed # Bad
           /\ ~Unchanged(q)
           /\ Goes(r, IF p.again THEN Drop(p) ELSE [p EXCEPT !.pc = reread]) /\ UNCHANGED rows
     /\ UNCHANGED <<now, cursor, control>>

Reread(r, pc, back) ==
  LET p == pass[r] q == Head(p.queue) IN
  /\ AtStep(r, pc)
  /\ Locally(r, [(IF rows[q.id].state = "succeeded" /\ rows[q.id].until = q.until
                  THEN [p EXCEPT !.queue = <<Stored(q.id)>> \o Tail(@), !.again = TRUE]
                  ELSE Drop(p)) EXCEPT !.pc = back])

RowsAreOver(p) == p.queue = <<>> \/ p.budget = 0

\* Where the next page starts, or when the next scan is due.
NextCursor(p) ==
  IF p.found > p.processed THEN [after |-> p.last, recheck |-> Never]
  ELSE [after |-> 0, recheck |-> IF Anywhere(Sentinel) THEN now + Recheck ELSE Never]

Survey(r) ==
  LET p == [pass[r] EXCEPT !.queue = <<>>]
      moves == p.processed > 0 \/ (p.budget > 0 /\ ~Waiting(p) /\ p.seen # InitialCursor)
  IN /\ AtStep(r, "scan") /\ RowsAreOver(pass[r])
     /\ Locally(r,
          IF moves THEN [p EXCEPT !.pc = "advance", !.next = NextCursor(p)]
          ELSE [p EXCEPT !.pc = "legacy",
                         !.rescan = p.budget = 0 /\ ~Waiting(p) /\ Anywhere(Sentinel)])

\* The cursor moves if no other runtime moved it since it was read.
Move(r, p, pc) ==
  /\ IF cursor = p.seen
     THEN /\ cursor' = p.next
          /\ Goes(r, [p EXCEPT !.pc = pc, !.seen = p.next, !.recheck = p.next.recheck,
                               !.rescan = p.next.after # 0])
     ELSE Goes(r, [p EXCEPT !.pc = pc, !.rescan = TRUE]) /\ UNCHANGED cursor
  /\ UNCHANGED <<now, rows, control>>

Advance(r) == AtStep(r, "advance") /\ Move(r, pass[r], "legacy")

-----------------------------------------------------------------------------
(* Older rows, and the end of the pass *)

ReadOlder(r) ==
  /\ AtStep(r, "legacy")
  /\ LET found == Succeeded(At(Unassigned))
     IN \E q \in Selected(found, BySettlement(found), pass[r].budget) :
          Locally(r, [pass[r] EXCEPT !.pc = "assign", !.queue = q])

\* Mutant: no scan is scheduled for rows this pass found unreadable.
LookForMoreOnly(r) ==
  /\ AtStep(r, "assign") /\ RowsAreOver(pass[r])
  /\ Locally(r, [pass[r] EXCEPT !.queue = <<>>, !.more = Anywhere(Unassigned), !.pc = "next"])

LookForMore(r) ==
  LET p == [pass[r] EXCEPT !.queue = <<>>, !.more = Anywhere(Unassigned)] IN
  /\ AtStep(r, "assign") /\ RowsAreOver(pass[r])
  /\ Locally(r, [p EXCEPT !.pc = IF ~p.rescan /\ p.seen.after = 0 /\ p.recheck = Never /\ p.classified
                                 THEN "schedule" ELSE "next"])

ScheduleScan(r) ==
  /\ AtStep(r, "schedule")
  /\ Move(r, [pass[r] EXCEPT !.next = [after |-> 0, recheck |-> now + Recheck]], "next")

\* runStripeEventPayloadCleanupChain, after a pass: another one, or one timer.
Chain(r, due) ==
  /\ requested' = [requested EXCEPT ![r] = Never]
  /\ IF requested[r] <= now
     THEN Goes(r, FreshPass(now)) /\ UNCHANGED timer
     ELSE /\ Goes(r, IF Overtaken THEN [NoPass EXCEPT !.pc = "ending"] ELSE NoPass)
          /\ timer' = [timer EXCEPT ![r] = Earlier(requested[r], due)]
  /\ UNCHANGED <<now, rows, cursor, notices, restarts>>

Finish(r) ==
  LET p == pass[r]
      deadline == IF Dated = {} THEN Never
                  ELSE CHOOSE d \in {rows[j].until : j \in Dated} : \A j \in Dated : d <= rows[j].until
  IN /\ AtStep(r, "next")
     /\ Chain(r, IF p.more \/ p.rescan THEN p.started ELSE Earlier(p.recheck, deadline))
     /\ UNCHANGED faults

\* A statement fails; the pass is tried again after a delay.
Fails(r) ==
  /\ pass[r].pc \notin {"idle", "ending"}
  /\ faults < MaxFaults /\ faults' = faults + 1
  /\ Chain(r, now + RetryDelay)

PromiseCleared(r) == AtStep(r, "ending") /\ Locally(r, NoPass)

TimerFires(r) ==
  /\ AtStep(r, "idle") /\ timer[r] <= now
  /\ timer' = [timer EXCEPT ![r] = Never]
  /\ requested' = [requested EXCEPT ![r] = Never]
  /\ Goes(r, FreshPass(now))
  /\ UNCHANGED <<now, rows, cursor, notices, faults, restarts>>

-----------------------------------------------------------------------------
(* Settlements, repairs, restarts *)

\* The worker stores the settlement with its deadline.
Settle(r, j) ==
  /\ rows[j].state = "pending"
  /\ rows' = [rows EXCEPT ![j] = [state |-> "succeeded", completed |-> now, until |-> Deadline(now)]]
  /\ notices' = [notices EXCEPT ![r] = @ \union {Deadline(now)}]
  /\ UNCHANGED <<now, cursor, pass, timer, requested, faults, restarts>>

\* Mutant: a timer is brought forward, and none is armed where there is none.
NoticeNeedsTimer(r, due) ==
  /\ due \in notices[r]
  /\ notices' = [notices EXCEPT ![r] = @ \ {due}]
  /\ IF AtStep(r, "idle")
     THEN timer' = [timer EXCEPT ![r] = IF @ = Never THEN @ ELSE Earlier(@, due)] /\ UNCHANGED requested
     ELSE requested' = [requested EXCEPT ![r] = Earlier(@, due)] /\ UNCHANGED timer
  /\ UNCHANGED <<now, rows, cursor, pass, faults, restarts>>

\* scheduleStripeEventPayloadCleanup
Notice(r, due) ==
  /\ due \in notices[r]
  /\ notices' = [notices EXCEPT ![r] = @ \ {due}]
  /\ IF AtStep(r, "idle")
     THEN timer' = [timer EXCEPT ![r] = Earlier(@, due)] /\ UNCHANGED requested
     ELSE requested' = [requested EXCEPT ![r] = Earlier(@, due)] /\ UNCHANGED timer
  /\ UNCHANGED <<now, rows, cursor, pass, faults, restarts>>

\* The settlement was stored, but its statement failed.
ReplyLost(r, due) ==
  /\ LosesReplies /\ due \in notices[r]
  /\ faults < MaxFaults /\ faults' = faults + 1
  /\ notices' = [notices EXCEPT ![r] = @ \ {due}]
  /\ UNCHANGED <<now, rows, cursor, pass, timer, requested, restarts>>

\* A recovery of the store restores a settlement time.
Repair(j) ==
  /\ rows[j].completed = Bad /\ now <= RepairsUntil
  /\ \E t \in {0, now} : rows' = [rows EXCEPT ![j].completed = t]
  /\ UNCHANGED <<now, cursor, pass, control>>

\* A runtime dies and is activated again.
Restart(r) ==
  /\ restarts < MaxRestarts /\ restarts' = restarts + 1
  /\ Goes(r, FreshPass(now))
  /\ timer' = [timer EXCEPT ![r] = Never]
  /\ requested' = [requested EXCEPT ![r] = Never]
  /\ notices' = [notices EXCEPT ![r] = {}]
  /\ UNCHANGED <<now, rows, cursor, faults>>

\* Bound: time passes at most once during a pass and waits for a due timer, both of
\* which are short on this scale.
Tick ==
  /\ \A r \in Runtimes : timer[r] > now
  /\ \A r \in Runtimes : pass[r].pc \notin {"idle", "ending"} => pass[r].started = now
  /\ now < MaxTime /\ now' = now + 1
  /\ UNCHANGED <<rows, cursor, pass, control>>

-----------------------------------------------------------------------------
Init ==
  /\ now = 0
  /\ rows = [j \in Jobs |->
       IF j \in Pending THEN [state |-> "pending", completed |-> 0, until |-> Unassigned]
       ELSE [state |-> "succeeded", completed |-> IF j \in Older THEN 0 ELSE Bad, until |-> Unassigned]]
  /\ cursor = InitialCursor
  /\ pass = [r \in Runtimes |-> FreshPass(0)]
  /\ timer = [r \in Runtimes |-> Never] /\ requested = timer
  /\ notices = [r \in Runtimes |-> {}]
  /\ faults = 0 /\ restarts = 0

Statement(r) ==
  \/ ReadDue(r) \/ Redact(r) \/ ReadCursor(r) \/ ReadPage(r)
  \/ GiveDeadline(r, "scan", "rescan") \/ Reread(r, "rescan", "scan") \/ Survey(r) \/ Advance(r)
  \/ ReadOlder(r) \/ GiveDeadline(r, "assign", "reassign") \/ Reread(r, "reassign", "assign")
  \/ LookForMore(r) \/ ScheduleScan(r) \/ Finish(r) \/ PromiseCleared(r)

Next ==
  \/ \E r \in Runtimes :
       \/ Statement(r) \/ Fails(r) \/ TimerFires(r) \/ Restart(r)
       \/ \E j \in Jobs : Settle(r, j)
       \/ \E due \in notices[r] : Notice(r, due) \/ ReplyLost(r, due)
  \/ \E j \in Jobs : Repair(j)
  \/ Tick

Spec == Init /\ [][Next]_vars

-----------------------------------------------------------------------------
TypeOK ==
  /\ now \in 0..MaxTime /\ rows \in [Jobs -> Rows] /\ cursor \in Cursors
  /\ \A r \in Runtimes :
       /\ pass[r].pc \in Steps /\ pass[r].budget \in 0..BatchSize
       /\ timer[r] \in Instants \union {Never} /\ requested[r] \in Instants \union {Never}
       /\ notices[r] \subseteq Instants

Later(a, b) == IF a <= b THEN b ELSE a

\* A runtime that will still look: in a pass, or with a timer not after t.
Looks(r, t) == pass[r].pc \notin {"idle", "ending"} \/ timer[r] <= Later(t, now)

\* A deadline that was stored is kept by somebody: a running pass, a timer that is not
\* later, or a settlement that is about to arm one.
DeadlinesAreKept ==
  \A j \in Dated : \E r \in Runtimes :
    Looks(r, rows[j].until) \/ \E d \in notices[r] : d <= rows[j].until

\* Rows without a deadline are looked at again: older ones at once, unreadable ones within
\* the recheck interval, so that a repaired row is found.
BacklogIsKept ==
  /\ Anywhere(Unassigned) => \E r \in Runtimes : Looks(r, now)
  /\ Anywhere(Sentinel) => \E r \in Runtimes : Looks(r, now + Recheck)

\* No payload is erased before its Job was settled for the whole retention period.
NeverEarly ==
  \A j \in Jobs : (rows'[j].state = "redacted" /\ rows[j].state # "redacted") =>
    rows[j].completed # Bad /\ rows[j].completed + Retention <= now

\* Every payload whose deadline has come is erased.
DueIsRedacted == <>[](\A j \in Dated : rows[j].until > now)

\* A row that was classified and then repaired returns to ordinary retention: within the
\* recheck interval and two rounds of pages, each at most one tick, which is what the bound
\* on repairs leaves.
RepairIsFound == <>[](\A j \in Jobs : rows[j].until = Sentinel => rows[j].completed = Bad)

\* Rows that cannot be given a deadline do not keep a runtime busy: when time stands
\* still, the passes stop.
PassesStop == <>[](\A r \in Runtimes : pass[r].pc = "idle")
=============================================================================
