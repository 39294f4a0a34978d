-------------------------- MODULE TeamBillingSeats -------------------------
(***************************************************************************)
(* How the Subscription at Stripe is made to follow a Team's size and a    *)
(* requested plan: src/team-billing-management.ts.  A change stages one    *)
(* desired row per Team, latest wins, and enqueues a Job generation for    *)
(* it.  The Job claims the Team's provider lane, writes to Stripe outside  *)
(* of any transaction, and leaves the row waiting for verified evidence;   *)
(* an event that carries the target settles it.  A restart repairs.        *)
(*                                                                         *)
(* One Team, whose Subscription is live, and two products: "team" is       *)
(* billed by accepted members, "fixed" is one unit.  Erasure, catalogue    *)
(* changes and the Job queue itself (JobQueue) are left out: a generation  *)
(* has three attempts.  Stripe is external: it remembers what it answered  *)
(* to an idempotency key, and writes an event when its item changes.       *)
(***************************************************************************)
EXTENDS Naturals, Sequences

CONSTANTS
  MaxMembers, MaxChanges, MayLeave,     \* the Team: size, changes, whether anybody leaves
  Requests, Wants,                      \* plan transitions a client may ask for
  InitialProduct,
  MaxIntents, MaxJobs, MaxCalls,        \* bounds on identities
  MaxFaults, MaxRestarts,
  LateWrites,                           \* whether an abandoned request may still reach Stripe
  NoDesired, NoOperation

Products == {"team", "fixed"}

TeamBillingSeatsAssumption ==
  /\ {MaxMembers, MaxChanges, MaxIntents, MaxJobs, MaxCalls, MaxFaults, MaxRestarts} \subseteq Nat
  /\ MayLeave \in BOOLEAN /\ LateWrites \in BOOLEAN
  /\ Wants \in [Requests -> Products] /\ InitialProduct \in Products
  /\ NoOperation \notin Requests

MaxAttempts == 3
Statuses == {"queued", "running", "awaiting", "failed", "attention"}
Live == {"queued", "running", "awaiting"}
Items == [product : Products, quantity : 1..MaxMembers, at : Nat]
DesiredRows ==
  [intent : 1..MaxIntents, kind : {"seats", "plan"}, op : Requests \union {NoOperation},
   product : Products, quantity : 1..MaxMembers, status : Statuses, gen : 1..MaxJobs]
Jobs ==
  [intent : 1..MaxIntents, kind : {"seats", "plan"}, attempts : 0..MaxAttempts, busy : BOOLEAN,
   state : {"queued", "delayed", "running", "settling", "orphaned", "done", "failed"}]
Calls ==
  [gen : 1..MaxJobs, desired : DesiredRows, source : Products, worker : {"waiting", "gone"},
   request : {"sent", "answered", "rejected", "dropped"}]

VARIABLES
  members,    \* accepted members
  changes,    \* how often the size changed
  unstaged,   \* committed changes whose staging is still to run
  forgotten,  \* history: a staging failed and no repair has run since
  admin,      \* whether the actor of the plan requests is still an administrator
  stripe,     \* the item at Stripe, with Stripe's clock
  answers,    \* what Stripe answered to each intent's idempotency key
  wire,       \* events not yet delivered
  row,        \* the Subscription row
  desired,    \* sporades_team_billing_desired_state
  intents,    \* the last intentId
  ops,        \* sporades_team_billing_operations of kind plan-transition
  lane,       \* sporades_team_billing_provider_lanes: the call that claimed it
  jobs,       \* the Job generations
  calls,      \* attempts that passed their claim
  faults, restarts

vars == <<members, changes, unstaged, forgotten, admin, stripe, answers, wire, row, desired,
          intents, ops, lane, jobs, calls, faults, restarts>>

team == <<members, changes, unstaged, forgotten, admin>>
outside == <<stripe, answers, wire>>
limits == <<faults, restarts>>

-----------------------------------------------------------------------------
(* Desired state *)

Quantity(product) == IF product = "team" THEN members ELSE 1

Drifted == row.product = "team" /\ row.quantity # members

\* stageDesired: the same target keeps its intent, and with it its idempotency key.
Staged(kind, op, product, quantity) ==
  IF desired # NoDesired /\ <<desired.kind, desired.product, desired.quantity>> = <<kind, product, quantity>>
  THEN LET transfers == kind = "plan" /\ op # desired.op
           again == transfers \/ desired.status \in {"failed", "attention"}
       IN [row |-> IF again THEN [desired EXCEPT !.op = IF transfers THEN op ELSE @, !.status = "queued"]
                   ELSE desired,
           enqueue |-> again]
  ELSE [row |-> [intent |-> intents + 1, kind |-> kind, op |-> op, product |-> product,
                 quantity |-> quantity, status |-> "queued", gen |-> 1], enqueue |-> TRUE]

\* enqueueIntent: a new generation becomes the active one; queue is the Jobs as this
\* step leaves them.
Enqueue(d, queue, state) ==
  /\ Len(queue) < MaxJobs /\ d.intent <= MaxIntents
  /\ intents' = IF d.intent > intents THEN d.intent ELSE intents
  /\ desired' = [d EXCEPT !.gen = Len(queue) + 1]
  /\ jobs' = Append(queue, [intent |-> d.intent, kind |-> d.kind, attempts |-> 0, busy |-> FALSE,
                            state |-> state])

StageSeats(queue) == Enqueue(Staged("seats", NoOperation, row.product, members).row, queue, "queued")

KeepDesired == UNCHANGED <<desired, intents, jobs>>

Fault == faults < MaxFaults /\ faults' = faults + 1

OperationOf(d, status) == IF d.op = NoOperation THEN ops ELSE [ops EXCEPT ![d.op] = status]

-----------------------------------------------------------------------------
(* The Team and its requests *)

MembershipChanges ==
  /\ changes < MaxChanges
  /\ members' \in {members + 1} \union (IF MayLeave THEN {members - 1} ELSE {})
  /\ members' \in 1..MaxMembers
  /\ changes' = changes + 1
  /\ unstaged' = unstaged + 1
  /\ UNCHANGED <<forgotten, admin, outside, row, desired, intents, ops, lane, jobs, calls, limits>>

\* stageTeamBillingMembershipChange, after the membership transaction.
StageMembershipChange ==
  /\ unstaged > 0
  /\ unstaged' = unstaged - 1
  /\ LET staged == Staged("seats", NoOperation, "team", members) IN
     IF \/ row.product # "team"
        \/ desired # NoDesired /\ desired.kind = "plan"
        \/ desired = NoDesired /\ ~Drifted
        \/ ~staged.enqueue
     THEN KeepDesired ELSE Enqueue(staged.row, jobs, "queued")
  /\ UNCHANGED <<members, changes, forgotten, admin, outside, row, ops, lane, calls, limits>>

\* The staging fails: its error is logged and swallowed.
StagingFails ==
  /\ unstaged > 0 /\ Fault
  /\ unstaged' = unstaged - 1
  /\ forgotten' = TRUE
  /\ UNCHANGED <<members, changes, admin, outside, row, desired, intents, ops, lane, jobs, calls, restarts>>

AdminLeaves ==
  /\ admin /\ Requests # {}
  /\ admin' = FALSE
  /\ UNCHANGED <<members, changes, unstaged, forgotten, outside, row, desired, intents, ops, lane, jobs,
                 calls, limits>>

\* requestPlanTransition; a repeated request only reads.
RequestPlan(r) ==
  /\ ops[r] = "none" /\ admin /\ row.product # Wants[r]
  /\ ops' = [q \in Requests |-> IF q = r THEN "queued"
                                ELSE IF ops[q] \in Live THEN "superseded" ELSE ops[q]]
  /\ Enqueue(Staged("plan", r, Wants[r], Quantity(Wants[r])).row, jobs, "queued")
  /\ UNCHANGED <<team, outside, row, lane, calls, limits>>

-----------------------------------------------------------------------------
(* performDesired: one attempt of a generation *)

LaneIsHeld == lane.holder # 0 /\ ~lane.expired
FreeLane == [holder |-> 0, expired |-> FALSE]
LaneWithout(c) == IF lane.holder = c THEN FreeLane ELSE lane

\* The Jobs with generation g in the given state.
Ended(g, state) == [jobs EXCEPT ![g].state = state]

\* A failed attempt is tried again, or its exhaustion is settled first.
AfterError(g, retryable, busy) ==
  [jobs EXCEPT ![g].busy = busy,
               ![g].state = IF jobs[g].attempts >= MaxAttempts THEN "settling"
                            ELSE IF retryable THEN "queued" ELSE "failed"]

IsCurrent(g) ==
  /\ desired # NoDesired /\ desired.intent = jobs[g].intent /\ desired.kind = jobs[g].kind
  /\ desired.gen = g /\ desired.status \in Live

Attempt(g) ==
  /\ jobs[g].state = "queued"
  /\ jobs' = [jobs EXCEPT ![g].attempts = @ + 1, ![g].state = "running"]
  /\ UNCHANGED <<team, outside, row, desired, intents, ops, lane, calls, limits>>

\* The attempt's transaction is still to run: none of its calls is in flight.
Performing(g) ==
  jobs[g].state = "running" /\ ~\E c \in DOMAIN calls : calls[c].gen = g /\ calls[c].worker = "waiting"

Acts(g) == IsCurrent(g) /\ (desired.kind = "seats" => row.product = "team")

Superseded(g) ==
  /\ Performing(g) /\ ~Acts(g)
  /\ jobs' = Ended(g, "done")
  /\ UNCHANGED <<team, outside, row, desired, intents, ops, lane, calls, limits>>

AuthorityChanged(g) ==
  /\ Performing(g) /\ Acts(g) /\ desired.kind = "plan" /\ ~admin
  /\ desired' = [desired EXCEPT !.status = "attention"]
  /\ ops' = OperationOf(desired, "failed")
  /\ jobs' = AfterError(g, FALSE, FALSE)
  /\ UNCHANGED <<team, outside, row, intents, lane, calls, limits>>

Authorized(g) == Performing(g) /\ Acts(g) /\ (desired.kind = "plan" => admin)

\* The target moved on since it was staged: a new intent takes over.
IsStale == desired.quantity # Quantity(desired.product)

Retarget(g) ==
  /\ Authorized(g) /\ IsStale
  /\ Enqueue(Staged(desired.kind, desired.op, desired.product, Quantity(desired.product)).row,
             Ended(g, "done"), "queued")
  /\ UNCHANGED <<team, outside, row, ops, lane, calls, limits>>

LaneBusy(g) ==
  /\ Authorized(g) /\ ~IsStale /\ LaneIsHeld
  /\ jobs' = AfterError(g, TRUE, TRUE)
  /\ UNCHANGED <<team, outside, row, desired, intents, ops, lane, calls, limits>>

Send(g) ==
  /\ Authorized(g) /\ ~IsStale /\ ~LaneIsHeld /\ Len(calls) < MaxCalls
  /\ lane' = [holder |-> Len(calls) + 1, expired |-> FALSE]
  /\ desired' = [desired EXCEPT !.status = "running"]
  /\ calls' = Append(calls, [gen |-> g, desired |-> desired, source |-> row.product,
                             worker |-> "waiting", request |-> "sent"])
  /\ UNCHANGED <<team, outside, row, intents, ops, jobs, limits>>

\* releaseAfterFailure: only the generation that failed writes its status.
Release(c, status) ==
  LET d == calls[c].desired
      mine == desired # NoDesired /\ desired.intent = d.intent /\ desired.gen = d.gen
  IN /\ lane' = LaneWithout(c)
     /\ desired' = IF mine THEN [desired EXCEPT !.status = status] ELSE desired
     /\ ops' = IF mine /\ status = "failed" THEN OperationOf(desired, "failed") ELSE ops
     /\ UNCHANGED intents

\* The call fails: refused, unreachable, or its answer is lost.
CallFails(c) ==
  LET g == calls[c].gen IN
  \E retryable \in BOOLEAN, request \in {"dropped"} \union (IF LateWrites THEN {"sent"} ELSE {}) :
    /\ calls[c].worker = "waiting"
    /\ IF calls[c].request = "rejected" THEN ~retryable /\ UNCHANGED faults ELSE Fault
    /\ calls' = [calls EXCEPT ![c].worker = "gone",
                              ![c].request = IF @ = "sent" THEN request ELSE @]
    /\ Release(c, IF retryable THEN "queued" ELSE "failed")
    /\ jobs' = AfterError(g, retryable, FALSE)
    /\ UNCHANGED <<team, outside, row, restarts>>

PaymentActionRequired(c) ==
  /\ calls[c].worker = "waiting" /\ calls[c].request = "answered"
  /\ answers[calls[c].desired.intent] = "payment"
  /\ calls' = [calls EXCEPT ![c].worker = "gone"]
  /\ Release(c, "failed")
  /\ jobs' = Ended(calls[c].gen, "done")
  /\ UNCHANGED <<team, outside, row, limits>>

Acknowledge(c) ==
  LET d == calls[c].desired
      mine == /\ lane.holder = c /\ desired # NoDesired /\ desired.intent = d.intent
              /\ desired.gen = d.gen /\ desired.op = d.op /\ desired.status = "running"
  IN /\ calls[c].worker = "waiting" /\ calls[c].request = "answered"
     /\ answers[d.intent] = "ack"
     /\ calls' = [calls EXCEPT ![c].worker = "gone"]
     /\ lane' = LaneWithout(c)
     /\ desired' = IF mine THEN [desired EXCEPT !.status = "awaiting"] ELSE desired
     /\ ops' = IF mine THEN OperationOf(desired, "awaiting") ELSE ops
     /\ jobs' = Ended(calls[c].gen, "done")
     /\ UNCHANGED <<team, outside, row, intents, limits>>

-----------------------------------------------------------------------------
(* settleExhaustedTeamBillingManagementJob, after the last attempt's error or in the   *)
(* transaction of lease recovery                                                       *)

SettleExhausted(g, busy) ==
  LET mine == desired # NoDesired /\ desired.intent = jobs[g].intent /\ desired.gen = g
              /\ desired.status # "awaiting"
      queue == Ended(g, "failed")
  IN CASE mine /\ LaneIsHeld -> Enqueue(desired, queue, "delayed") /\ UNCHANGED ops
       [] mine /\ ~LaneIsHeld /\ busy -> Enqueue(desired, queue, "queued") /\ UNCHANGED ops
       [] mine /\ ~LaneIsHeld /\ ~busy /\ desired.status \in {"queued", "running"} ->
            /\ desired' = [desired EXCEPT !.status = "failed"]
            /\ ops' = OperationOf(desired, "failed")
            /\ jobs' = queue /\ UNCHANGED intents
       [] OTHER -> jobs' = queue /\ UNCHANGED <<desired, intents, ops>>

Exhausted(g) ==
  /\ jobs[g].state = "settling"
  /\ SettleExhausted(g, jobs[g].busy)
  /\ UNCHANGED <<team, outside, row, lane, calls, limits>>

\* A generation delayed to the end of a claim becomes due.
Due(g) ==
  /\ jobs[g].state = "delayed" /\ ~LaneIsHeld
  /\ jobs' = Ended(g, "queued")
  /\ UNCHANGED <<team, outside, row, desired, intents, ops, lane, calls, limits>>

RecoverLease(g) ==
  /\ jobs[g].state = "orphaned"
  /\ IF jobs[g].attempts < MaxAttempts
     THEN jobs' = Ended(g, "queued") /\ UNCHANGED <<desired, intents, ops>>
     ELSE SettleExhausted(g, FALSE)
  /\ UNCHANGED <<team, outside, row, lane, calls, limits>>

\* The claim of a worker that is gone ends after five minutes.
ClaimExpires ==
  /\ LaneIsHeld /\ calls[lane.holder].worker = "gone"
  /\ lane' = [lane EXCEPT !.expired = TRUE]
  /\ UNCHANGED <<team, outside, row, desired, intents, ops, jobs, calls, limits>>

-----------------------------------------------------------------------------
(* Stripe *)

\* updateManagedSubscription: the item must carry the source or the target price; the
\* answer to a known idempotency key is repeated and changes nothing.
Arrives(c) ==
  LET d == calls[c].desired
      changed == <<d.product, d.quantity>> # <<stripe.product, stripe.quantity>>
      item == [product |-> d.product, quantity |-> d.quantity, at |-> stripe.at + 1]
  IN /\ calls[c].request = "sent"
     /\ \/ /\ stripe.product \notin {calls[c].source, d.product}
           /\ calls' = [calls EXCEPT ![c].request = "rejected"]
           /\ UNCHANGED <<outside, faults>>
        \/ /\ stripe.product \in {calls[c].source, d.product} /\ answers[d.intent] # "none"
           /\ calls' = [calls EXCEPT ![c].request = "answered"]
           /\ UNCHANGED <<outside, faults>>
        \/ /\ stripe.product \in {calls[c].source, d.product} /\ answers[d.intent] = "none"
           /\ calls' = [calls EXCEPT ![c].request = "answered"]
           /\ answers' = [answers EXCEPT ![d.intent] = "ack"]
           /\ IF changed THEN stripe' = item /\ wire' = wire \union {item} ELSE UNCHANGED <<stripe, wire>>
           /\ UNCHANGED faults
        \/ /\ stripe.product \in {calls[c].source, d.product} /\ answers[d.intent] = "none"
           /\ changed /\ Fault
           /\ calls' = [calls EXCEPT ![c].request = "answered"]
           /\ answers' = [answers EXCEPT ![d.intent] = "payment"]
           /\ UNCHANGED <<stripe, wire>>
     /\ UNCHANGED <<team, row, desired, intents, ops, lane, jobs, restarts>>

\* Mutant: evidence settles its target without counting the members again.
SettleUncounted(e) ==
  IF desired # NoDesired /\ <<desired.product, desired.quantity>> = <<e.product, e.quantity>>
  THEN /\ desired' = NoDesired /\ lane' = FreeLane
       /\ ops' = OperationOf(desired, "completed") /\ UNCHANGED <<intents, jobs>>
  ELSE KeepDesired /\ UNCHANGED <<ops, lane>>

\* settleVerifiedTeamBillingTarget
Settle(e) ==
  LET matches == desired # NoDesired /\ <<desired.product, desired.quantity>> = <<e.product, e.quantity>>
      moved == e.product = "team" /\ e.quantity # members
  IN CASE matches /\ moved ->
            /\ Enqueue(Staged("seats", NoOperation, e.product, members).row, jobs, "queued")
            /\ ops' = OperationOf(desired, "completed") /\ UNCHANGED lane
       [] matches /\ ~moved ->
            /\ desired' = NoDesired /\ lane' = FreeLane
            /\ ops' = OperationOf(desired, "completed") /\ UNCHANGED <<intents, jobs>>
       [] ~matches /\ desired # NoDesired /\ desired.status = "awaiting" ->
            Enqueue([desired EXCEPT !.status = "queued"], jobs, "queued") /\ UNCHANGED <<ops, lane>>
       [] OTHER -> KeepDesired /\ UNCHANGED <<ops, lane>>

\* applySubscription within one period: an older snapshot is ignored.
Deliver(e) ==
  /\ e \in wire
  /\ wire' = wire \ {e}
  /\ IF e.at > row.at THEN row' = e /\ Settle(e)
     ELSE KeepDesired /\ UNCHANGED <<row, ops, lane>>
  /\ UNCHANGED <<team, stripe, answers, calls, limits>>

-----------------------------------------------------------------------------
(* The runtime dies and starts again: repairTeamBillingDesiredState *)

Repair(queue) ==
  LET reached == desired # NoDesired /\ <<desired.product, desired.quantity>> = <<row.product, row.quantity>>
  IN CASE reached /\ Drifted -> StageSeats(queue) /\ UNCHANGED ops
       [] reached /\ ~Drifted ->
            /\ desired' = NoDesired /\ ops' = OperationOf(desired, "completed")
            /\ jobs' = queue /\ UNCHANGED intents
       [] ~reached /\ desired # NoDesired ->
            Enqueue([desired EXCEPT !.status = "queued"], queue, "queued") /\ UNCHANGED ops
       [] desired = NoDesired /\ Drifted -> StageSeats(queue) /\ UNCHANGED ops
       [] OTHER -> jobs' = queue /\ UNCHANGED <<desired, intents, ops>>

Restart ==
  /\ restarts < MaxRestarts
  /\ restarts' = restarts + 1
  /\ Repair([g \in DOMAIN jobs |->
       IF jobs[g].state \in {"running", "settling"} THEN [jobs[g] EXCEPT !.state = "orphaned"] ELSE jobs[g]])
  /\ calls' = [c \in DOMAIN calls |->
       [calls[c] EXCEPT !.worker = "gone",
                        !.request = IF @ = "sent" /\ ~LateWrites THEN "dropped" ELSE @]]
  /\ unstaged' = 0 /\ forgotten' = FALSE
  /\ UNCHANGED <<members, changes, admin, outside, row, lane, faults>>

-----------------------------------------------------------------------------
Init ==
  /\ members = 1 /\ changes = 0 /\ unstaged = 0 /\ forgotten = FALSE /\ admin = TRUE
  /\ stripe = [product |-> InitialProduct, quantity |-> 1, at |-> 0]
  /\ row = stripe /\ wire = {}
  /\ answers = [i \in 1..MaxIntents |-> "none"]
  /\ desired = NoDesired /\ intents = 0
  /\ ops = [r \in Requests |-> "none"]
  /\ lane = FreeLane /\ jobs = <<>> /\ calls = <<>>
  /\ faults = 0 /\ restarts = 0

JobStep(g) ==
  \/ Attempt(g) \/ Superseded(g) \/ AuthorityChanged(g) \/ Retarget(g) \/ LaneBusy(g) \/ Send(g)
  \/ Exhausted(g) \/ Due(g) \/ RecoverLease(g)

CallEnds(c) == PaymentActionRequired(c) \/ Acknowledge(c) \/ (calls[c].request = "rejected" /\ CallFails(c))

Next ==
  \/ MembershipChanges \/ StageMembershipChange \/ StagingFails \/ AdminLeaves
  \/ \E r \in Requests : RequestPlan(r)
  \/ \E g \in DOMAIN jobs : JobStep(g)
  \/ \E c \in DOMAIN calls : Arrives(c) \/ CallFails(c) \/ PaymentActionRequired(c) \/ Acknowledge(c)
  \/ ClaimExpires
  \/ \E e \in wire : Deliver(e)
  \/ Restart

Spec == Init /\ [][Next]_vars

-----------------------------------------------------------------------------
TypeOK ==
  /\ members \in 1..MaxMembers /\ changes \in 0..MaxChanges /\ unstaged \in 0..MaxChanges
  /\ forgotten \in BOOLEAN /\ admin \in BOOLEAN
  /\ stripe \in Items /\ row \in Items /\ wire \subseteq Items
  /\ answers \in [1..MaxIntents -> {"none", "ack", "payment"}]
  /\ desired \in DesiredRows \union {NoDesired} /\ intents \in 0..MaxIntents
  /\ ops \in [Requests -> {"none", "queued", "awaiting", "completed", "failed", "superseded"}]
  /\ lane \in [holder : 0..Len(calls), expired : BOOLEAN]
  /\ jobs \in Seq(Jobs) /\ calls \in Seq(Calls)
  /\ faults \in 0..MaxFaults /\ restarts \in 0..MaxRestarts

\* Writes under way that Stripe would not answer from its memory of their key.
InFlight ==
  {c \in DOMAIN calls : /\ calls[c].worker = "waiting" /\ calls[c].request = "sent"
                        /\ answers[calls[c].desired.intent] = "none"}

\* Two workers never have a write to one Team's Subscription under way at the same time
\* (claimLane, releaseLane and the settlement that clears the lane).
OneProviderWrite == \A c, d \in InFlight : c = d

Pending(g) == jobs[g].state \notin {"done", "failed"}
Newer == {e \in wire : e.at > row.at}

\* A Subscription that differs from the Team's size is never forgotten: a staging is
\* still to run or is known to have failed, evidence is on its way, the desired row has
\* a generation that will act on it, or the row shows the Team that it needs attention.
DriftIsCovered ==
  (Drifted /\ unstaged = 0 /\ ~forgotten) =>
    \/ Newer # {}
    \/ desired # NoDesired /\ desired.status \in Live /\ Pending(desired.gen)
    \/ desired # NoDesired /\ desired.kind = "seats" /\ desired.status \in {"failed", "attention"}

\* While a row waits for evidence, Stripe carries its target or news of it is coming.
AwaitedIsComing ==
  (desired # NoDesired /\ desired.status = "awaiting") =>
    \/ Newer # {}
    \/ <<stripe.product, stripe.quantity>> = <<desired.product, desired.quantity>>

\* A plan request that is not over is the one that the desired row belongs to, so a
\* client never waits for an operation that nothing works on.
OperationsAreWorkedOn ==
  \A r \in Requests : ops[r] \in Live =>
    /\ desired # NoDesired /\ desired.op = r
    /\ desired.status = "awaiting" \/ Pending(desired.gen)

\* A worker whose target was replaced changes nothing of the newer one.
StaleWorkersAreHarmless ==
  \A c \in DOMAIN calls :
    (calls[c].worker = "waiting" /\ calls'[c].worker = "gone" /\ restarts' = restarts
     /\ desired # NoDesired /\ desired.gen # calls[c].gen) => UNCHANGED <<desired, ops>>

\* Once the Team is left alone, Stripe and the row follow its size, or the failure shows.
SeatsConverge ==
  <>[](\/ stripe.quantity = members /\ row.quantity = members /\ desired = NoDesired
       \/ desired # NoDesired /\ desired.status \in {"failed", "attention"}
       \/ forgotten \/ row.product = "fixed")
=============================================================================
