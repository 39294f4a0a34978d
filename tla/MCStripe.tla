------------------------------- MODULE MCStripe ------------------------------
(***************************************************************************)
(* Stripe for TLC: TeamBillingEvents, TeamBillingSeats and                 *)
(* StripePayloadRetention.  They have no state in common here, so a        *)
(* behaviour moves one of them in one of its instances, which `part`       *)
(* names, and leaves the others as they started; every other interleaving  *)
(* would be a stutter of one of these.  The properties of                  *)
(* TeamBillingEvents are checked as they stand there.                      *)
(***************************************************************************)
EXTENDS TeamBillingEvents

CONSTANTS p1, p2,              \* plan requests
          n1, n2,              \* runtimes
          Seats, Plans, FairSeats, \* the constants of TeamBillingSeats, in three cases
          Runtimes2, FairRuntime, Pages, Replies, \* those of StripePayloadRetention, in four
          NoDesired, NoOperation, Unassigned, Sentinel, Bad

VARIABLES part, faults, restarts,
          size, changes, unstaged, forgotten, admin, account, answers, wire, shown, desired,
          intents, ops, lane, jobs, calls,
          now, rows, cursor, pass, timer, requested, notices

seatsVars ==
  <<size, changes, unstaged, forgotten, admin, account, answers, wire, shown, desired,
    intents, ops, lane, jobs, calls>>
retentionVars == <<now, rows, cursor, pass, timer, requested, notices>>
seats == <<seatsVars, faults, restarts>>
retention == <<retentionVars, faults, restarts>>
allVars == <<part, faults, restarts, vars, seatsVars, retentionVars>>

-----------------------------------------------------------------------------
(* Four events; three, where a failed payment may overtake the first one.    *)
InOrder == INSTANCE TeamBillingEvents WITH EarlyInvoices <- FALSE

(* A Team that grows twice; one whose plan is requested twice, where given   *)
(* up writes may still arrive; one that grows twice, and fair.               *)
Growing ==
  [members |-> 3, changes |-> 2, mayLeave |-> FALSE, requests |-> {}, wants |-> <<>>, product |-> "team",
   intents |-> 3, jobs |-> 3, calls |-> 3, faults |-> 1, restarts |-> 1, lateWrites |-> FALSE]
Requesting ==
  [Growing EXCEPT !.members = 2, !.changes = 1, !.requests = {p1, p2},
                  !.wants = [r \in {p1, p2} |-> "team"], !.product = "fixed",
                  !.calls = 2, !.restarts = 0, !.lateWrites = TRUE]
GrowingFairly == [Growing EXCEPT !.jobs = 7, !.calls = 6, !.faults = 0]

(* Two runtimes; one, and fair; one that pages through two unreadable rows;  *)
(* one that loses the reply of a settlement and is overtaken by another.     *)
TwoRuntimes ==
  [runtimes |-> {n1, n2}, pending |-> {1}, older |-> {}, unreadable |-> {2}, batch |-> 1,
   retention |-> 1, recheck |-> 1, time |-> 1, repairs |-> 1, faults |-> 0, restarts |-> 0,
   overtaken |-> FALSE, losesReplies |-> FALSE]
OneRuntime ==
  [TwoRuntimes EXCEPT !.runtimes = {n1}, !.time = 3, !.repairs = 3, !.faults = 1, !.restarts = 1]
TwoPages == [TwoRuntimes EXCEPT !.runtimes = {n1}, !.pending = {}, !.unreadable = {1, 2}, !.time = 6]
LostReplies ==
  [TwoRuntimes EXCEPT !.runtimes = {n1}, !.pending = {2}, !.unreadable = {1}, !.time = 4,
                      !.faults = 1, !.overtaken = TRUE, !.losesReplies = TRUE]

Billing(b) == INSTANCE TeamBillingSeats WITH
  members <- size, stripe <- account, row <- shown,
  MaxMembers <- b.members, MaxChanges <- b.changes, MayLeave <- b.mayLeave,
  Requests <- b.requests, Wants <- b.wants, InitialProduct <- b.product,
  MaxIntents <- b.intents, MaxJobs <- b.jobs, MaxCalls <- b.calls,
  MaxFaults <- b.faults, MaxRestarts <- b.restarts, LateWrites <- b.lateWrites

Store(s) == INSTANCE StripePayloadRetention WITH
  Runtimes <- s.runtimes, Pending <- s.pending, Older <- s.older, Unreadable <- s.unreadable,
  BatchSize <- s.batch, Retention <- s.retention, Recheck <- s.recheck, MaxTime <- s.time,
  RepairsUntil <- s.repairs, MaxFaults <- s.faults, MaxRestarts <- s.restarts,
  Overtaken <- s.overtaken, LosesReplies <- s.losesReplies

\* The Team of a part that is billed by its size only: it grows, and what was given up
\* does not arrive.
OnlyGrows(b) == b.requests = {} /\ b.product = "team" /\ ~b.mayLeave /\ ~b.lateWrites

ASSUME BillingAssumption ==
  /\ \A b \in {Seats, Plans, FairSeats} : Billing(b)!TeamBillingSeatsAssumption
  /\ OnlyGrows(Seats) /\ OnlyGrows(FairSeats)
ASSUME StoreAssumption ==
  /\ \A s \in {Runtimes2, FairRuntime, Pages, Replies} : Store(s)!StripePayloadRetentionAssumption
  /\ \A s \in {Runtimes2, FairRuntime} : ~s.overtaken /\ ~s.losesReplies

PartsInit ==
  \/ /\ part \in {"events", "early events"}
     /\ Billing(Seats)!Init /\ Store(FairRuntime)!Init
  \/ part = "seats" /\ Billing(Seats)!Init /\ Store(FairRuntime)!Init
  \/ part = "plans" /\ Billing(Plans)!Init /\ Store(FairRuntime)!Init
  \/ part = "fair seats" /\ Billing(FairSeats)!Init /\ Store(FairRuntime)!Init
  \/ part = "two runtimes" /\ Billing(Seats)!Init /\ Store(Runtimes2)!Init
  \/ part = "fair runtime" /\ Billing(Seats)!Init /\ Store(FairRuntime)!Init
  \/ part = "pages" /\ Billing(Seats)!Init /\ Store(Pages)!Init
  \/ part = "replies" /\ Billing(Seats)!Init /\ Store(Replies)!Init

MCInit == Init /\ PartsInit

EventsMove == UNCHANGED <<part, faults, restarts, seatsVars, retentionVars>>
SeatsMove == UNCHANGED <<part, vars, retentionVars>>
RetentionMoves == UNCHANGED <<part, vars, seatsVars>>

MCNext ==
  \/ part = "events" /\ InOrder!Next /\ EventsMove
  \/ part = "early events" /\ Next /\ Len(sent') <= 3 /\ EventsMove
  \/ part = "seats" /\ Billing(Seats)!Next /\ SeatsMove
  \/ part = "plans" /\ Billing(Plans)!Next /\ SeatsMove
  \/ part = "fair seats" /\ Billing(FairSeats)!Next /\ SeatsMove
  \/ part = "two runtimes" /\ Store(Runtimes2)!Next /\ RetentionMoves
  \/ part = "fair runtime" /\ Store(FairRuntime)!Next /\ RetentionMoves
  \/ part = "pages" /\ Store(Pages)!Next /\ RetentionMoves
  \/ part = "replies" /\ Store(Replies)!Next /\ RetentionMoves

(* Job workers and timers run, Stripe answers and delivers its events: one   *)
(* step of these or another, as long as there is one.                        *)
SeatsAreFair ==
  WF_seats(/\ part = "fair seats"
           /\ \/ Billing(FairSeats)!StageMembershipChange \/ Billing(FairSeats)!ClaimExpires
              \/ \E g \in DOMAIN jobs : Billing(FairSeats)!JobStep(g)
              \/ \E c \in DOMAIN calls : Billing(FairSeats)!Arrives(c) \/ Billing(FairSeats)!CallEnds(c)
              \/ \E e \in wire : Billing(FairSeats)!Deliver(e))

(* Statements are answered, timers fire, continuations run and time goes on. *)
RetentionIsFair ==
  WF_retention(
    \/ /\ part = "fair runtime"
       /\ \/ Store(FairRuntime)!Statement(n1) \/ Store(FairRuntime)!TimerFires(n1) \/ Store(FairRuntime)!Tick
          \/ \E due \in notices[n1] : Store(FairRuntime)!Notice(n1, due)
    \/ part = "pages" /\ (Store(Pages)!Statement(n1) \/ Store(Pages)!TimerFires(n1) \/ Store(Pages)!Tick)
    \/ /\ part = "replies"
       /\ \/ Store(Replies)!Statement(n1) \/ Store(Replies)!TimerFires(n1) \/ Store(Replies)!Tick
          \/ \E due \in notices[n1] : Store(Replies)!Notice(n1, due))

MCSpec == MCInit /\ [][MCNext]_allVars /\ SeatsAreFair /\ RetentionIsFair

-----------------------------------------------------------------------------
(* The properties, each in the instances it speaks about.                    *)

\* Two workers never have a write to the Team's Subscription under way; one that differs
\* from the Team's size is never forgotten; while a row waits for evidence, Stripe carries
\* its target or news of it is coming; a plan request that is not over is worked on.  And
\* when all events are delivered no Team is shown as healthy whose Subscription is not.
NoTeamIsMisled ==
  /\ part = "events" => InOrder!NeverOverstated
  /\ part = "seats" => Billing(Seats)!TypeOK
  /\ part = "seats" => Billing(Seats)!OneProviderWrite /\ Billing(Seats)!DriftIsCovered /\ Billing(Seats)!AwaitedIsComing
  /\ part = "fair seats" => Billing(FairSeats)!DriftIsCovered /\ Billing(FairSeats)!AwaitedIsComing
  /\ part = "plans" => Billing(Plans)!OperationsAreWorkedOn

\* A deadline that was stored is kept by a pass, a timer or a settlement's notice, and rows
\* without one are looked at again, at once or within the recheck interval.
PayloadsAreKept ==
  /\ part = "two runtimes" => Store(Runtimes2)!TypeOK
  /\ part = "two runtimes" => Store(Runtimes2)!DeadlinesAreKept /\ Store(Runtimes2)!BacklogIsKept
  /\ part = "fair runtime" => Store(FairRuntime)!DeadlinesAreKept /\ Store(FairRuntime)!BacklogIsKept
  /\ part = "pages" => Store(Pages)!BacklogIsKept

\* A worker whose target was replaced changes nothing of the newer one, and no payload is
\* erased before its Job was settled for the whole retention period.  Once the Team is left
\* alone, Stripe and the row follow its size, or the failure shows; every payload whose
\* deadline has come is erased, a row that was repaired returns to ordinary retention, and
\* rows that cannot be given a deadline do not keep a runtime busy.
EverythingConverges ==
  /\ [][/\ part = "seats" => Billing(Seats)!StaleWorkersAreHarmless
        /\ part = "plans" => Billing(Plans)!StaleWorkersAreHarmless
        /\ part = "two runtimes" => Store(Runtimes2)!NeverEarly
        /\ part = "fair runtime" => Store(FairRuntime)!NeverEarly]_allVars
  /\ part = "fair seats" => Billing(FairSeats)!SeatsConverge
  /\ part = "fair runtime" => Store(FairRuntime)!DueIsRedacted /\ Store(FairRuntime)!PassesStop
  /\ part = "pages" => Store(Pages)!RepairIsFound
  /\ part = "replies" => Store(Replies)!RepairIsFound
=============================================================================
