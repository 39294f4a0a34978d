------------------------- MODULE PayloadFactories --------------------------
(***************************************************************************)
(* Evaluation of the payload factories of Schedules: resolveSchedulePayload *)
(* in src/jobs-runtime.ts.  Calls of one Schedule take turns in a lane (a  *)
(* chain of promises); across Schedules a fixed number of slots is shared,  *)
(* handed over first come, first served.  A call can be aborted by         *)
(* shutdown while it waits for its lane, for a slot, or runs.              *)
(***************************************************************************)
EXTENDS Naturals, FiniteSets, Sequences

CONSTANTS
  Calls,      \* evaluations, one for each claimed occurrence
  Schedules,
  ScheduleOf, \* ScheduleOf[c]: the Schedule whose factory c evaluates
  Slots,      \* evaluations that may run at once (4 in the code)
  NoCall

PayloadFactoriesAssumption ==
  /\ IsFiniteSet(Calls) /\ NoCall \notin Calls
  /\ ScheduleOf \in [Calls -> Schedules]
  /\ Slots \in Nat \ {0}

VARIABLES
  stage,    \* stage[c]: where the call is in resolveSchedulePayload
  aborted,  \* calls whose controller is aborted
  lane,     \* schedulePayloadFactoryLanes: the last call to enter each lane, or NoCall
  before,   \* before[c]: the call whose turn c awaits, or NoCall
  unlocked, \* calls that have released their lane
  active,   \* schedulePayloadFactoryActive
  waiters,  \* schedulePayloadFactoryWaiters
  holding,  \* calls with a slot to release
  stopped,  \* __scheduleStopped
  swept     \* abortSchedulePayloadFactories has run

vars == <<stage, aborted, lane, before, unlocked, active, waiters, holding, stopped, swept>>

Stages == {"new", "lane", "queued", "granted", "running", "failing", "ended"}
Registered(c) == stage[c] \notin {"new", "ended"}
Refused(c) == c \in aborted \/ stopped

At(c, from, to) == stage[c] = from /\ stage' = [stage EXCEPT ![c] = to]

-----------------------------------------------------------------------------
\* The call registers its controller and takes its place in the lane.
Call(c) ==
  /\ At(c, "new", "lane")
  /\ before' = [before EXCEPT ![c] = lane[ScheduleOf[c]]]
  /\ lane' = [lane EXCEPT ![ScheduleOf[c]] = c]
  /\ UNCHANGED <<aborted, unlocked, active, waiters, holding, stopped, swept>>

LaneIsFree(c) == before[c] = NoCall \/ before[c] \in unlocked

SlotIsFree == active < Slots /\ waiters = <<>>

\* Its turn has come, but scheduling stopped or the call was aborted meanwhile.
RefuseInLane(c) ==
  /\ LaneIsFree(c) /\ Refused(c)
  /\ At(c, "lane", "failing")
  /\ UNCHANGED <<aborted, lane, before, unlocked, active, waiters, holding, stopped, swept>>

TakeSlot(c) ==
  /\ LaneIsFree(c) /\ ~Refused(c) /\ SlotIsFree
  /\ At(c, "lane", "granted")
  /\ active' = active + 1
  /\ holding' = holding \cup {c}
  /\ UNCHANGED <<aborted, lane, before, unlocked, waiters, stopped, swept>>

QueueForSlot(c) ==
  /\ LaneIsFree(c) /\ ~Refused(c) /\ ~SlotIsFree
  /\ At(c, "lane", "queued")
  /\ waiters' = Append(waiters, c)
  /\ UNCHANGED <<aborted, lane, before, unlocked, active, holding, stopped, swept>>

\* A granted call looks again before it calls the factory.
Start(c) ==
  /\ stage[c] = "granted"
  /\ stage' = [stage EXCEPT ![c] = IF Refused(c) THEN "failing" ELSE "running"]
  /\ UNCHANGED <<aborted, lane, before, unlocked, active, waiters, holding, stopped, swept>>

\* The factory throws, or its value is no payload; the failure is logged first.
FactoryFails(c) ==
  /\ At(c, "running", "failing")
  /\ UNCHANGED <<aborted, lane, before, unlocked, active, waiters, holding, stopped, swept>>

Timeout(c) ==
  /\ At(c, "running", "failing")
  /\ aborted' = aborted \cup {c}
  /\ UNCHANGED <<lane, before, unlocked, active, waiters, holding, stopped, swept>>

\* Mutant: the lane is reset although a later call has entered it.
ReleaseAnyLane(c, next) ==
  LET handed == c \in holding /\ waiters # <<>>
  IN /\ next = IF handed THEN [stage EXCEPT ![c] = "ended", ![Head(waiters)] = "granted"]
               ELSE [stage EXCEPT ![c] = "ended"]
     /\ waiters' = IF handed THEN Tail(waiters) ELSE waiters
     /\ active' = IF c \in holding /\ ~handed THEN active - 1 ELSE active
     /\ holding' = IF handed THEN (holding \ {c}) \cup {Head(waiters)} ELSE holding \ {c}
     /\ unlocked' = unlocked \cup {c}
     /\ lane' = [lane EXCEPT ![ScheduleOf[c]] = NoCall]
     /\ UNCHANGED <<aborted, before, stopped, swept>>

\* The slot goes to the longest waiting call, or becomes free; then the lane opens.
Release(c, next) ==
  LET handed == c \in holding /\ waiters # <<>>
  IN /\ next = IF handed THEN [stage EXCEPT ![c] = "ended", ![Head(waiters)] = "granted"]
               ELSE [stage EXCEPT ![c] = "ended"]
     /\ waiters' = IF handed THEN Tail(waiters) ELSE waiters
     /\ active' = IF c \in holding /\ ~handed THEN active - 1 ELSE active
     /\ holding' = IF handed THEN (holding \ {c}) \cup {Head(waiters)} ELSE holding \ {c}
     /\ unlocked' = unlocked \cup {c}
     /\ lane' = IF lane[ScheduleOf[c]] = c THEN [lane EXCEPT ![ScheduleOf[c]] = NoCall] ELSE lane
     /\ UNCHANGED <<aborted, before, stopped, swept>>

FactoryReturns(c) == stage[c] = "running" /\ Release(c, stage')

FailureLogged(c) == stage[c] = "failing" /\ Release(c, stage')

\* close() and shutdown() raise the flag first and abort the factories later.
Stop ==
  /\ ~stopped /\ stopped' = TRUE
  /\ UNCHANGED <<stage, aborted, lane, before, unlocked, active, waiters, holding, swept>>

\* Every registered controller aborts: a queued call leaves the queue, a running
\* one loses its race, one that was just granted its slot finds out in Start.
AbortFactories ==
  /\ stopped /\ ~swept /\ swept' = TRUE
  /\ aborted' = aborted \cup {c \in Calls : Registered(c)}
  /\ stage' = [c \in Calls |-> IF stage[c] \in {"queued", "running"} THEN "failing" ELSE stage[c]]
  /\ waiters' = <<>>
  /\ UNCHANGED <<lane, before, unlocked, active, holding, stopped>>

-----------------------------------------------------------------------------
Init ==
  /\ stage = [c \in Calls |-> "new"]
  /\ aborted = {} /\ unlocked = {} /\ holding = {}
  /\ lane = [s \in Schedules |-> NoCall]
  /\ before = [c \in Calls |-> NoCall]
  /\ active = 0 /\ waiters = <<>>
  /\ stopped = FALSE /\ swept = FALSE

Advance(c) ==
  \/ RefuseInLane(c) \/ TakeSlot(c) \/ QueueForSlot(c)
  \/ Start(c) \/ FailureLogged(c)

Next ==
  \/ \E c \in Calls : Call(c) \/ Advance(c) \/ FactoryReturns(c) \/ FactoryFails(c) \/ Timeout(c)
  \/ Stop \/ AbortFactories

Spec == Init /\ [][Next]_vars

-----------------------------------------------------------------------------
(* Properties. *)

TypeOK ==
  /\ stage \in [Calls -> Stages]
  /\ aborted \subseteq Calls /\ unlocked \subseteq Calls /\ holding \subseteq Calls
  /\ lane \in [Schedules -> Calls \cup {NoCall}]
  /\ before \in [Calls -> Calls \cup {NoCall}]
  /\ active \in 0..Slots
  /\ waiters \in Seq(Calls)
  /\ stopped \in BOOLEAN /\ swept \in BOOLEAN

\* No slot is lost or invented: the count is the number of calls with a slot to
\* release, through hand-overs, refusals after the grant, timeouts and aborts.
SlotsAreConserved == active = Cardinality(holding) /\ active <= Slots

\* A slot is never idle while a call waits for one.
NoIdleSlot == waiters # <<>> => active = Slots

\* The waiting calls are exactly those that can still be granted a slot, each once.
WaitersAreQueued ==
  /\ \A c \in Calls : stage[c] = "queued" <=> \E i \in 1..Len(waiters) : waiters[i] = c
  /\ \A i, j \in 1..Len(waiters) : waiters[i] = waiters[j] => i = j

\* Within a Schedule the factory runs for one occurrence at a time, in the order
\* the occurrences came, whatever ends the ones before.
InLane(c) == stage[c] \in {"queued", "granted", "running"}
OneAtATimeInOrder ==
  \A c, d \in Calls :
    (c # d /\ ScheduleOf[c] = ScheduleOf[d] /\ InLane(c)) =>
      ~InLane(d) /\ (before[c] = d => stage[d] = "ended")

\* The slots and the lanes, as long as nothing is lost, are a fair queue of the calls.
FactoriesTakeTurns == SlotsAreConserved /\ NoIdleSlot /\ WaitersAreQueued /\ OneAtATimeInOrder

\* Every evaluation ends: a factory that never settles, or that shutdown aborts
\* anywhere on its way, frees its slot and its lane.
EveryCallEnds == <>[](\A c \in Calls : ~Registered(c))
=============================================================================
