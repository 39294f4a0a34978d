--------------------------- MODULE ScheduleProofs ---------------------------
(***************************************************************************)
(* The type invariant and the safety of ScheduleOccurrences, for any       *)
(* number of instants, runtimes and declarations, either missed-run        *)
(* policy, and any bounds: an occurrence has one Job exactly when its row  *)
(* says so, and Jobs are enqueued only under the declaration that is       *)
(* deployed.                                                               *)
(***************************************************************************)
EXTENDS ScheduleOccurrences, TLAPS


-----------------------------------------------------------------------------
(* What the helpers return.                                                *)

LEMMA LessIsTick ==
    /\ \A t \in {None} \cup Ticks : Less(t) \in {None} \cup Ticks
    /\ \A t \in 0..LeaseTicks : Less(t) \in 0..LeaseTicks
BY ScheduleAssumption DEF Less, None, Ticks

LEMMA SoonerIsTick ==
    ASSUME NEW s \in {None} \cup Ticks, NEW t \in {None} \cup Ticks
    PROVE  Sooner(s, t) \in {None} \cup Ticks
BY DEF Sooner

LEMMA SuccessorIsCursor ==
    ASSUME NEW o \in Occurrences
    PROVE  Successor(o) \in Cursors
BY ScheduleAssumption DEF Successor, Cursors, Occurrences

LEMMA RuntimeUpdates ==
    ASSUME NEW x \in RuntimeStates
    PROVE  /\ \A c \in Cursors : [x EXCEPT !.next = c] \in RuntimeStates
           /\ \A c \in Cursors : [x EXCEPT !.armed = c] \in RuntimeStates
           /\ \A t \in {None} \cup Ticks : [x EXCEPT !.wake = t] \in RuntimeStates
           /\ [x EXCEPT !.enabled = FALSE] \in RuntimeStates
BY DEF RuntimeStates

LEMMA ArmIsRuntime ==
    ASSUME NEW x \in RuntimeStates
    PROVE  Arm(x) \in RuntimeStates
<1> DEFINE c == IF Active(x) /\ x.enabled /\ x.next # None THEN x.next ELSE None
<1>1. c \in Cursors
  BY DEF RuntimeStates, Cursors
<1>2. Arm(x) = [x EXCEPT !.armed = c]
  BY DEF Arm
<1> HIDE DEF c
<1> QED BY <1>1, <1>2, RuntimeUpdates

LEMMA WakeIsRuntime ==
    ASSUME NEW x \in RuntimeStates, NEW t \in {None} \cup Ticks
    PROVE  WakeRecovery(x, t) \in RuntimeStates
BY RuntimeUpdates DEF WakeRecovery

LEMMA WorkerUpdates ==
    ASSUME NEW v \in WorkerStates
    PROVE  /\ \A p \in {"idle", "claim", "claimed", "failed", "scan", "next", "supersede"} :
                [v EXCEPT !.pc = p] \in WorkerStates
           /\ \A S \in SUBSET Entries : [v EXCEPT !.todo = S] \in WorkerStates
           /\ \A o \in Cursors : [v EXCEPT !.o = o] \in WorkerStates
           /\ \A a \in {"none", "scan", "next"} : [v EXCEPT !.after = a] \in WorkerStates
           /\ \A t \in {None} \cup Ticks : [v EXCEPT !.soonest = t] \in WorkerStates
BY DEF WorkerStates

LEMMA IdleIsWorker ==
    Idle \in WorkerStates /\ \A w \in Workers : Placed(Idle, w)
BY DEF Idle, WorkerStates, Placed, Cursors, None

LEMMA SettledIsRows ==
    ASSUME occ \in [Occurrences -> Rows], NEW o \in Occurrences, NEW outcome \in Terminal
    PROVE  /\ Settled(o, outcome) \in [Occurrences -> Rows]
           /\ Settled(o, outcome)[o].status = outcome
           /\ Settled(o, outcome)[o].gen = occ[o].gen
           /\ Settled(o, outcome)[o].def = occ[o].def
           /\ \A p \in Occurrences \ {o} : Settled(o, outcome)[p] = occ[p]
<1>1. [occ[o] EXCEPT !.status = outcome, !.token = NoClaim, !.left = 0] \in Rows
  <2>1. NoClaim \in Claims /\ 0 \in 0..LeaseTicks
    BY ScheduleAssumption DEF Claims
  <2>2. occ[o] \in Rows /\ outcome \in {"absent", "pending"} \cup Terminal
    OBVIOUS
  <2> HIDE DEF NoClaim, Terminal
  <2> QED BY <2>1, <2>2 DEF Rows, RowsOf
<1>2. Settled(o, outcome) =
        [occ EXCEPT ![o] = [occ[o] EXCEPT !.status = outcome, !.token = NoClaim, !.left = 0]]
  BY DEF Settled
<1>3. Settled(o, outcome)[o] = [occ[o] EXCEPT !.status = outcome, !.token = NoClaim, !.left = 0]
  BY <1>2
<1>4. /\ Settled(o, outcome)[o].status = outcome
      /\ Settled(o, outcome)[o].gen = occ[o].gen
      /\ Settled(o, outcome)[o].def = occ[o].def
  <2>1. occ[o] \in Rows
    OBVIOUS
  <2> QED BY <1>3, <2>1 DEF Rows, RowsOf
<1>5. Settled(o, outcome) \in [Occurrences -> Rows]
  BY <1>1, <1>2
<1>6. \A p \in Occurrences \ {o} : Settled(o, outcome)[p] = occ[p]
  BY <1>2
<1> QED BY <1>4, <1>5, <1>6

-----------------------------------------------------------------------------
(* What a step changes, and that it keeps its type.                        *)

WkOK == wk \in [Runtimes -> [Workers -> WorkerStates]]
PlacedOK == \A r \in Runtimes, w \in Workers : Placed(wk[r][w], w)

\* A worker is replaced by one of the right shape.
LEMMA WorkerMoves ==
    ASSUME WkOK, PlacedOK, NEW r \in Runtimes, NEW w \in Workers,
           NEW v \in WorkerStates, Placed(v, w),
           wk' = [wk EXCEPT ![r][w] = v]
    PROVE  WkOK' /\ PlacedOK'
<1>1. wk[r] \in [Workers -> WorkerStates]
  BY DEF WkOK
<1>2. [wk[r] EXCEPT ![w] = v] \in [Workers -> WorkerStates]
  BY <1>1
<1>3. wk' = [wk EXCEPT ![r] = [wk[r] EXCEPT ![w] = v]]
  BY DEF WkOK
<1>4. WkOK'
  BY <1>2, <1>3 DEF WkOK
<1>5. \A q \in Runtimes, u \in Workers :
        wk'[q][u] = IF q = r /\ u = w THEN v ELSE wk[q][u]
  BY <1>1, <1>3 DEF WkOK
<1>6. PlacedOK'
  BY <1>5 DEF PlacedOK
<1> QED BY <1>4, <1>6

\* Its place is changed, and nothing else of it.
LEMMA PcMoves ==
    ASSUME WkOK, PlacedOK, NEW r \in Runtimes, NEW w \in Workers,
           NEW p \in {"idle", "claim", "claimed", "failed", "scan", "next", "supersede"},
           p \notin {"idle", "scan"} => wk[r][w].pc \in {"claim", "claimed", "failed"},
           wk' = [wk EXCEPT ![r][w].pc = p]
    PROVE  WkOK' /\ PlacedOK'
<1>1. wk[r][w] \in WorkerStates
  BY DEF WkOK
<1> DEFINE v == [wk[r][w] EXCEPT !.pc = p]
<1>2. v \in WorkerStates
  BY <1>1, WorkerUpdates
<1>3. /\ v.pc = p
      /\ v.o = wk[r][w].o
      /\ v.after = wk[r][w].after
  BY <1>1 DEF WorkerStates
<1>4. Placed(v, w)
  BY <1>3 DEF PlacedOK, Placed
<1>5. wk' = [wk EXCEPT ![r][w] = v]
  BY DEF WkOK
<1> HIDE DEF v
<1> QED BY <1>2, <1>4, <1>5, WorkerMoves

\* A runtime is replaced by one of the right shape.
LEMMA RuntimeMoves ==
    ASSUME rt \in [Runtimes -> RuntimeStates], NEW r \in Runtimes,
           NEW x \in RuntimeStates, rt' = [rt EXCEPT ![r] = x]
    PROVE  rt' \in [Runtimes -> RuntimeStates]
OBVIOUS

LEMMA ResolveMoves ==
    ASSUME TypeOK, NEW r \in Runtimes, NEW w \in Workers, NEW x \in RuntimeStates,
           wk[r][w].pc \in {"claim", "claimed", "failed"}, Resolve(r, w, x)
    PROVE  rt' \in [Runtimes -> RuntimeStates] /\ WkOK' /\ PlacedOK'
<1>1. WkOK /\ PlacedOK /\ rt \in [Runtimes -> RuntimeStates]
  BY DEF TypeOK, WkOK, PlacedOK
<1>2. CASE w = "timer"
  <2>1. rt' = [rt EXCEPT ![r] = Arm(x)] /\ wk' = [wk EXCEPT ![r][w] = Idle]
    BY <1>2 DEF Resolve
  <2> QED BY <1>1, <2>1, ArmIsRuntime, RuntimeMoves, IdleIsWorker, WorkerMoves
<1>3. CASE w # "timer"
  <2>1. rt' = [rt EXCEPT ![r] = x] /\ wk' = [wk EXCEPT ![r][w].pc = wk[r][w].after]
    BY <1>3 DEF Resolve
  <2>2. w = "recovery"
    BY <1>3 DEF Workers
  <2>3. wk[r][w] \in WorkerStates /\ Placed(wk[r][w], w)
    BY <1>1 DEF WkOK, PlacedOK
  <2>4. wk[r][w].after \in {"scan", "next"}
    BY <2>2, <2>3 DEF Placed, WorkerStates
  <2> QED BY <1>1, <2>1, <2>4, RuntimeMoves, PcMoves
<1> QED BY <1>2, <1>3

LEMMA RejectMoves ==
    ASSUME TypeOK, NEW r \in Runtimes, NEW w \in Workers, NEW x \in RuntimeStates,
           Reject(r, w, x)
    PROVE  rt' \in [Runtimes -> RuntimeStates] /\ WkOK' /\ PlacedOK'
<1>1. WkOK /\ PlacedOK /\ rt \in [Runtimes -> RuntimeStates]
  BY DEF TypeOK, WkOK, PlacedOK
<1>2. RetryTicks \in {None} \cup Ticks
  BY ScheduleAssumption DEF Ticks
<1>3. WkOK' /\ PlacedOK'
  BY <1>1, IdleIsWorker, WorkerMoves DEF Reject
<1>4. rt' \in [Runtimes -> RuntimeStates]
  BY <1>1, <1>2, ArmIsRuntime, WakeIsRuntime, RuntimeMoves DEF Reject
<1> QED BY <1>3, <1>4

-----------------------------------------------------------------------------
(* Every action keeps TypeOK.                                              *)

LEMMA InitType == Init => TypeOK
<1> SUFFICES ASSUME Init PROVE TypeOK
  OBVIOUS
<1>1. Last \in Nat \ {0} /\ LeaseTicks \in Nat /\ MaxPublications \in Nat /\ MaxFaults \in Nat
  BY ScheduleAssumption
<1>2. NoRow \in Rows
  BY <1>1 DEF NoRow, Rows, RowsOf, Generations, Claims
<1>3. NoSchedule \in SchedRows
  BY <1>1 DEF NoSchedule, SchedRows, Generations, Cursors
<1>4. Down \in RuntimeStates
  BY <1>1 DEF Down, RuntimeStates, Generations, Cursors
<1>5. occ \in [Occurrences -> Rows] /\ jobs \in [Occurrences -> Nat]
  BY <1>2 DEF Init
<1>6. rt \in [Runtimes -> RuntimeStates]
  BY <1>4 DEF Init
<1>7. /\ wk \in [Runtimes -> [Workers -> WorkerStates]]
      /\ \A r \in Runtimes, w \in Workers : Placed(wk[r][w], w)
  BY IdleIsWorker DEF Init
<1> QED BY <1>1, <1>3, <1>5, <1>6, <1>7 DEF Init, TypeOK, Generations

LEMMA EntryAges ==
    ASSUME NEW e \in Entries
    PROVE  [e EXCEPT !.row.left = Less(@)] \in Entries
<1>1. e.row \in RowsOf({"pending"}) /\ e.row.left \in 0..LeaseTicks
  BY DEF Entries, RowsOf
<1>2. Less(e.row.left) \in 0..LeaseTicks
  BY <1>1, LessIsTick
<1> DEFINE x == [e.row EXCEPT !.left = Less(e.row.left)]
<1>3. x \in RowsOf({"pending"})
  BY <1>1, <1>2 DEF RowsOf
<1>4. [e EXCEPT !.row.left = Less(@)] = [e EXCEPT !.row = x]
  BY DEF Entries
<1> HIDE DEF x
<1> QED BY <1>3, <1>4 DEF Entries

LEMMA TickType == TypeOK /\ Tick => TypeOK'
<1> SUFFICES ASSUME TypeOK, Tick PROVE TypeOK'
  OBVIOUS
<1>1. now' \in 0..(Last + 1)
  <2>1. now \in 0..(Last + 1) /\ now' = IF now > Last THEN now ELSE now + 1
    BY DEF TypeOK, Tick
  <2> QED BY <2>1, ScheduleAssumption
<1>2. occ' \in [Occurrences -> Rows]
  <2>1. ASSUME NEW o \in Occurrences PROVE [occ[o] EXCEPT !.left = Less(@)] \in Rows
    <3>1. occ[o] \in Rows /\ occ[o].left \in 0..LeaseTicks
      BY DEF TypeOK, Rows, RowsOf
    <3>2. Less(occ[o].left) \in 0..LeaseTicks
      BY <3>1, LessIsTick
    <3> QED BY <3>1, <3>2 DEF Rows, RowsOf
  <2> QED BY <2>1 DEF Tick
<1>3. rt' \in [Runtimes -> RuntimeStates]
  <2>1. ASSUME NEW r \in Runtimes PROVE [rt[r] EXCEPT !.wake = Less(@)] \in RuntimeStates
    <3>1. rt[r] \in RuntimeStates /\ rt[r].wake \in {None} \cup Ticks
      BY DEF TypeOK, RuntimeStates
    <3>2. Less(rt[r].wake) \in {None} \cup Ticks
      BY <3>1, LessIsTick
    <3> QED BY <3>1, <3>2, RuntimeUpdates
  <2> QED BY <2>1 DEF Tick
<1>4. ASSUME NEW r \in Runtimes, NEW w \in Workers
      PROVE  wk'[r][w] \in WorkerStates /\ Placed(wk'[r][w], w)
  <2> DEFINE v == wk[r][w]
             S == {[e EXCEPT !.row.left = Less(@)] : e \in v.todo}
             x == [v EXCEPT !.soonest = Less(v.soonest), !.todo = S]
  <2>1. v \in WorkerStates /\ Placed(v, w)
    BY DEF TypeOK
  <2>2. v.todo \subseteq Entries /\ v.soonest \in {None} \cup Ticks
    BY <2>1 DEF WorkerStates
  <2>3. S \in SUBSET Entries
    BY <2>2, EntryAges
  <2>4. Less(v.soonest) \in {None} \cup Ticks
    BY <2>2, LessIsTick
  <2>5. wk'[r][w] = x
    BY <2>1 DEF Tick
  <2> HIDE DEF S
  <2>6. x \in WorkerStates /\ x.pc = v.pc /\ x.o = v.o /\ x.after = v.after
    BY <2>1, <2>3, <2>4 DEF WorkerStates
  <2> QED BY <2>1, <2>5, <2>6 DEF Placed
<1>5. wk' \in [Runtimes -> [Workers -> WorkerStates]]
  <2>1. wk' = [r \in Runtimes |-> [w \in Workers |-> wk'[r][w]]]
    BY DEF Tick
  <2> QED BY <1>4, <2>1
<1> QED BY <1>1, <1>2, <1>3, <1>4, <1>5 DEF TypeOK, Tick, history

\* The timers of a runtime.
LEMMA TimerType ==
    ASSUME TypeOK, NEW r \in Runtimes,
           TimerFires(r) \/ ChunkEnds(r) \/ RecoveryFires(r)
    PROVE  TypeOK'
<1>1. WkOK /\ PlacedOK /\ rt \in [Runtimes -> RuntimeStates] /\ rt[r] \in RuntimeStates
  BY DEF TypeOK, WkOK, PlacedOK
<1>2. None \in Cursors /\ None \in {None} \cup Ticks /\ "timer" \in Workers /\ "recovery" \in Workers
  BY DEF Cursors, Workers
<1>3. CASE TimerFires(r)
  <2> DEFINE v == [Idle EXCEPT !.pc = "claim", !.o = rt[r].armed]
  <2>1. rt[r].armed \in Occurrences
    BY <1>1, <1>3 DEF TimerFires, RuntimeStates, Cursors
  <2>2. v \in WorkerStates /\ Placed(v, "timer")
    BY <2>1, IdleIsWorker DEF Idle, WorkerStates, Placed, Cursors
  <2>3. wk' = [wk EXCEPT ![r]["timer"] = v]
    BY <1>3 DEF TimerFires
  <2> HIDE DEF v
  <2>4. WkOK' /\ PlacedOK'
    BY <1>1, <1>2, <2>2, <2>3, WorkerMoves
  <2>5. rt' \in [Runtimes -> RuntimeStates]
    <3>1. rt' = [rt EXCEPT ![r] = [rt[r] EXCEPT !.armed = None]]
      BY <1>1, <1>3 DEF TimerFires
    <3> QED BY <1>1, <1>2, <3>1, RuntimeUpdates
  <2> QED BY <1>3, <2>4, <2>5 DEF TimerFires, TypeOK, WkOK, PlacedOK, history
<1>4. CASE ChunkEnds(r)
  <2>1. rt' = [rt EXCEPT ![r] = Arm(rt[r])]
    BY <1>4 DEF ChunkEnds
  <2>2. rt' \in [Runtimes -> RuntimeStates]
    BY <1>1, <2>1, ArmIsRuntime
  <2> QED BY <1>4, <2>2 DEF ChunkEnds, TypeOK, history
<1>5. CASE RecoveryFires(r)
  <2>1. rt' \in [Runtimes -> RuntimeStates]
    <3>1. rt' = [rt EXCEPT ![r] = [rt[r] EXCEPT !.wake = None]]
      BY <1>1, <1>5 DEF RecoveryFires
    <3> QED BY <1>1, <1>2, <3>1, RuntimeUpdates
  <2>2. WkOK' /\ PlacedOK'
    <3>1. CASE Active(rt[r])
      BY <1>1, <1>2, <1>5, <3>1, PcMoves DEF RecoveryFires
    <3>2. CASE ~Active(rt[r])
      BY <1>1, <1>5, <3>2 DEF RecoveryFires, WkOK, PlacedOK
    <3> QED BY <3>1, <3>2
  <2> QED BY <1>5, <2>1, <2>2 DEF RecoveryFires, TypeOK, WkOK, PlacedOK, history
<1> QED BY <1>3, <1>4, <1>5

\* What an action on one occurrence may rely on.
LEMMA InHand ==
    ASSUME TypeOK, NEW r \in Runtimes, NEW w \in Workers,
           wk[r][w].pc \in {"claim", "claimed", "failed"}
    PROVE  /\ wk[r][w].o \in Occurrences
           /\ wk[r][w] \in WorkerStates
           /\ rt[r] \in RuntimeStates
           /\ Disabled(r) \in RuntimeStates
           /\ Advanced(r, w) \in RuntimeStates
<1>1. wk[r][w] \in WorkerStates /\ Placed(wk[r][w], w) /\ rt[r] \in RuntimeStates
  BY DEF TypeOK
<1>2. wk[r][w].o \in Occurrences
  BY <1>1 DEF Placed
<1> QED BY <1>1, <1>2, SuccessorIsCursor, RuntimeUpdates DEF Disabled, Advanced

LEMMA NotClaimedMoves ==
    ASSUME TypeOK, NEW r \in Runtimes, NEW w \in Workers, NEW x \in RuntimeStates,
           wk[r][w].pc = "claim", NotClaimed(r, w, x)
    PROVE  rt' \in [Runtimes -> RuntimeStates] /\ WkOK' /\ PlacedOK'
<1> DEFINE y == [x EXCEPT !.next = Successor(wk[r][w].o)]
<1>1. y \in RuntimeStates
  BY InHand, SuccessorIsCursor, RuntimeUpdates
<1>2. Resolve(r, w, y)
  BY DEF NotClaimed
<1> HIDE DEF y
<1> QED BY <1>1, <1>2, ResolveMoves

LEMMA ClaimType ==
    ASSUME TypeOK, NEW r \in Runtimes, NEW w \in Workers, Claim(r, w)
    PROVE  TypeOK'
<1> DEFINE o == wk[r][w].o
           mine == occ[o].gen = rt[r].gen
           pending == occ[o].status = "pending"
           take == [status |-> "pending", gen |-> rt[r].gen, def |-> sched.def,
                    token |-> <<r, w>>, left |-> LeaseTicks]
           Moved == rt' \in [Runtimes -> RuntimeStates] /\ WkOK' /\ PlacedOK'
           Kept == occ' \in [Occurrences -> Rows]
<1>1. /\ wk[r][w].pc = "claim"
      /\ WkOK /\ PlacedOK
      /\ occ \in [Occurrences -> Rows]
      /\ rt \in [Runtimes -> RuntimeStates]
  BY DEF Claim, TypeOK, WkOK, PlacedOK
<1>2. o \in Occurrences /\ rt[r] \in RuntimeStates /\ Disabled(r) \in RuntimeStates
  BY <1>1, InHand
<1>3. CASE ~Live(r) /\ NotClaimed(r, w, Disabled(r)) /\ UNCHANGED occ
  <2>1. Moved
    BY <1>1, <1>2, <1>3, NotClaimedMoves
  <2> QED BY <1>1, <1>3, <2>1 DEF Claim, TypeOK, WkOK, PlacedOK, history
<1>4. CASE /\ occ' = [occ EXCEPT ![o] = take]
           /\ wk' = [wk EXCEPT ![r][w].pc = "claimed"]
           /\ UNCHANGED rt
  <2>1. Moved
    BY <1>1, <1>4, PcMoves
  <2>2. take \in Rows
    <3>1. rt[r].gen \in Generations
      BY <1>2 DEF RuntimeStates
    <3>2. sched.def \in Definitions \cup {"disabled", "removed"}
      BY DEF TypeOK, SchedRows
    <3>3. <<r, w>> \in Claims /\ LeaseTicks \in 0..LeaseTicks
      BY ScheduleAssumption DEF Claims
    <3> QED BY <3>1, <3>2, <3>3 DEF Rows, RowsOf
  <2> HIDE DEF take
  <2>3. Kept
    BY <1>1, <1>4, <2>2
  <2> QED BY <1>1, <2>1, <2>3 DEF Claim, TypeOK, WkOK, PlacedOK, history
<1>5. CASE occ' = Settled(o, "superseded") /\ NotClaimed(r, w, rt[r])
  <2>1. Moved
    BY <1>1, <1>2, <1>5, NotClaimedMoves
  <2>2. Kept
    BY <1>1, <1>2, <1>5, SettledIsRows DEF Terminal
  <2> QED BY <1>1, <2>1, <2>2 DEF Claim, TypeOK, WkOK, PlacedOK, history
<1>6. CASE /\ occ[o].left > 0
           /\ NotClaimed(r, w, WakeRecovery(rt[r], occ[o].left))
           /\ UNCHANGED occ
  <2>1. occ[o].left \in {None} \cup Ticks
    BY <1>1, <1>2 DEF Rows, RowsOf, Ticks
  <2>2. WakeRecovery(rt[r], occ[o].left) \in RuntimeStates
    BY <1>2, <2>1, WakeIsRuntime
  <2>3. Moved
    BY <1>1, <1>6, <2>2, NotClaimedMoves
  <2> QED BY <1>1, <1>6, <2>3 DEF Claim, TypeOK, WkOK, PlacedOK, history
<1>7. CASE NotClaimed(r, w, rt[r]) /\ UNCHANGED occ
  <2>1. Moved
    BY <1>1, <1>2, <1>7, NotClaimedMoves
  <2> QED BY <1>1, <1>7, <2>1 DEF Claim, TypeOK, WkOK, PlacedOK, history
<1> QED BY <1>3, <1>4, <1>5, <1>6, <1>7 DEF Claim

\* The end of an occurrence, in any of its four ways.
LEMMA FinishMoves ==
    ASSUME TypeOK, NEW r \in Runtimes, NEW w \in Workers, NEW outcome \in Terminal,
           wk[r][w].pc \in {"claimed", "failed"},
           Supersede(r, w) \/ Finish(r, w, outcome)
    PROVE  occ' \in [Occurrences -> Rows] /\ sched' \in SchedRows
<1>1. /\ wk[r][w].o \in Occurrences
      /\ Successor(wk[r][w].o) \in Cursors
      /\ occ \in [Occurrences -> Rows] /\ sched \in SchedRows
  BY InHand, SuccessorIsCursor DEF TypeOK
<1>2. CASE Supersede(r, w)
  <2>1. "superseded" \in Terminal
    BY DEF Terminal
  <2>2. Settled(wk[r][w].o, "superseded") \in [Occurrences -> Rows]
    BY <1>1, <2>1, SettledIsRows
  <2> QED BY <1>1, <1>2, <2>2 DEF Supersede
<1>3. CASE Finish(r, w, outcome)
  <2>1. Settled(wk[r][w].o, outcome) \in [Occurrences -> Rows]
    BY <1>1, SettledIsRows
  <2>2. [sched EXCEPT !.next = Successor(wk[r][w].o)] \in SchedRows
    BY <1>1 DEF SchedRows
  <2> QED BY <1>3, <2>1, <2>2 DEF Finish
<1> QED BY <1>2, <1>3

LEMMA FinaliseType ==
    ASSUME TypeOK, NEW r \in Runtimes, NEW w \in Workers, Finalise(r, w)
    PROVE  TypeOK'
<1> DEFINE Moved == rt' \in [Runtimes -> RuntimeStates] /\ WkOK' /\ PlacedOK'
           Kept == occ' \in [Occurrences -> Rows] /\ sched' \in SchedRows
<1>1. /\ wk[r][w].pc = "claimed"
      /\ wk[r][w].o \in Occurrences
      /\ rt[r] \in RuntimeStates
      /\ Disabled(r) \in RuntimeStates /\ Advanced(r, w) \in RuntimeStates
      /\ jobs \in [Occurrences -> Nat]
  BY InHand DEF Finalise, TypeOK
<1>2. Moved
  BY <1>1, ResolveMoves DEF Finalise
<1>3. Kept
  BY <1>1, FinishMoves DEF Finalise, TypeOK, Terminal
<1>4. jobs' \in [Occurrences -> Nat]
  BY <1>1 DEF Finalise
<1> QED BY <1>2, <1>3, <1>4 DEF Finalise, TypeOK, WkOK, PlacedOK, history

LEMMA FinishFailedType ==
    ASSUME TypeOK, NEW r \in Runtimes, NEW w \in Workers, FinishFailed(r, w)
    PROVE  TypeOK'
<1> DEFINE Moved == rt' \in [Runtimes -> RuntimeStates] /\ WkOK' /\ PlacedOK'
           Kept == occ' \in [Occurrences -> Rows] /\ sched' \in SchedRows
<1>1. /\ wk[r][w].pc = "failed"
      /\ rt[r] \in RuntimeStates
      /\ Disabled(r) \in RuntimeStates /\ Advanced(r, w) \in RuntimeStates
  BY InHand DEF FinishFailed
<1>2. Moved
  BY <1>1, RejectMoves DEF FinishFailed
<1>3. Kept
  BY <1>1, FinishMoves DEF FinishFailed, TypeOK, Terminal
<1> QED BY <1>2, <1>3 DEF FinishFailed, TypeOK, WkOK, PlacedOK, history

LEMMA FaultCounts ==
    ASSUME TypeOK, Fault
    PROVE  faults' \in 0..MaxFaults
<1>1. faults \in 0..MaxFaults /\ MaxFaults \in Nat
  BY ScheduleAssumption DEF TypeOK
<1> QED BY <1>1 DEF Fault

LEMMA RecordFailsType ==
    ASSUME TypeOK, NEW r \in Runtimes, NEW w \in Workers, RecordFails(r, w)
    PROVE  TypeOK'
<1>1. wk[r][w].pc \in {"claim", "claimed", "failed"} /\ Fault
  BY DEF RecordFails, ClaimFails, FinaliseFails, FinishFailedFails
<1>2. faults' \in 0..MaxFaults
  BY <1>1, FaultCounts
<1>3. rt[r] \in RuntimeStates /\ WkOK /\ PlacedOK /\ rt \in [Runtimes -> RuntimeStates]
  BY DEF TypeOK, WkOK, PlacedOK
<1>4. rt' \in [Runtimes -> RuntimeStates] /\ WkOK' /\ PlacedOK'
  <2>1. CASE Reject(r, w, rt[r])
    BY <1>3, <2>1, RejectMoves
  <2>2. CASE wk' = [wk EXCEPT ![r][w].pc = "failed"] /\ UNCHANGED rt
    BY <1>1, <1>3, <2>2, PcMoves
  <2> QED BY <2>1, <2>2 DEF RecordFails, ClaimFails, FinaliseFails, FinishFailedFails
<1>5. UNCHANGED <<now, published, sched, occ, jobs, history>>
  BY DEF RecordFails, ClaimFails, FinaliseFails, FinishFailedFails
<1> QED BY <1>2, <1>4, <1>5 DEF TypeOK, WkOK, PlacedOK, history

\* Recovery replaces its own state, and its runtime may learn or arm something.
LEMMA RecoveryMoves ==
    ASSUME TypeOK, NEW r \in Runtimes, NEW x \in RuntimeStates, NEW v \in WorkerStates,
           Placed(v, "recovery"),
           rt' = [rt EXCEPT ![r] = x],
           wk' = [wk EXCEPT ![r]["recovery"] = v]
    PROVE  rt' \in [Runtimes -> RuntimeStates] /\ WkOK' /\ PlacedOK'
<1>1. WkOK /\ PlacedOK /\ rt \in [Runtimes -> RuntimeStates] /\ "recovery" \in Workers
  BY DEF TypeOK, WkOK, PlacedOK, Workers
<1> QED BY <1>1, RuntimeMoves, WorkerMoves

LEMMA ScanType ==
    ASSUME TypeOK, NEW r \in Runtimes, Scan(r)
    PROVE  TypeOK'
<1> DEFINE S == {[o |-> o, row |-> occ[o], live |-> occ[o].left > 0] :
                    o \in {p \in Occurrences : occ[p].status = "pending"}}
           v == [Idle EXCEPT !.pc = "next", !.after = "next", !.todo = S]
<1>1. S \in SUBSET Entries
  <2>1. ASSUME NEW o \in Occurrences, occ[o].status = "pending"
        PROVE  [o |-> o, row |-> occ[o], live |-> occ[o].left > 0] \in Entries
    <3>1. occ[o] \in Rows
      BY DEF TypeOK
    <3>2. occ[o] \in RowsOf({"pending"})
      BY <2>1, <3>1 DEF Rows, RowsOf
    <3>3. (occ[o].left > 0) \in BOOLEAN
      BY <3>1 DEF Rows, RowsOf
    <3> QED BY <3>2, <3>3 DEF Entries
  <2> QED BY <2>1
<1>2. wk' = [wk EXCEPT ![r]["recovery"] = v]
  BY DEF Scan
<1> HIDE DEF S
<1>3. v \in WorkerStates /\ Placed(v, "recovery")
  BY <1>1, IdleIsWorker DEF WorkerStates, Idle, Placed, Cursors
<1>4. rt[r] \in RuntimeStates /\ rt' = [rt EXCEPT ![r] = rt[r]]
  BY DEF Scan, TypeOK
<1> HIDE DEF v
<1>5. rt' \in [Runtimes -> RuntimeStates] /\ WkOK' /\ PlacedOK'
  BY <1>2, <1>3, <1>4, RecoveryMoves
<1> QED BY <1>5 DEF Scan, TypeOK, WkOK, PlacedOK, history

LEMMA ScanFailsType ==
    ASSUME TypeOK, NEW r \in Runtimes, ScanFails(r)
    PROVE  TypeOK'
<1>1. rt[r] \in RuntimeStates /\ "recovery" \in Workers
  BY DEF TypeOK, Workers
<1>2. rt' \in [Runtimes -> RuntimeStates] /\ WkOK' /\ PlacedOK'
  BY <1>1, RejectMoves DEF ScanFails
<1>3. faults' \in 0..MaxFaults
  BY FaultCounts DEF ScanFails
<1> QED BY <1>2, <1>3 DEF ScanFails, TypeOK, WkOK, PlacedOK, history

LEMMA NextRowType ==
    ASSUME TypeOK, NEW r \in Runtimes, NextRow(r)
    PROVE  TypeOK'
<1> DEFINE v == wk[r]["recovery"]
           Moved == rt' \in [Runtimes -> RuntimeStates] /\ WkOK' /\ PlacedOK'
<1> SUFFICES Moved
  BY DEF NextRow, TypeOK, WkOK, PlacedOK, history
<1>1. /\ v \in WorkerStates /\ v.pc = "next" /\ v.after # "none" /\ rt[r] \in RuntimeStates
      /\ v.todo \subseteq Entries /\ v.soonest \in {None} \cup Ticks
      /\ Disabled(r) \in RuntimeStates
      /\ rt = [rt EXCEPT ![r] = rt[r]]
  <2>1. /\ v \in WorkerStates /\ Placed(v, "recovery")
        /\ rt[r] \in RuntimeStates /\ rt = [rt EXCEPT ![r] = rt[r]]
    BY DEF TypeOK, Workers
  <2> QED BY <2>1, RuntimeUpdates DEF NextRow, WorkerStates, Disabled, Placed
<1>2. PICK e \in Earliest(v.todo) :
        LET rest == [v EXCEPT !.todo = @ \ {e}]
            deferred == [rest EXCEPT !.soonest = Sooner(@, e.row.left)]
        IN \/ /\ wk' = [wk EXCEPT ![r]["recovery"].pc = "supersede"]
              /\ UNCHANGED rt
           \/ /\ rt' = [rt EXCEPT ![r] = Disabled(r)]
              /\ wk' = [wk EXCEPT ![r]["recovery"] = rest]
           \/ /\ wk' = [wk EXCEPT ![r]["recovery"] = deferred]
              /\ UNCHANGED rt
           \/ /\ wk' = [wk EXCEPT ![r]["recovery"] = [rest EXCEPT !.pc = "claim", !.o = e.o]]
              /\ UNCHANGED rt
  BY DEF NextRow
<1> DEFINE rest == [v EXCEPT !.todo = v.todo \ {e}]
<1>3. e \in Entries /\ e.o \in Cursors /\ e.o \in Occurrences /\ e.row.left \in {None} \cup Ticks
  BY <1>1 DEF Earliest, Entries, RowsOf, Cursors, Ticks
<1>4. /\ rest \in WorkerStates /\ rest.pc = "next" /\ rest.after = v.after
      /\ rest.soonest = v.soonest
  BY <1>1 DEF WorkerStates
<1>5. CASE wk' = [wk EXCEPT ![r]["recovery"].pc = "supersede"] /\ UNCHANGED rt
  <2>0. wk' = [wk EXCEPT ![r]["recovery"] = [v EXCEPT !.pc = "supersede"]]
    BY <1>5 DEF TypeOK
  <2>1. [v EXCEPT !.pc = "supersede"] \in WorkerStates
        /\ Placed([v EXCEPT !.pc = "supersede"], "recovery")
    BY <1>1 DEF WorkerStates, Placed
  <2> QED BY <1>1, <1>5, <2>0, <2>1, RecoveryMoves
<1>6. CASE rt' = [rt EXCEPT ![r] = Disabled(r)] /\ wk' = [wk EXCEPT ![r]["recovery"] = rest]
  <2>1. Placed(rest, "recovery")
    BY <1>1, <1>4 DEF Placed
  <2> HIDE DEF rest
  <2> QED BY <1>1, <1>4, <1>6, <2>1, RecoveryMoves
<1>7. CASE /\ wk' = [wk EXCEPT ![r]["recovery"] =
                        [rest EXCEPT !.soonest = Sooner(rest.soonest, e.row.left)]]
           /\ UNCHANGED rt
  <2> DEFINE x == [rest EXCEPT !.soonest = Sooner(rest.soonest, e.row.left)]
  <2> HIDE DEF rest
  <2>1. Sooner(rest.soonest, e.row.left) \in {None} \cup Ticks
    BY <1>1, <1>3, <1>4, SoonerIsTick
  <2>2. x \in WorkerStates /\ Placed(x, "recovery")
    BY <1>1, <1>4, <2>1 DEF WorkerStates, Placed
  <2> QED BY <1>1, <1>7, <2>2, RecoveryMoves
<1>8. CASE /\ wk' = [wk EXCEPT ![r]["recovery"] = [rest EXCEPT !.pc = "claim", !.o = e.o]]
           /\ UNCHANGED rt
  <2> DEFINE x == [rest EXCEPT !.pc = "claim", !.o = e.o]
  <2> HIDE DEF rest
  <2>1. x \in WorkerStates /\ Placed(x, "recovery")
    BY <1>1, <1>3, <1>4 DEF WorkerStates, Placed
  <2> QED BY <1>1, <1>8, <2>1, RecoveryMoves
<1> QED BY <1>2, <1>5, <1>6, <1>7, <1>8

LEMMA SupersedeRetainedType ==
    ASSUME TypeOK, NEW r \in Runtimes, SupersedeRetained(r)
    PROVE  TypeOK'
<1> DEFINE v == wk[r]["recovery"]
<1>1. /\ v \in WorkerStates /\ v.pc = "supersede" /\ v.after # "none"
      /\ v.todo \subseteq Entries
      /\ rt[r] \in RuntimeStates /\ occ \in [Occurrences -> Rows]
  <2>1. /\ v \in WorkerStates /\ Placed(v, "recovery")
        /\ rt[r] \in RuntimeStates /\ occ \in [Occurrences -> Rows]
    BY DEF TypeOK, Workers
  <2> QED BY <2>1 DEF SupersedeRetained, WorkerStates, Placed
<1>2. PICK e \in Earliest(v.todo) :
        LET rest == [v EXCEPT !.pc = "next", !.todo = @ \ {e}]
            won == occ[e.o] = e.row /\ ~(sched.enabled /\ sched.gen = e.row.gen)
            retry == IF won \/ occ[e.o].status # "pending" THEN None
                     ELSE IF occ[e.o].left > 0 THEN occ[e.o].left ELSE RetryTicks
        IN /\ occ' = IF won THEN Settled(e.o, "superseded") ELSE occ
           /\ rt' = [rt EXCEPT ![r] = WakeRecovery(rt[r], retry)]
           /\ wk' = [wk EXCEPT ![r]["recovery"] = rest]
  BY DEF SupersedeRetained
<1> DEFINE won == occ[e.o] = e.row /\ ~(sched.enabled /\ sched.gen = e.row.gen)
           retry == IF won \/ occ[e.o].status # "pending" THEN None
                    ELSE IF occ[e.o].left > 0 THEN occ[e.o].left ELSE RetryTicks
           x == [v EXCEPT !.pc = "next", !.todo = v.todo \ {e}]
<1>3. e.o \in Occurrences /\ occ[e.o] \in Rows
  BY <1>1 DEF Earliest, Entries
<1>4. retry \in {None} \cup Ticks
  <2>1. occ[e.o].left \in Ticks /\ RetryTicks \in Ticks
    BY <1>3, ScheduleAssumption DEF Rows, RowsOf, Ticks
  <2> QED BY <2>1
<1>5. x \in WorkerStates /\ Placed(x, "recovery")
  BY <1>1 DEF WorkerStates, Placed
<1>6. occ' \in [Occurrences -> Rows]
  <2>1. Settled(e.o, "superseded") \in [Occurrences -> Rows]
    BY <1>1, <1>3, SettledIsRows DEF Terminal
  <2> QED BY <1>1, <1>2, <2>1
<1>7. rt' = [rt EXCEPT ![r] = WakeRecovery(rt[r], retry)] /\ wk' = [wk EXCEPT ![r]["recovery"] = x]
  BY <1>2
<1> HIDE DEF retry, x
<1>8. rt' \in [Runtimes -> RuntimeStates] /\ WkOK' /\ PlacedOK'
  BY <1>1, <1>4, <1>5, <1>7, WakeIsRuntime, RecoveryMoves
<1> QED BY <1>6, <1>8 DEF SupersedeRetained, TypeOK, WkOK, PlacedOK, history

LEMMA EndScanType ==
    ASSUME TypeOK, NEW r \in Runtimes, EndScan(r)
    PROVE  TypeOK'
<1>1. /\ wk[r]["recovery"].soonest \in {None} \cup Ticks /\ rt[r] \in RuntimeStates
      /\ "recovery" \in Workers
  BY DEF TypeOK, WorkerStates, Workers
<1>2. rt' \in [Runtimes -> RuntimeStates] /\ WkOK' /\ PlacedOK'
  BY <1>1, WakeIsRuntime, IdleIsWorker, RecoveryMoves DEF EndScan
<1> QED BY <1>2 DEF EndScan, TypeOK, WkOK, PlacedOK, history

\* A published declaration starts a runtime of the new generation.
LEMMA StartedMoves ==
    ASSUME TypeOK, NEW r \in Runtimes, NEW d, NEW next \in Cursors, NEW c \in Cursors,
           published < MaxPublications, Started(r, d, next, c)
    PROVE  rt' \in [Runtimes -> RuntimeStates] /\ WkOK' /\ PlacedOK'
<1> DEFINE x == [Down EXCEPT !.phase = "active", !.gen = published + 1,
                             !.enabled = d \in Definitions, !.next = next]
           v == [Idle EXCEPT !.pc = IF c = None THEN "scan" ELSE "claim",
                             !.o = c, !.after = "scan"]
<1>1. published + 1 \in Generations
  BY ScheduleAssumption DEF TypeOK, Generations
<1>2. x \in RuntimeStates
  <2>1. \A b \in BOOLEAN :
            [Down EXCEPT !.phase = "active", !.gen = published + 1, !.enabled = b,
                         !.next = next] \in RuntimeStates
    BY <1>1 DEF Down, RuntimeStates, Cursors
  <2>2. (d \in Definitions) = TRUE \/ (d \in Definitions) = FALSE
    OBVIOUS
  <2> QED BY <2>1, <2>2
<1>3. v \in WorkerStates /\ Placed(v, "recovery")
  BY DEF Idle, WorkerStates, Placed, Cursors
<1>4. rt' = [rt EXCEPT ![r] = Arm(x)] /\ wk' = [wk EXCEPT ![r]["recovery"] = v]
  BY DEF Started
<1> HIDE DEF x, v
<1> QED BY <1>2, <1>3, <1>4, ArmIsRuntime, RecoveryMoves

LEMMA PublishedMoves ==
    ASSUME TypeOK, NEW d \in Definitions \cup {"disabled", "removed"}, NEW next \in Cursors,
           Published(d, next)
    PROVE  published' \in Generations /\ sched' \in SchedRows
<1>1. published + 1 \in Generations
  BY ScheduleAssumption DEF TypeOK, Generations, Published
<1> QED BY <1>1 DEF Published, SchedRows

LEMMA TransferredIsRows ==
    ASSUME occ \in [Occurrences -> Rows], NEW g \in Generations
    PROVE  Transferred(g) \in [Occurrences -> Rows]
<1>1. ASSUME NEW o \in Occurrences PROVE [occ[o] EXCEPT !.gen = g] \in Rows
  BY DEF Rows, RowsOf
<1> QED BY <1>1 DEF Transferred

LEMMA PublishSameType ==
    ASSUME TypeOK, NEW r \in Runtimes, NEW d, PublishSame(r, d),
           UNCHANGED <<now, jobs, faults>>
    PROVE  TypeOK'
<1> DEFINE missed == IF sched.next = None THEN {}
                     ELSE {o \in Occurrences : sched.next <= o /\ o <= now}
           latest == IF now > Last THEN Last ELSE now
           c == IF missed # {} /\ MissedRun = "latest" THEN latest ELSE None
           next == IF missed = {} THEN sched.next
                   ELSE IF c # None /\ latest = Last THEN latest ELSE Successor(latest)
<1>1. /\ d \in Definitions
      /\ Published(d, next)
      /\ Started(r, d, next, c)
      /\ skipped' = skipped \cup {o \in missed \ {c} : occ[o].status = "absent"}
      /\ chosen' = IF c = None THEN chosen ELSE {c}
      /\ occ' = Transferred(published + 1)
      /\ published < MaxPublications
  BY DEF PublishSame, Published
<1>2. missed \subseteq Occurrences
  OBVIOUS
<1>3. missed # {} => latest \in Occurrences
  BY ScheduleAssumption DEF TypeOK, Occurrences
<1>4. c \in Cursors /\ (c # None => c \in Occurrences)
  BY <1>3 DEF Cursors
<1>5. next \in Cursors
  <2>1. sched.next \in Cursors
    BY DEF TypeOK, SchedRows
  <2>2. missed # {} => latest \in Cursors /\ Successor(latest) \in Cursors
    BY <1>3, SuccessorIsCursor DEF Cursors
  <2> QED BY <2>1, <2>2
<1>6. skipped' \subseteq Occurrences /\ chosen' \subseteq Occurrences
  BY <1>1, <1>2, <1>4 DEF TypeOK
<1> HIDE DEF missed, latest, c, next
<1>7. rt' \in [Runtimes -> RuntimeStates] /\ WkOK' /\ PlacedOK'
  BY <1>1, <1>4, <1>5, StartedMoves
<1>8. published' \in Generations /\ sched' \in SchedRows
  BY <1>1, <1>5, PublishedMoves
<1>9. occ' \in [Occurrences -> Rows]
  <2>1. published' = published + 1 /\ occ \in [Occurrences -> Rows]
    BY <1>1 DEF Published, TypeOK
  <2> QED BY <1>1, <1>8, <2>1, TransferredIsRows
<1> QED BY <1>6, <1>7, <1>8, <1>9 DEF TypeOK, WkOK, PlacedOK

LEMMA PublishType ==
    ASSUME TypeOK, NEW r \in Runtimes, Publish(r)
    PROVE  TypeOK'
<1>1. UNCHANGED <<now, jobs, faults>> /\ None \in Cursors
  BY DEF Publish, Cursors
<1>2. CASE \E d \in Definitions : PublishFresh(r, d)
  <2>1. PICK d \in Definitions : PublishFresh(r, d)
    BY <1>2
  <2>2. now + 1 \in Cursors
    BY <2>1, ScheduleAssumption DEF PublishFresh, TypeOK, Cursors, Occurrences
  <2>3. published < MaxPublications
    BY <2>1 DEF PublishFresh, Published
  <2>4. rt' \in [Runtimes -> RuntimeStates] /\ WkOK' /\ PlacedOK'
    BY <1>1, <2>1, <2>2, <2>3, StartedMoves DEF PublishFresh
  <2>5. published' \in Generations /\ sched' \in SchedRows
    BY <2>1, <2>2, PublishedMoves DEF PublishFresh
  <2> QED BY <1>1, <2>1, <2>4, <2>5 DEF PublishFresh, TypeOK, WkOK, PlacedOK
<1>3. CASE \E d \in Definitions : PublishSame(r, d)
  BY <1>1, <1>3, PublishSameType
<1>4. CASE PublishDisabled(r)
  <2>1. published < MaxPublications
    BY <1>4 DEF PublishDisabled, Published
  <2>2. rt' \in [Runtimes -> RuntimeStates] /\ WkOK' /\ PlacedOK'
    BY <1>1, <1>4, <2>1, StartedMoves DEF PublishDisabled
  <2>3. published' \in Generations /\ sched' \in SchedRows
    BY <1>1, <1>4, PublishedMoves DEF PublishDisabled
  <2> QED BY <1>1, <1>4, <2>2, <2>3 DEF PublishDisabled, TypeOK, WkOK, PlacedOK
<1>5. CASE PublishRemoved(r)
  <2>1. published < MaxPublications
    BY <1>5 DEF PublishRemoved
  <2>2. rt' \in [Runtimes -> RuntimeStates] /\ WkOK' /\ PlacedOK'
    BY <1>1, <1>5, <2>1, StartedMoves DEF PublishRemoved
  <2>3. published' \in Generations
    BY <1>5, <2>1, ScheduleAssumption DEF PublishRemoved, TypeOK, Generations
  <2>4. sched' \in SchedRows
    BY <1>5, ScheduleAssumption DEF PublishRemoved, NoSchedule, SchedRows, Generations, Cursors
  <2> QED BY <1>1, <1>5, <2>2, <2>3, <2>4 DEF PublishRemoved, TypeOK, WkOK, PlacedOK
<1> QED BY <1>2, <1>3, <1>4, <1>5 DEF Publish

\* A runtime stops, in order or not.
LEMMA EndType ==
    ASSUME TypeOK, NEW r \in Runtimes,
           Stop(r) \/ ClearTimers(r) \/ Close(r) \/ Crash(r)
    PROVE  TypeOK'
<1>1. rt[r] \in RuntimeStates /\ rt \in [Runtimes -> RuntimeStates] /\ WkOK /\ PlacedOK
  BY DEF TypeOK, WkOK, PlacedOK
<1>2. Down \in RuntimeStates
  BY ScheduleAssumption DEF Down, RuntimeStates, Generations, Cursors
<1>3. CASE Stop(r)
  <2>1. [rt[r] EXCEPT !.phase = "stopping"] \in RuntimeStates
    BY <1>1 DEF RuntimeStates
  <2>2. rt' \in [Runtimes -> RuntimeStates]
    BY <1>1, <1>3, <2>1 DEF Stop
  <2>3. faults' \in 0..MaxFaults
    BY <1>3, FaultCounts DEF Stop
  <2> QED BY <1>3, <2>2, <2>3 DEF Stop, TypeOK, history
<1>4. CASE ClearTimers(r)
  <2>1. [rt[r] EXCEPT !.phase = "stopped", !.armed = None, !.wake = None] \in RuntimeStates
    BY <1>1 DEF RuntimeStates, Cursors
  <2>2. rt' \in [Runtimes -> RuntimeStates]
    BY <1>1, <1>4, <2>1 DEF ClearTimers
  <2> QED BY <1>4, <2>2 DEF ClearTimers, TypeOK, history
<1>5. CASE Close(r)
  BY <1>1, <1>2, <1>5 DEF Close, TypeOK, history
<1>6. CASE Crash(r)
  <2>1. rt' \in [Runtimes -> RuntimeStates]
    BY <1>1, <1>2, <1>6 DEF Crash
  <2>2. WkOK' /\ PlacedOK'
    <3>1. [w \in Workers |-> Idle] \in [Workers -> WorkerStates]
      BY IdleIsWorker
    <3>2. \A q \in Runtimes, w \in Workers : wk'[q][w] = IF q = r THEN Idle ELSE wk[q][w]
      BY <1>1, <1>6 DEF Crash, WkOK
    <3>3. WkOK'
      BY <1>1, <1>6, <3>1 DEF Crash, WkOK
    <3>4. PlacedOK'
      BY <1>1, <3>2, IdleIsWorker DEF PlacedOK
    <3> QED BY <3>3, <3>4
  <2>3. faults' \in 0..MaxFaults
    BY <1>6, FaultCounts DEF Crash
  <2> QED BY <1>6, <2>1, <2>2, <2>3 DEF Crash, TypeOK, WkOK, PlacedOK, history
<1> QED BY <1>3, <1>4, <1>5, <1>6

LEMMA NextType == TypeOK /\ [Next]_vars => TypeOK'
<1> SUFFICES ASSUME TypeOK, [Next]_vars PROVE TypeOK'
  OBVIOUS
<1>1. CASE Tick
  BY <1>1, TickType
<1>2. ASSUME NEW r \in Runtimes, TimerFires(r) \/ ChunkEnds(r) \/ RecoveryFires(r)
      PROVE  TypeOK'
  BY <1>2, TimerType
<1>3. ASSUME NEW r \in Runtimes, NEW w \in Workers, Record(r, w)
      PROVE  TypeOK'
  BY <1>3, ClaimType, FinaliseType, FinishFailedType DEF Record
<1>4. ASSUME NEW r \in Runtimes, NEW w \in Workers, RecordFails(r, w)
      PROVE  TypeOK'
  BY <1>4, RecordFailsType
<1>5. ASSUME NEW r \in Runtimes, Recover(r) \/ ScanFails(r)
      PROVE  TypeOK'
  BY <1>5, ScanType, NextRowType, SupersedeRetainedType, EndScanType, ScanFailsType DEF Recover
<1>6. ASSUME NEW r \in Runtimes, Publish(r)
      PROVE  TypeOK'
  BY <1>6, PublishType
<1>7. ASSUME NEW r \in Runtimes, Stop(r) \/ ClearTimers(r) \/ Close(r) \/ Crash(r)
      PROVE  TypeOK'
  BY <1>7, EndType
<1>8. CASE UNCHANGED vars
  BY <1>8 DEF vars, TypeOK, history
<1> QED BY <1>1, <1>2, <1>3, <1>4, <1>5, <1>6, <1>7, <1>8 DEF Next

\* Every reachable state is well-formed; in particular a runtime that is about to claim,
\* finalise or fail an occurrence holds one, and recovery knows where to go on after it.
THEOREM ScheduleTypeCorrect == Spec => []TypeOK
<1> QED BY InitType, NextType, PTL DEF Spec

-----------------------------------------------------------------------------
(* The invariant of the safety proofs.                                     *)


\* A generation token is new when it is published, and what is pending under the
\* deployed generation is pending for the deployed declaration.
Declared ==
    /\ sched.gen <= published
    /\ \A o \in Occurrences : occ[o].gen <= published
    /\ \A o \in Occurrences :
        sched.enabled /\ occ[o].status = "pending" /\ occ[o].gen = sched.gen =>
            occ[o].def = sched.def

Inv == TypeOK /\ JobIffEnqueued /\ Declared

-----------------------------------------------------------------------------
(* Steps that enqueue no Job and publish nothing.                          *)

\* The deployed declaration stays.
SameDeclaration ==
    /\ published' = published
    /\ sched'.gen = sched.gen /\ sched'.def = sched.def /\ sched'.enabled = sched.enabled

\* Every row keeps its declaration, and its status unless it ends without a Job.
Quietly ==
    \A o \in Occurrences :
        /\ occ'[o].gen = occ[o].gen /\ occ'[o].def = occ[o].def
        /\ \/ occ'[o].status = occ[o].status
           \/ occ[o].status = "pending" /\ occ'[o].status \in Terminal \ {"enqueued"}

LEMMA QuietSteps ==
    ASSUME Inv, SameDeclaration, Quietly, jobs' = jobs
    PROVE  JobIffEnqueued' /\ Declared'
<1>1. JobIffEnqueued'
  BY DEF Inv, JobIffEnqueued, Quietly, Terminal
<1>2. Declared'
  BY DEF Inv, Declared, SameDeclaration, Quietly, Terminal
<1> QED BY <1>1, <1>2

LEMMA SettlesQuietly ==
    ASSUME TypeOK, NEW o \in Occurrences, occ[o].status = "pending",
           NEW outcome \in Terminal \ {"enqueued"}, occ' = Settled(o, outcome)
    PROVE  Quietly
<1>1. occ \in [Occurrences -> Rows] /\ outcome \in Terminal
  BY DEF TypeOK
<1> QED BY <1>1, SettledIsRows DEF Quietly

\* Nothing but time passes.
LEMMA TickIsQuiet ==
    ASSUME TypeOK, Tick
    PROVE  SameDeclaration /\ Quietly /\ jobs' = jobs
<1>1. ASSUME NEW o \in Occurrences
      PROVE  /\ occ'[o].gen = occ[o].gen /\ occ'[o].def = occ[o].def
             /\ occ'[o].status = occ[o].status
  <2>1. occ[o] \in Rows /\ occ'[o] = [occ[o] EXCEPT !.left = Less(occ[o].left)]
    BY DEF TypeOK, Tick
  <2> QED BY <2>1 DEF Rows, RowsOf
<1> QED BY <1>1 DEF Tick, SameDeclaration, Quietly

LEMMA SupersedeIsQuiet ==
    ASSUME TypeOK, NEW r \in Runtimes, NEW w \in Workers,
           wk[r][w].pc \in {"claimed", "failed"}, Supersede(r, w)
    PROVE  Quietly /\ sched' = sched
<1>1. CASE Owns(r, w)
  <2>1. /\ wk[r][w].o \in Occurrences /\ occ[wk[r][w].o].status = "pending"
        /\ occ' = Settled(wk[r][w].o, "superseded") /\ sched' = sched
    BY <1>1, InHand DEF Supersede, Owns
  <2> QED BY <2>1, SettlesQuietly DEF Terminal
<1>2. CASE ~Owns(r, w)
  BY <1>2 DEF Supersede, Quietly
<1> QED BY <1>1, <1>2

LEMMA FinishIsQuiet ==
    ASSUME TypeOK, NEW r \in Runtimes, NEW w \in Workers,
           NEW outcome \in Terminal \ {"enqueued"}, published' = published,
           wk[r][w].pc \in {"claimed", "failed"}, Owns(r, w), Finish(r, w, outcome)
    PROVE  Quietly /\ SameDeclaration
<1>1. /\ wk[r][w].o \in Occurrences /\ occ[wk[r][w].o].status = "pending"
      /\ occ' = Settled(wk[r][w].o, outcome)
      /\ sched' = [sched EXCEPT !.next = Successor(wk[r][w].o)]
  BY InHand DEF Finish, Owns
<1>2. SameDeclaration
  BY <1>1 DEF SameDeclaration, TypeOK, SchedRows
<1> QED BY <1>1, <1>2, SettlesQuietly

LEMMA FinishFailedIsQuiet ==
    ASSUME TypeOK, NEW r \in Runtimes, NEW w \in Workers, FinishFailed(r, w)
    PROVE  SameDeclaration /\ Quietly /\ jobs' = jobs
<1>1. wk[r][w].pc = "failed" /\ published' = published /\ jobs' = jobs
  BY DEF FinishFailed
<1>2. CASE Supersede(r, w)
  BY <1>1, <1>2, SupersedeIsQuiet DEF SameDeclaration
<1>3. CASE UNCHANGED <<sched, occ>>
  BY <1>1, <1>3 DEF SameDeclaration, Quietly
<1>4. CASE Owns(r, w) /\ Finish(r, w, "enqueue-failed")
  BY <1>1, <1>4, FinishIsQuiet DEF Terminal
<1> QED BY <1>2, <1>3, <1>4 DEF FinishFailed

LEMMA SupersedeRetainedIsQuiet ==
    ASSUME TypeOK, NEW r \in Runtimes, SupersedeRetained(r)
    PROVE  SameDeclaration /\ Quietly /\ jobs' = jobs
<1>1. PICK e \in wk[r]["recovery"].todo :
        LET won == occ[e.o] = e.row /\ ~(sched.enabled /\ sched.gen = e.row.gen)
        IN occ' = IF won THEN Settled(e.o, "superseded") ELSE occ
  BY DEF SupersedeRetained, Earliest
<1>2. e \in Entries
  BY DEF TypeOK, WorkerStates, Workers
<1>3. e.o \in Occurrences /\ e.row.status = "pending"
  BY <1>2 DEF Entries, RowsOf
<1>4. Quietly
  <2>1. CASE occ[e.o] = e.row /\ occ' = Settled(e.o, "superseded")
    BY <1>3, <2>1, SettlesQuietly DEF Terminal
  <2>2. CASE occ' = occ
    BY <2>2 DEF Quietly
  <2> QED BY <1>1, <2>1, <2>2
<1> QED BY <1>4 DEF SupersedeRetained, SameDeclaration

-----------------------------------------------------------------------------
(* A claim, a Job, a publication.                                          *)

LEMMA ClaimSafe ==
    ASSUME Inv, NEW r \in Runtimes, NEW w \in Workers, Claim(r, w)
    PROVE  JobIffEnqueued' /\ Declared'
<1> DEFINE o == wk[r][w].o
           take == [status |-> "pending", gen |-> rt[r].gen, def |-> sched.def,
                    token |-> <<r, w>>, left |-> LeaseTicks]
<1>1. TypeOK /\ o \in Occurrences /\ occ \in [Occurrences -> Rows]
  BY InHand DEF Inv, Claim, TypeOK
<1>2. UNCHANGED <<published, sched, jobs>>
  BY DEF Claim
<1>3. CASE UNCHANGED occ
  BY <1>2, <1>3, QuietSteps DEF SameDeclaration, Quietly
<1>4. CASE occ[o].status = "pending" /\ occ' = Settled(o, "superseded")
  <2>1. Quietly
    BY <1>1, <1>4, SettlesQuietly DEF Terminal
  <2> QED BY <1>2, <2>1, QuietSteps DEF SameDeclaration
<1>5. CASE Live(r) /\ occ[o].status \in {"absent", "pending"} /\ occ' = [occ EXCEPT ![o] = take]
  <2>1. \A p \in Occurrences : occ'[p] = IF p = o THEN take ELSE occ[p]
    BY <1>1, <1>5
  <2>2. take.status = "pending" /\ take.gen = sched.gen /\ take.def = sched.def
    BY <1>5 DEF Live
  <2> HIDE DEF take
  <2>3. JobIffEnqueued'
    BY <1>2, <1>5, <2>1, <2>2 DEF Inv, JobIffEnqueued
  <2>4. Declared'
    BY <1>2, <2>1, <2>2 DEF Inv, Declared
  <2> QED BY <2>3, <2>4
<1> QED BY <1>3, <1>4, <1>5 DEF Claim

\* The Job of an occurrence is the last thing that happens to it.
LEMMA FinaliseSafe ==
    ASSUME Inv, NEW r \in Runtimes, NEW w \in Workers, Finalise(r, w)
    PROVE  JobIffEnqueued' /\ Declared'
<1> DEFINE o == wk[r][w].o
<1>1. /\ TypeOK /\ o \in Occurrences /\ occ \in [Occurrences -> Rows]
      /\ wk[r][w].pc = "claimed" /\ published' = published
  BY InHand DEF Inv, Finalise, TypeOK
<1>2. CASE Supersede(r, w) /\ UNCHANGED jobs
  BY <1>1, <1>2, SupersedeIsQuiet, QuietSteps DEF SameDeclaration
<1>3. CASE UNCHANGED <<sched, occ, jobs>>
  BY <1>1, <1>3, QuietSteps DEF SameDeclaration, Quietly
<1>4. CASE Owns(r, w) /\ Finish(r, w, "payload-failed") /\ UNCHANGED jobs
  <2>1. "payload-failed" \in Terminal \ {"enqueued"}
    BY DEF Terminal
  <2> QED BY <1>1, <1>4, <2>1, FinishIsQuiet, QuietSteps
<1>5. CASE /\ Owns(r, w) /\ Finish(r, w, "enqueued")
           /\ jobs' = [jobs EXCEPT ![o] = @ + 1]
  <2>1. occ[o].status = "pending" /\ occ' = Settled(o, "enqueued")
    BY <1>5 DEF Owns, Finish
  <2>2. /\ occ'[o].status = "enqueued" /\ occ'[o].gen = occ[o].gen
        /\ \A p \in Occurrences \ {o} : occ'[p] = occ[p]
    BY <1>1, <2>1, SettledIsRows DEF Terminal
  <2>3. jobs'[o] = jobs[o] + 1 /\ \A p \in Occurrences \ {o} : jobs'[p] = jobs[p]
    BY <1>1, <1>5 DEF TypeOK
  <2>4. JobIffEnqueued'
    <3>1. jobs[o] = 0
      BY <1>1, <2>1 DEF Inv, JobIffEnqueued
    <3>2. jobs'[o] = 1
      BY <2>3, <3>1
    <3> HIDE DEF o
    <3>3. \A p \in Occurrences : jobs'[p] = IF occ'[p].status = "enqueued" THEN 1 ELSE 0
      BY <2>2, <2>3, <3>2 DEF Inv, JobIffEnqueued
    <3> QED BY <3>3 DEF JobIffEnqueued
  <2>5. sched'.gen = sched.gen /\ sched'.def = sched.def /\ sched'.enabled = sched.enabled
    BY <1>1, <1>5 DEF Finish, TypeOK, SchedRows
  <2>6. Declared'
    <3> HIDE DEF o
    <3> QED BY <1>1, <2>2, <2>5 DEF Inv, Declared
  <2> QED BY <2>4, <2>6
<1> QED BY <1>2, <1>3, <1>4, <1>5 DEF Finalise

\* A new generation is carried by no row, or by the rows it takes over.
LEMMA PublishSafe ==
    ASSUME Inv, NEW r \in Runtimes, Publish(r)
    PROVE  JobIffEnqueued' /\ Declared'
<1>1. /\ jobs' = jobs /\ published' = published + 1
      /\ published \in Nat /\ sched \in SchedRows /\ occ \in [Occurrences -> Rows]
  BY ScheduleAssumption DEF Inv, TypeOK, Generations, Publish, PublishFresh, PublishSame,
     PublishDisabled, PublishRemoved, Published
<1>2. \A o \in Occurrences : occ[o].gen \in 0..published
  BY <1>1 DEF Inv, Declared, Rows, RowsOf, Generations
<1>3. CASE occ' = occ /\ (sched'.gen = published + 1 \/ ~sched'.enabled) /\ sched'.gen <= published + 1
  BY <1>1, <1>2, <1>3 DEF Inv, JobIffEnqueued, Declared
<1>4. CASE \E d \in Definitions : PublishSame(r, d)
  <2>1. PICK d \in Definitions : PublishSame(r, d)
    BY <1>4
  <2>2. sched.def = d /\ sched'.gen = published + 1 /\ sched'.def = d
    BY <2>1 DEF PublishSame, Published
  <2>3. ASSUME NEW o \in Occurrences
        PROVE  /\ occ'[o].status = occ[o].status /\ occ'[o].def = occ[o].def
               /\ occ'[o].gen \in 0..(published + 1)
               /\ occ'[o].status = "pending" /\ occ'[o].gen = published + 1 =>
                    occ[o].def = sched.def
    <3>1. occ'[o] = IF /\ occ[o].status = "pending"
                       /\ occ[o].def = sched.def /\ occ[o].gen = sched.gen
                    THEN [occ[o] EXCEPT !.gen = published + 1] ELSE occ[o]
      BY <2>1 DEF PublishSame, Transferred
    <3>2. occ[o] \in Rows /\ occ[o].gen \in 0..published
      BY <1>1, <1>2
    <3> QED BY <1>1, <3>1, <3>2 DEF Rows, RowsOf
  <2> QED BY <1>1, <2>2, <2>3 DEF Inv, JobIffEnqueued, Declared
<1> QED
  <2>1. CASE \E d \in Definitions : PublishFresh(r, d)
    BY <1>1, <1>3, <2>1 DEF PublishFresh, Published
  <2>2. CASE PublishDisabled(r)
    BY <1>1, <1>3, <2>2 DEF PublishDisabled, Published
  <2>3. CASE PublishRemoved(r)
    BY <1>1, <1>3, <2>3 DEF PublishRemoved, NoSchedule
  <2> QED BY <1>4, <2>1, <2>2, <2>3 DEF Publish

-----------------------------------------------------------------------------
(* The theorems.                                                           *)

LEMMA InvInit == Init => Inv
<1> SUFFICES ASSUME Init PROVE Inv
  OBVIOUS
<1>1. TypeOK
  BY InitType
<1>2. JobIffEnqueued
  BY DEF Init, JobIffEnqueued, NoRow
<1>3. Declared
  BY DEF Init, Declared, NoRow, NoSchedule
<1> QED BY <1>1, <1>2, <1>3 DEF Inv

LEMMA InvNext == Inv /\ [Next]_vars => Inv'
<1> SUFFICES ASSUME Inv, [Next]_vars PROVE JobIffEnqueued' /\ Declared'
  BY NextType DEF Inv
<1>1. TypeOK
  BY DEF Inv
<1>2. CASE Tick
  BY <1>1, <1>2, TickIsQuiet, QuietSteps
<1>3. ASSUME UNCHANGED <<published, sched, occ, jobs>>
      PROVE  JobIffEnqueued' /\ Declared'
  BY <1>3, QuietSteps DEF SameDeclaration, Quietly
<1>4. ASSUME NEW r \in Runtimes,
             \/ TimerFires(r) \/ ChunkEnds(r) \/ RecoveryFires(r) \/ ScanFails(r)
             \/ Scan(r) \/ NextRow(r) \/ EndScan(r)
             \/ Stop(r) \/ ClearTimers(r) \/ Close(r) \/ Crash(r)
      PROVE  UNCHANGED <<published, sched, occ, jobs>>
  BY <1>4 DEF TimerFires, ChunkEnds, RecoveryFires, ScanFails, Scan, NextRow, EndScan,
     Stop, ClearTimers, Close, Crash
<1>5. ASSUME NEW r \in Runtimes, NEW w \in Workers, RecordFails(r, w)
      PROVE  UNCHANGED <<published, sched, occ, jobs>>
  BY <1>5 DEF RecordFails, ClaimFails, FinaliseFails, FinishFailedFails
<1>6. ASSUME NEW r \in Runtimes, NEW w \in Workers, Record(r, w)
      PROVE  JobIffEnqueued' /\ Declared'
  BY <1>1, <1>6, ClaimSafe, FinaliseSafe, FinishFailedIsQuiet, QuietSteps DEF Record
<1>7. ASSUME NEW r \in Runtimes, SupersedeRetained(r)
      PROVE  JobIffEnqueued' /\ Declared'
  BY <1>1, <1>7, SupersedeRetainedIsQuiet, QuietSteps
<1>8. ASSUME NEW r \in Runtimes, Publish(r)
      PROVE  JobIffEnqueued' /\ Declared'
  BY <1>8, PublishSafe
<1>9. CASE UNCHANGED vars
  BY <1>3, <1>9 DEF vars
<1> QED BY <1>2, <1>3, <1>4, <1>5, <1>6, <1>7, <1>8, <1>9 DEF Next, Recover

LEMMA Invariance == Spec => []Inv
<1> QED BY InvInit, InvNext, PTL DEF Spec

\* Whatever timers, recoveries, restarts, redeployments and failed transactions do to an
\* occurrence, it has one Job if its row ended as enqueued, and none otherwise.
THEOREM OneJobPerOccurrence == Spec => []JobIffEnqueued
<1>1. Inv => JobIffEnqueued
  BY DEF Inv
<1> QED BY <1>1, Invariance, PTL

LEMMA OnlyFinaliseEnqueues ==
    ASSUME Next, jobs' # jobs
    PROVE  \E r \in Runtimes, w \in Workers : Finalise(r, w)
<1>1. CASE Tick
  BY <1>1 DEF Tick
<1>2. ASSUME NEW r \in Runtimes,
             \/ TimerFires(r) \/ ChunkEnds(r) \/ RecoveryFires(r) \/ ScanFails(r)
             \/ Recover(r) \/ Publish(r)
             \/ Stop(r) \/ ClearTimers(r) \/ Close(r) \/ Crash(r)
      PROVE  jobs' = jobs
  BY <1>2 DEF TimerFires, ChunkEnds, RecoveryFires, ScanFails, Recover, Scan, NextRow,
     SupersedeRetained, EndScan, Publish, Stop, ClearTimers, Close, Crash
<1>3. ASSUME NEW r \in Runtimes, NEW w \in Workers, RecordFails(r, w)
      PROVE  jobs' = jobs
  BY <1>3 DEF RecordFails, ClaimFails, FinaliseFails, FinishFailedFails
<1>4. ASSUME NEW r \in Runtimes, NEW w \in Workers, Record(r, w)
      PROVE  Finalise(r, w)
  BY <1>4 DEF Record, Claim, FinishFailed
<1> QED BY <1>1, <1>2, <1>3, <1>4 DEF Next

LEMMA DeclaredStep ==
    Inv /\ [Next]_vars =>
        [\A o \in Occurrences : jobs'[o] > jobs[o] =>
            sched.enabled /\ occ[o].def = sched.def]_vars
<1> SUFFICES ASSUME Inv, Next, NEW o \in Occurrences, jobs'[o] > jobs[o]
             PROVE  sched.enabled /\ occ[o].def = sched.def
  OBVIOUS
<1>1. jobs[o] \in Nat /\ jobs \in [Occurrences -> Nat]
  BY DEF Inv, TypeOK
<1>2. jobs' # jobs
  BY <1>1
<1>3. \E r \in Runtimes, w \in Workers : Finalise(r, w)
  BY <1>2, OnlyFinaliseEnqueues
<1>4. PICK r \in Runtimes, w \in Workers : Finalise(r, w)
  BY <1>3
<1>5. Live(r) /\ Owns(r, w) /\ jobs' = [jobs EXCEPT ![wk[r][w].o] = @ + 1]
  BY <1>2, <1>4 DEF Finalise
<1>6. o = wk[r][w].o
  BY <1>1, <1>5
<1> QED BY <1>5, <1>6 DEF Live, Owns, Inv, Declared

\* A Job is only ever enqueued for the declaration its occurrence was claimed under,
\* while that declaration is the deployed and enabled one.
THEOREM DeclaredOnly == Spec => EnqueuedAsDeclared
<1> QED BY Invariance, DeclaredStep, PTL DEF Spec, EnqueuedAsDeclared
=============================================================================
