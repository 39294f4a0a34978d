-------------------------- MODULE LiveQueriesProofs --------------------------
(***************************************************************************)
(* Proofs about LiveQueries as MCLiveQueries instantiates it, for any hub: *)
(* any clients, tables, mutations and Jobs, any subscribe messages, any    *)
(* clients that leave or fail.  A subscription at rest is fresh, because   *)
(* what a run or a result has read of a table stays covered: it is still   *)
(* true, or a refresh is to come that knows that it is not.  The row cache *)
(* is safe where all writers share its connection.  Nothing of a           *)
(* terminated user passes the fence, because a fenced client is anonymous  *)
(* or waits to be: no message can bring the user back any more.            *)
(***************************************************************************)
EXTENDS MCLiveQueries, FiniteSetTheorems, TLAPS

-----------------------------------------------------------------------------
(* The inductive invariant                                                 *)

Writers(h) == Hub(h)!Writers
Actors == {"user", "anonymous"}
Ways == {"current", "old"}
Phases == {"idle", "open", "wrote", "committed", "timer", "done", "written", "resource",
           "settled", "published"}
RunTypes(h) == Hub(h)!RunType
Versions(h) == Hub(h)!Versions
Results(h) == Hub(h)!Result
Seen(h) == [h.tables -> Versions(h) \cup {Unread}]

WriterStates(h) == [phase : Phases, table : h.tables \cup {NoTable}]
SubStates(h) ==
  [state : {"unsubscribed", "subscribed", "closed"}, left : 0..h.subscribes,
   reads : {AllTables} \cup SUBSET h.tables, actor : Actors, replacing : BOOLEAN,
   result : {NoResult} \cup Results(h), found : BOOLEAN, fenced : BOOLEAN]
RunPairs(h) == [current : {NoRun} \cup RunTypes(h), old : {NoRun} \cup RunTypes(h)]
Retirements(h) == [phase : {"none", "committed", "replacing", "timer", "done"}, left : SUBSET h.subs]

HubTyped(h) ==
  /\ version \in [h.tables -> Versions(h)]
  /\ cache \in [h.tables -> [Actors -> Versions(h) \cup {NoRows}]]
  /\ dirty \subseteq h.tables \cup {LogTable}
  /\ generation \in 0..Cardinality(Writers(h)) /\ dispatched \in 0..generation
  /\ writer \in [Writers(h) -> WriterStates(h)]
  /\ sub \in [h.subs -> SubStates(h)]
  /\ run \in [h.subs -> RunPairs(h)]
  /\ retirement \in Retirements(h)

\* The shared connection belongs to the mutation in its transaction.
WritersOK(h) ==
  /\ gate \in h.mutations \cup {NoWriter}
  /\ \A w \in Writers(h) :
       /\ writer[w].phase \in {"open", "wrote"} => gate = w
       /\ writer[w].phase \notin {"idle", "open"} => writer[w].table \in h.tables

\* A writer advances the generation once, and a table's version at most once.
Recorded(h) ==
  {w \in Writers(h) : writer[w].phase \in {"wrote", "committed", "timer", "written", "published", "done"}}
Stored(h, t) ==
  {w \in Writers(h) :
     /\ writer[w].table = t
     /\ writer[w].phase \in {"committed", "timer", "written", "settled", "published", "done"}}
Counted(h) ==
  /\ generation <= Cardinality(Recorded(h))
  /\ \A t \in h.tables : version[t] <= Cardinality(Stored(h, t))

\* Somebody will commit a new version of t; has committed it, recorded it in the window and
\* will refresh; or has yet to record it.
Wrote(h, t) == \E w \in Writers(h) : writer[w].phase = "wrote" /\ writer[w].table = t
Announced(h, t) ==
  t \in dirty /\ \E w \in Writers(h) :
    writer[w].phase \in {"committed", "timer", "written", "published"} /\ writer[w].table = t
Unrecorded(h, t) == \E w \in Writers(h) : writer[w].phase = "settled" /\ writer[w].table = t

\* What was read of t is still true, or a refresh to come knows that it is not; and it will
\* be known of a version that is about to be committed.
Covered(h, v, t) ==
  /\ v = version[t] \/ Announced(h, t) \/ Unrecorded(h, t)
  /\ Wrote(h, t) => t \in dirty
Again(r, t) == r.pending /\ t \in r.dirty

RunCovered(h, r) ==
  \A t \in h.tables : r.seen[t] # Unread => Again(r, t) \/ Covered(h, r.seen[t], t)
ResultCovered(h, x, reads) ==
  \A t \in h.tables : x.seen[t] # Unread =>
    (reads = AllTables \/ t \in reads) /\ Covered(h, x.seen[t], t)

IsLive(u) == u.state = "subscribed" /\ ~u.replacing
Awaited(u) == retirement.phase \in {"replacing", "timer"} /\ u.reads = AllTables
AtRest(h, u) ==
  /\ u.result # NoResult /\ (u.fenced => u.result.actor = "anonymous")
  /\ ResultCovered(h, u.result, u.reads)

\* A fenced client is anonymous, or its session is being replaced; and no message under way
\* has found the user's Session once the transaction that deletes it is committed.
FenceOK(u) ==
  /\ u.fenced => retirement.phase # "none" /\ (u.replacing \/ u.actor = "anonymous")
  /\ u.found => retirement.phase = "none"

\* A run belongs to a live subscription, a cancelled one holds no generation, and a fenced
\* client runs nothing of the user; a subscription without a run is covered, or the refresh
\* of a retirement will run it.
ReaderOK(h, s, u, r) ==
  /\ FenceOK(u)
  /\ r.current # NoRun =>
       IsLive(u) /\ (u.fenced => r.current.actor = "anonymous") /\ RunCovered(h, r.current)
  /\ IsLive(u) /\ r.current = NoRun => Awaited(u) \/ AtRest(h, u)
  /\ r.old # NoRun => ~r.old.valid
  /\ s \in retirement.left => u.replacing /\ u.reads = AllTables
ReadersOK(h) == \A s \in h.subs : ReaderOK(h, s, sub[s], run[s])

\* Every writer shares one connection.
Exclusive(h) == h.oneWire /\ h.resourceJobs = {}

\* A SELECT through the cache is in flight; on one wire nobody writes meanwhile, and where all
\* write through it, what is in the cache is true.
Selects(h) == \E s \in h.subs : \E k \in Ways : run[s][k] # NoRun /\ run[s][k].pc = "selected"
Selected(h) ==
  \A s \in h.subs : \A k \in Ways : run[s][k] # NoRun /\ run[s][k].pc = "selected" =>
    /\ h.cachedTable[s] \in h.tables
    /\ run[s][k].seen[h.cachedTable[s]] \in Versions(h)
    /\ Exclusive(h) => run[s][k].seen[h.cachedTable[s]] = version[h.cachedTable[s]]
CacheOK(h) ==
  /\ Selected(h)
  /\ Exclusive(h) =>
       /\ Selects(h) => gate = NoWriter
       /\ \A t \in h.tables : \A a \in Actors :
            cache[t][a] # NoRows => cache[t][a] = version[t] /\ ~Wrote(h, t)

HubInvariant(h) == HubTyped(h) /\ WritersOK(h) /\ Counted(h) /\ CacheOK(h) /\ ReadersOK(h)

\* The constants: where the row cache is used, every writer shares the one connection; and
\* where a user is terminated, its answers come in the order of the statements.
HubConstants(h) ==
  /\ Hub(h)!LiveQueriesAssumption /\ (Uncached(h) \/ Exclusive(h))
  /\ h.oneWire \/ h.owned = {}

LEMMA ConstantFacts ==
  ASSUME NEW h, HubConstants(h)
  PROVE  /\ IsFiniteSet(Writers(h)) /\ Cardinality(Writers(h)) \in Nat
         /\ Versions(h) = 0..Cardinality(Writers(h))
         /\ Writers(h) = h.mutations \cup h.jobs \cup h.resourceJobs
         /\ LogTable \notin h.tables /\ NoTable \notin h.tables /\ NoWriter \notin Writers(h)
         /\ NoRun \notin RunTypes(h) /\ NoResult \notin Results(h)
         /\ Unread \notin Versions(h) /\ NoRows \notin Versions(h)
         /\ h.cachedTable \in [h.subs -> h.tables \cup {NoTable}]
         /\ h.oneWire \in BOOLEAN /\ h.subscribes \in Nat
<1>1. /\ Hub(h)!IsFiniteSet(Writers(h))
      /\ LogTable \notin h.tables /\ NoTable \notin h.tables /\ NoWriter \notin Writers(h)
      /\ NoRun \notin RunTypes(h) /\ NoResult \notin Results(h)
      /\ Unread \notin Nat /\ NoRows \notin Nat
      /\ h.cachedTable \in [h.subs -> h.tables \cup {NoTable}]
      /\ h.oneWire \in BOOLEAN /\ h.subscribes \in Nat
  BY DEF HubConstants, Hub!LiveQueriesAssumption, Writers, RunTypes, Results
<1>2. IsFiniteSet(Writers(h))
  BY <1>1 DEF Hub!IsFiniteSet, IsFiniteSet
<1>3. Cardinality(Writers(h)) \in Nat
  BY <1>2, FS_CardinalityType
<1>4. Versions(h) = 0..Cardinality(Writers(h))
  BY DEF Versions, Writers, Hub!Versions, Hub!Cardinality, Cardinality
<1>5. Writers(h) = h.mutations \cup h.jobs \cup h.resourceJobs
  BY DEF Writers, Hub!Writers
<1> QED BY <1>1, <1>2, <1>3, <1>4, <1>5

RunRecords(h, bound) ==
  [pc : {"querying", "selected", "listed", "failed"}, seen : Seen(h), actor : Actors,
   start : 0..bound, initial : BOOLEAN, pending : BOOLEAN,
   dirty : SUBSET (h.tables \cup {LogTable}), valid : BOOLEAN, cancelled : BOOLEAN]

LEMMA TypeFacts ==
  ASSUME NEW h, HubConstants(h)
  PROVE  /\ Results(h) = [seen : Seen(h), actor : Actors]
         /\ \E bound \in Nat :
              /\ bound = 2 * Cardinality(Writers(h)) + 2
              /\ Hub(h)!GenerationBound = bound
              /\ RunTypes(h) = RunRecords(h, bound)
<1>1. Hub(h)!Reading = Seen(h) /\ Hub(h)!Actors = Actors
  BY DEF Hub!Reading, Seen, Versions, Hub!Actors, Actors
<1>2. PICK n \in Nat : n = Cardinality(Writers(h)) /\ Hub(h)!Cardinality(Hub(h)!Writers) = n
  BY ConstantFacts DEF Writers, Hub!Cardinality, Cardinality
<1>3. Hub(h)!GenerationBound = 2 * n + 2
  BY <1>2 DEF Hub!GenerationBound
<1>4. Results(h) = [seen : Seen(h), actor : Actors]
  BY <1>1 DEF Results, Hub!Result
<1>5. PICK bound \in Nat : bound = 2 * Cardinality(Writers(h)) + 2 /\ Hub(h)!GenerationBound = bound
  BY <1>2, <1>3
<1>6. RunTypes(h) = RunRecords(h, bound)
  BY <1>1, <1>5, Zenon DEF RunTypes, Hub!RunType, RunRecords
<1> QED BY <1>4, <1>5, <1>6

LEMMA RunFields ==
  ASSUME NEW h, HubConstants(h), NEW r \in RunTypes(h)
  PROVE  /\ r # NoRun /\ r.pc \in {"querying", "selected", "listed", "failed"}
         /\ r.seen \in Seen(h) /\ r.actor \in Actors /\ r.initial \in BOOLEAN
         /\ r.dirty \subseteq h.tables \cup {LogTable}
<1>1. PICK bound \in Nat : RunTypes(h) = RunRecords(h, bound)
  BY TypeFacts
<1>2. r \in RunRecords(h, bound)
  BY <1>1
<1>3. /\ r.pc \in {"querying", "selected", "listed", "failed"}
      /\ r.seen \in Seen(h) /\ r.actor \in Actors /\ r.initial \in BOOLEAN
      /\ r.dirty \subseteq h.tables \cup {LogTable}
  BY <1>2 DEF RunRecords
<1> QED BY <1>3, ConstantFacts

LEMMA ResultFields ==
  ASSUME NEW h, HubConstants(h), NEW x \in Results(h)
  PROVE  x.seen \in Seen(h) /\ x.actor \in Actors
<1>1. x \in [seen : Seen(h), actor : Actors]
  BY TypeFacts
<1> QED BY <1>1

\* What the invariant says to the readers of the properties.
LEMMA HubConclusions ==
  ASSUME NEW h, HubConstants(h), HubInvariant(h)
  PROVE  /\ Hub(h)!TypeOK /\ Hub(h)!QuietIsFresh
         /\ Exclusive(h) => Hub(h)!CacheCoherent
<1>1. /\ \A s \in h.subs : sub[s] \in SubStates(h) /\ run[s] \in RunPairs(h)
      /\ \A w \in Writers(h) : writer[w] \in WriterStates(h)
  BY DEF HubInvariant, HubTyped
<1>2. Hub(h)!TypeOK
  <2>1. /\ Hub(h)!Cardinality(Hub(h)!Writers) = Cardinality(Writers(h))
        /\ Hub(h)!Writers = Writers(h) /\ Hub(h)!Versions = Versions(h) /\ Hub(h)!Actors = Actors
        /\ Hub(h)!RunType = RunTypes(h) /\ Hub(h)!Result = Results(h)
    BY DEF Hub!Cardinality, Cardinality, Writers, Versions, Hub!Actors, Actors, RunTypes, Results
  <2>2. \A w \in Writers(h) : writer[w].phase \in Phases /\ writer[w].table \in h.tables \cup {NoTable}
    BY <1>1 DEF WriterStates
  <2>3. ASSUME NEW s \in h.subs
        PROVE  /\ sub[s].state \in {"unsubscribed", "subscribed", "closed"}
               /\ sub[s].left \in 0..h.subscribes /\ sub[s].actor \in Actors /\ sub[s].replacing \in BOOLEAN
               /\ sub[s].found \in BOOLEAN /\ sub[s].fenced \in BOOLEAN
               /\ sub[s].reads = AllTables \/ sub[s].reads \in SUBSET h.tables
               /\ sub[s].result = NoResult \/ sub[s].result \in Results(h)
               /\ \A k \in Ways : run[s][k] = NoRun \/ run[s][k] \in RunTypes(h)
    BY <1>1 DEF SubStates, RunPairs, Ways
  <2> QED BY <2>1, <2>2, <2>3
          DEF Hub!TypeOK, HubInvariant, HubTyped, WritersOK, Phases, Ways, Hub!ReadsType
<1>3. Hub(h)!WritersQuiet => \A t \in h.tables : ~Announced(h, t) /\ ~Unrecorded(h, t)
  BY DEF Hub!WritersQuiet, Announced, Unrecorded, Writers
<1>4. Hub(h)!QuietIsFresh
  <2> SUFFICES ASSUME NEW s \in h.subs, IsLive(sub[s]), run[s].current = NoRun, Hub(h)!WritersQuiet,
                      retirement.phase \in {"none", "committed", "done"}
               PROVE  Hub(h)!Fresh(s)
    BY DEF Hub!QuietIsFresh, Hub!Live, IsLive
  <2>1. AtRest(h, sub[s])
    BY DEF HubInvariant, ReadersOK, ReaderOK, Awaited
  <2>2. \A t \in h.tables : sub[s].result.seen[t] # Unread => sub[s].result.seen[t] = version[t]
    BY <1>3, <2>1 DEF AtRest, ResultCovered, Covered
  <2> QED BY <2>1, <2>2 DEF AtRest, Hub!Fresh, Hub!ReadTables
<1>5. ASSUME Exclusive(h) PROVE Hub(h)!CacheCoherent
  BY <1>5 DEF Hub!CacheCoherent, HubInvariant, CacheOK, Hub!Actors, Actors
<1> QED BY <1>2, <1>4, <1>5

LEMMA SmallModulo == ASSUME NEW a \in Nat, NEW b \in Nat, a < b PROVE a % b = a
OBVIOUS

\* A write advances the generation by one.
LEMMA GenerationAdvances ==
  ASSUME NEW h, HubConstants(h), HubTyped(h), NEW g, Hub(h)!RecordWrite(g)
  PROVE  generation' = generation + 1 /\ dirty' = dirty \cup g /\ dispatched' = dispatched
<1>1. PICK bound \in Nat : /\ bound = 2 * Cardinality(Writers(h)) + 2
                           /\ Hub(h)!GenerationBound = bound
  BY TypeFacts
<1>2. generation + 1 \in Nat /\ generation + 1 < bound
  BY <1>1, ConstantFacts DEF HubTyped
<1>3. (generation + 1) % bound = generation + 1
  BY <1>1, <1>2, SmallModulo
<1> QED BY <1>1, <1>3 DEF Hub!RecordWrite, Hub!Advanced

-----------------------------------------------------------------------------
(* Writers                                                                 *)

\* What a reader has read stays covered.
CoverageKept(h) ==
  \A t \in h.tables : \A v \in Versions(h) : Covered(h, v, t) => Covered(h, v, t)'

\* What a step of a writer does: the readers do not move.
WriterMoves(h) ==
  /\ HubTyped(h)' /\ WritersOK(h)' /\ Counted(h)' /\ CacheOK(h)' /\ CoverageKept(h)
  /\ UNCHANGED <<sub, run, retirement>>

CountsMove(h, w) ==
  /\ Recorded(h) \subseteq Recorded(h)'
  /\ \/ generation' = generation
     \/ generation' = generation + 1 /\ w \in Recorded(h)' /\ w \notin Recorded(h)
  /\ \A t \in h.tables :
       /\ Stored(h, t) \subseteq Stored(h, t)'
       /\ \/ version'[t] = version[t]
          \/ version'[t] = version[t] + 1 /\ w \in Stored(h, t)' /\ w \notin Stored(h, t)

LEMMA SubsetCounts ==
  ASSUME NEW W, IsFiniteSet(W), NEW S \in SUBSET W, NEW T \in SUBSET W, S \subseteq T
  PROVE  /\ Cardinality(S) \in Nat /\ Cardinality(T) \in Nat /\ Cardinality(W) \in Nat
         /\ Cardinality(S) <= Cardinality(T) /\ Cardinality(T) <= Cardinality(W)
         /\ \A w : w \in T /\ w \notin S => Cardinality(S) + 1 <= Cardinality(T)
<1>1. IsFiniteSet(T) /\ IsFiniteSet(S)
  BY FS_Subset
<1>2. Cardinality(S) \in Nat /\ Cardinality(T) \in Nat /\ Cardinality(W) \in Nat
  BY <1>1, FS_CardinalityType
<1>3. Cardinality(S) <= Cardinality(T) /\ Cardinality(T) <= Cardinality(W)
  BY <1>1, FS_Subset
<1>4. ASSUME NEW w, w \in T, w \notin S PROVE Cardinality(S) + 1 <= Cardinality(T)
  <2>1. S # T
    BY <1>4
  <2>2. Cardinality(S) < Cardinality(T)
    BY <1>1, <1>2, <1>3, <2>1, FS_Subset
  <2> QED BY <1>2, <2>2
<1> QED BY <1>2, <1>3, <1>4

LEMMA CountsKept ==
  ASSUME NEW h, HubConstants(h), HubTyped(h), Counted(h), NEW w, CountsMove(h, w),
         version' = [t \in h.tables |-> version'[t]]
  PROVE  /\ Counted(h)' /\ version' \in [h.tables -> Versions(h)]
         /\ generation' \in 0..Cardinality(Writers(h)) /\ generation <= generation'
<1>1. /\ Recorded(h) \in SUBSET Writers(h) /\ Recorded(h)' \in SUBSET Writers(h)
      /\ Recorded(h) \subseteq Recorded(h)'
  BY DEF Recorded, CountsMove, Writers
<1>2. generation \in Nat /\ generation <= Cardinality(Recorded(h))
  BY ConstantFacts DEF HubTyped, Counted
<1>3. /\ Cardinality(Recorded(h)) \in Nat /\ Cardinality(Recorded(h)') \in Nat
      /\ Cardinality(Recorded(h)) <= Cardinality(Recorded(h)')
      /\ Cardinality(Recorded(h)') <= Cardinality(Writers(h))
      /\ w \in Recorded(h)' /\ w \notin Recorded(h) =>
           Cardinality(Recorded(h)) + 1 <= Cardinality(Recorded(h)')
  BY <1>1, ConstantFacts, SubsetCounts
<1>4. /\ generation' \in 0..Cardinality(Writers(h)) /\ generation <= generation'
      /\ generation' <= Cardinality(Recorded(h)')
  BY <1>2, <1>3, ConstantFacts DEF CountsMove
<1>5. ASSUME NEW t \in h.tables
      PROVE  version'[t] \in Versions(h) /\ version'[t] <= Cardinality(Stored(h, t)')
  <2>1. /\ Stored(h, t) \in SUBSET Writers(h) /\ Stored(h, t)' \in SUBSET Writers(h)
        /\ Stored(h, t) \subseteq Stored(h, t)'
    BY DEF Stored, CountsMove, Writers
  <2>2. version[t] \in Nat /\ version[t] <= Cardinality(Stored(h, t))
    BY ConstantFacts DEF HubTyped, Counted
  <2>3. /\ Cardinality(Stored(h, t)) \in Nat /\ Cardinality(Stored(h, t)') \in Nat
        /\ Cardinality(Stored(h, t)) <= Cardinality(Stored(h, t)')
        /\ Cardinality(Stored(h, t)') <= Cardinality(Writers(h))
        /\ w \in Stored(h, t)' /\ w \notin Stored(h, t) =>
             Cardinality(Stored(h, t)) + 1 <= Cardinality(Stored(h, t)')
    BY <2>1, ConstantFacts, SubsetCounts
  <2>4. \/ version'[t] = version[t]
        \/ version'[t] = version[t] + 1 /\ w \in Stored(h, t)' /\ w \notin Stored(h, t)
    BY DEF CountsMove
  <2> QED BY <2>2, <2>3, <2>4, ConstantFacts
<1>6. Counted(h)'
  BY <1>4, <1>5 DEF Counted
<1> QED BY <1>4, <1>5, <1>6

\* One writer moves.
LEMMA OneWriterMoves ==
  ASSUME NEW h, HubTyped(h), NEW w \in Writers(h), NEW x \in WriterStates(h),
         writer' = [writer EXCEPT ![w] = x]
  PROVE  /\ writer' \in [Writers(h) -> WriterStates(h)] /\ writer'[w] = x
         /\ \A v \in Writers(h) : v # w => writer'[v] = writer[v]
BY DEF HubTyped

LEMMA WriterEnters ==
  ASSUME NEW h, HubTyped(h), NEW w \in Writers(h), NEW from, NEW to \in Phases, Hub(h)!Enters(w, from, to)
  PROVE  \E x \in WriterStates(h) :
           /\ x.phase = to /\ x.table = writer[w].table /\ writer[w].phase = from
           /\ writer' = [writer EXCEPT ![w] = x]
<1>1. writer[w] \in WriterStates(h) /\ writer[w].phase = from
  BY DEF HubTyped, Hub!Enters
<1>2. PICK x : x = [writer[w] EXCEPT !.phase = to]
  OBVIOUS
<1>3. x \in WriterStates(h) /\ x.phase = to /\ x.table = writer[w].table
  BY <1>1, <1>2 DEF WriterStates
<1>4. writer' = [writer EXCEPT ![w] = x]
  BY <1>1, <1>2 DEF HubTyped, Hub!Enters
<1> QED BY <1>1, <1>3, <1>4

LEMMA BeginMutationMoves ==
  ASSUME NEW h, HubConstants(h), HubInvariant(h), NEW w \in h.mutations, Hub(h)!BeginMutation(w)
  PROVE  WriterMoves(h)
<1>1. HubTyped(h) /\ WritersOK(h) /\ Counted(h) /\ CacheOK(h) /\ w \in Writers(h) /\ w # NoWriter
  BY ConstantFacts DEF HubInvariant
<1>2. /\ gate = NoWriter /\ gate' = w /\ (h.oneWire => ~Selects(h))
      /\ Hub(h)!Enters(w, "idle", "open")
      /\ UNCHANGED <<version, cache, dirty, generation, dispatched, sub, run, retirement>>
  BY DEF Hub!BeginMutation, Hub!WireFree, Hub!Selecting, Selects, Ways
<1>3. PICK x \in WriterStates(h) :
        /\ x.phase = "open" /\ x.table = writer[w].table /\ writer[w].phase = "idle"
        /\ writer' = [writer EXCEPT ![w] = x]
  BY <1>1, <1>2, WriterEnters DEF Phases
<1>4. /\ writer' \in [Writers(h) -> WriterStates(h)] /\ writer'[w] = x
      /\ \A v \in Writers(h) : v # w => writer'[v] = writer[v]
  BY <1>1, <1>3, OneWriterMoves
<1>5. CountsMove(h, w)
  BY <1>2, <1>3, <1>4 DEF CountsMove, Recorded, Stored
<1>6. version' = [t \in h.tables |-> version'[t]]
  BY <1>1, <1>2 DEF HubTyped
<1>7. Counted(h)'
  BY <1>1, <1>5, <1>6, CountsKept
<1>8. HubTyped(h)'
  BY <1>1, <1>2, <1>4 DEF HubTyped
<1>9. WritersOK(h)'
  BY <1>1, <1>2, <1>3, <1>4, ConstantFacts DEF WritersOK
<1>10. ASSUME NEW t \in h.tables
       PROVE  /\ Wrote(h, t)' <=> Wrote(h, t)
              /\ Announced(h, t)' <=> Announced(h, t)
              /\ Unrecorded(h, t)' <=> Unrecorded(h, t)
  BY <1>1, <1>2, <1>3, <1>4 DEF Wrote, Announced, Unrecorded
<1>11. CoverageKept(h)
  BY <1>2, <1>10 DEF CoverageKept, Covered
<1>12. CacheOK(h)'
  BY <1>1, <1>2, <1>10 DEF CacheOK, Selected, Selects, Exclusive
<1> QED BY <1>2, <1>7, <1>8, <1>9, <1>11, <1>12 DEF WriterMoves

LEMMA WriteInMutationMoves ==
  ASSUME NEW h, HubConstants(h), HubInvariant(h), NEW w \in h.mutations, NEW t \in h.tables,
         Hub(h)!WriteInMutation(w, t)
  PROVE  WriterMoves(h)
<1>1. HubTyped(h) /\ WritersOK(h) /\ Counted(h) /\ CacheOK(h) /\ w \in Writers(h)
  BY ConstantFacts DEF HubInvariant
<1>2. Hub(h)!RecordWrite({t}) /\ Hub(h)!ClearCache
  BY DEF Hub!WriteInMutation
<1>3. PICK x : x = [phase |-> "wrote", table |-> t]
  OBVIOUS
<1>4. /\ writer[w].phase = "open" /\ writer' = [writer EXCEPT ![w] = x]
      /\ cache' = [u \in h.tables |-> [a \in Actors |-> NoRows]]
      /\ dirty' = dirty \cup {t} /\ generation' = generation + 1 /\ dispatched' = dispatched
      /\ UNCHANGED <<version, gate, sub, run, retirement>>
  BY <1>1, <1>2, <1>3, GenerationAdvances DEF Hub!WriteInMutation, Hub!ClearCache, Hub!Actors, Actors
<1>5. x \in WriterStates(h) /\ x.phase = "wrote" /\ x.table = t
  BY <1>3 DEF WriterStates, Phases
<1>6. /\ writer' \in [Writers(h) -> WriterStates(h)] /\ writer'[w] = x
      /\ \A v \in Writers(h) : v # w => writer'[v] = writer[v]
  BY <1>1, <1>4, <1>5, OneWriterMoves
<1>7. CountsMove(h, w)
  BY <1>1, <1>4, <1>5, <1>6 DEF CountsMove, Recorded, Stored
<1>8. version' = [u \in h.tables |-> version'[u]]
  BY <1>1, <1>4 DEF HubTyped
<1>9. Counted(h)' /\ generation' \in 0..Cardinality(Writers(h)) /\ generation <= generation'
  BY <1>1, <1>7, <1>8, CountsKept
<1>10. HubTyped(h)'
  BY <1>1, <1>4, <1>6, <1>9, ConstantFacts DEF HubTyped, Versions
<1>11. WritersOK(h)'
  BY <1>1, <1>4, <1>5, <1>6 DEF WritersOK
<1>12. ASSUME NEW u \in h.tables
       PROVE  /\ Announced(h, u) => Announced(h, u)'
              /\ Unrecorded(h, u) => Unrecorded(h, u)'
              /\ Wrote(h, u)' => Wrote(h, u) \/ u = t
  BY <1>1, <1>4, <1>5, <1>6 DEF Wrote, Announced, Unrecorded
<1>13. CoverageKept(h)
  BY <1>4, <1>12 DEF CoverageKept, Covered
<1>14. CacheOK(h)'
  BY <1>1, <1>4 DEF CacheOK, Selected, Selects, Exclusive
<1> QED BY <1>4, <1>9, <1>10, <1>11, <1>13, <1>14 DEF WriterMoves

LEMMA CommitMutationMoves ==
  ASSUME NEW h, HubConstants(h), HubInvariant(h), NEW w \in h.mutations, Hub(h)!CommitMutation(w)
  PROVE  WriterMoves(h)
<1>1. HubTyped(h) /\ WritersOK(h) /\ Counted(h) /\ CacheOK(h) /\ w \in Writers(h) /\ w # NoWriter
  BY ConstantFacts DEF HubInvariant
<1>2. /\ gate = w /\ gate' = NoWriter /\ Hub(h)!Enters(w, "wrote", "committed")
      /\ version' = [version EXCEPT ![writer[w].table] = @ + 1]
      /\ UNCHANGED <<cache, dirty, generation, dispatched, sub, run, retirement>>
  BY DEF Hub!CommitMutation
<1>3. PICK x \in WriterStates(h) :
        /\ x.phase = "committed" /\ x.table = writer[w].table /\ writer[w].phase = "wrote"
        /\ writer' = [writer EXCEPT ![w] = x]
  BY <1>1, <1>2, WriterEnters DEF Phases
<1>4. PICK t \in h.tables : t = writer[w].table
  BY <1>1, <1>3 DEF WritersOK
<1>5. /\ writer' \in [Writers(h) -> WriterStates(h)] /\ writer'[w] = x
      /\ \A v \in Writers(h) : v # w => writer'[v] = writer[v]
  BY <1>1, <1>3, OneWriterMoves
<1>6. /\ version' = [u \in h.tables |-> version'[u]] /\ version'[t] = version[t] + 1
      /\ \A u \in h.tables : u # t => version'[u] = version[u]
  BY <1>1, <1>2, <1>4 DEF HubTyped
<1>7. CountsMove(h, w)
  BY <1>2, <1>3, <1>4, <1>5, <1>6 DEF CountsMove, Recorded, Stored
<1>8. Counted(h)' /\ version' \in [h.tables -> Versions(h)]
  BY <1>1, <1>6, <1>7, CountsKept
<1>9. HubTyped(h)'
  BY <1>1, <1>2, <1>5, <1>8 DEF HubTyped
<1>10. WritersOK(h)'
  BY <1>1, <1>2, <1>3, <1>4, <1>5 DEF WritersOK
<1>11. ASSUME NEW u \in h.tables
       PROVE  /\ Wrote(h, u)' => Wrote(h, u)
              /\ Announced(h, u) => Announced(h, u)'
              /\ Unrecorded(h, u) => Unrecorded(h, u)'
  BY <1>1, <1>2, <1>3, <1>4, <1>5 DEF Wrote, Announced, Unrecorded
<1>12. Wrote(h, t) /\ (t \in dirty => Announced(h, t)')
  BY <1>1, <1>2, <1>3, <1>4, <1>5 DEF Wrote, Announced
<1>13. CoverageKept(h)
  BY <1>2, <1>6, <1>11, <1>12 DEF CoverageKept, Covered
<1>14. CacheOK(h)'
  BY <1>1, <1>2, <1>6, <1>11, <1>12 DEF CacheOK, Selected, Selects
<1> QED BY <1>2, <1>8, <1>9, <1>10, <1>13, <1>14 DEF WriterMoves

LEMMA RollBackMutationMoves ==
  ASSUME NEW h, HubConstants(h), HubInvariant(h), NEW w \in h.mutations, Hub(h)!RollBackMutation(w)
  PROVE  WriterMoves(h)
<1>1. HubTyped(h) /\ WritersOK(h) /\ Counted(h) /\ CacheOK(h) /\ w \in Writers(h) /\ w # NoWriter
  BY ConstantFacts DEF HubInvariant
<1>2. /\ gate = w /\ gate' = NoWriter /\ Hub(h)!Enters(w, "wrote", "done")
      /\ cache' = [u \in h.tables |-> [a \in Actors |-> NoRows]]
      /\ UNCHANGED <<version, dirty, generation, dispatched, sub, run, retirement>>
  BY DEF Hub!RollBackMutation, Hub!ClearCache, Hub!Actors, Actors
<1>3. PICK x \in WriterStates(h) :
        /\ x.phase = "done" /\ x.table = writer[w].table /\ writer[w].phase = "wrote"
        /\ writer' = [writer EXCEPT ![w] = x]
  BY <1>1, <1>2, WriterEnters DEF Phases
<1>4. writer[w].table \in h.tables
  BY <1>1, <1>3 DEF WritersOK
<1>5. /\ writer' \in [Writers(h) -> WriterStates(h)] /\ writer'[w] = x
      /\ \A v \in Writers(h) : v # w => writer'[v] = writer[v]
  BY <1>1, <1>3, OneWriterMoves
<1>6. version' = [u \in h.tables |-> version'[u]]
  BY <1>1, <1>2 DEF HubTyped
<1>7. CountsMove(h, w)
  BY <1>2, <1>3, <1>5 DEF CountsMove, Recorded, Stored
<1>8. Counted(h)'
  BY <1>1, <1>6, <1>7, CountsKept
<1>9. HubTyped(h)'
  BY <1>1, <1>2, <1>5 DEF HubTyped
<1>10. WritersOK(h)'
  BY <1>1, <1>2, <1>3, <1>4, <1>5 DEF WritersOK
<1>11. ASSUME NEW u \in h.tables
       PROVE  /\ Wrote(h, u)' => Wrote(h, u)
              /\ Announced(h, u) => Announced(h, u)'
              /\ Unrecorded(h, u) => Unrecorded(h, u)'
  BY <1>1, <1>2, <1>3, <1>5 DEF Wrote, Announced, Unrecorded
<1>12. CoverageKept(h)
  BY <1>2, <1>11 DEF CoverageKept, Covered
<1>13. CacheOK(h)'
  BY <1>1, <1>2 DEF CacheOK, Selected, Selects
<1> QED BY <1>2, <1>8, <1>9, <1>10, <1>12, <1>13 DEF WriterMoves

LEMMA AnswerMutationMoves ==
  ASSUME NEW h, HubConstants(h), HubInvariant(h), NEW w \in h.mutations, Hub(h)!AnswerMutation(w)
  PROVE  WriterMoves(h)
<1>1. HubTyped(h) /\ WritersOK(h) /\ Counted(h) /\ CacheOK(h) /\ w \in Writers(h) /\ w # NoWriter
  BY ConstantFacts DEF HubInvariant
<1>2. /\ Hub(h)!Enters(w, "committed", "timer")
      /\ cache' = [u \in h.tables |-> [a \in Actors |-> NoRows]]
      /\ UNCHANGED <<version, gate, dirty, generation, dispatched, sub, run, retirement>>
  BY DEF Hub!AnswerMutation, Hub!ClearCache, Hub!Actors, Actors
<1>3. PICK x \in WriterStates(h) :
        /\ x.phase = "timer" /\ x.table = writer[w].table /\ writer[w].phase = "committed"
        /\ writer' = [writer EXCEPT ![w] = x]
  BY <1>1, <1>2, WriterEnters DEF Phases
<1>4. writer[w].table \in h.tables
  BY <1>1, <1>3 DEF WritersOK
<1>5. /\ writer' \in [Writers(h) -> WriterStates(h)] /\ writer'[w] = x
      /\ \A v \in Writers(h) : v # w => writer'[v] = writer[v]
  BY <1>1, <1>3, OneWriterMoves
<1>6. version' = [u \in h.tables |-> version'[u]]
  BY <1>1, <1>2 DEF HubTyped
<1>7. CountsMove(h, w)
  BY <1>2, <1>3, <1>5 DEF CountsMove, Recorded, Stored
<1>8. Counted(h)'
  BY <1>1, <1>6, <1>7, CountsKept
<1>9. HubTyped(h)'
  BY <1>1, <1>2, <1>5 DEF HubTyped
<1>10. WritersOK(h)'
  BY <1>1, <1>2, <1>3, <1>4, <1>5 DEF WritersOK
<1>11. ASSUME NEW u \in h.tables
       PROVE  /\ Wrote(h, u)' => Wrote(h, u)
              /\ Announced(h, u) => Announced(h, u)'
              /\ Unrecorded(h, u) => Unrecorded(h, u)'
  BY <1>1, <1>2, <1>3, <1>5 DEF Wrote, Announced, Unrecorded
<1>12. CoverageKept(h)
  BY <1>2, <1>11 DEF CoverageKept, Covered
<1>13. CacheOK(h)'
  BY <1>1, <1>2 DEF CacheOK, Selected, Selects
<1> QED BY <1>2, <1>8, <1>9, <1>10, <1>12, <1>13 DEF WriterMoves

LEMMA WriteInJobMoves ==
  ASSUME NEW h, HubConstants(h), HubInvariant(h), NEW w \in h.jobs, NEW t \in h.tables,
         Hub(h)!WriteInJob(w, t)
  PROVE  WriterMoves(h)
<1>1. HubTyped(h) /\ WritersOK(h) /\ Counted(h) /\ CacheOK(h) /\ w \in Writers(h) /\ w # NoWriter
  BY ConstantFacts DEF HubInvariant
<1>2. Hub(h)!RecordWrite({t})
  BY DEF Hub!WriteInJob
<1>3. PICK x : x = [phase |-> "written", table |-> t]
  OBVIOUS
<1>4. /\ writer[w].phase = "idle" /\ writer' = [writer EXCEPT ![w] = x]
      /\ gate = NoWriter /\ (h.oneWire => ~Selects(h))
      /\ version' = [version EXCEPT ![t] = @ + 1]
      /\ cache' = [u \in h.tables |-> [a \in Actors |-> NoRows]]
      /\ dirty' = dirty \cup {t} /\ generation' = generation + 1 /\ dispatched' = dispatched
      /\ UNCHANGED <<gate, sub, run, retirement>>
  BY <1>1, <1>2, <1>3, GenerationAdvances
     DEF Hub!WriteInJob, Hub!ClearCache, Hub!Actors, Actors, Hub!WireFree, Hub!Selecting, Selects, Ways
<1>5. x \in WriterStates(h) /\ x.phase = "written" /\ x.table = t
  BY <1>3 DEF WriterStates, Phases
<1>6. /\ writer' \in [Writers(h) -> WriterStates(h)] /\ writer'[w] = x
      /\ \A v \in Writers(h) : v # w => writer'[v] = writer[v]
  BY <1>1, <1>4, <1>5, OneWriterMoves
<1>7. /\ version' = [u \in h.tables |-> version'[u]] /\ version'[t] = version[t] + 1
      /\ \A u \in h.tables : u # t => version'[u] = version[u]
  BY <1>1, <1>4 DEF HubTyped
<1>8. CountsMove(h, w)
  BY <1>1, <1>4, <1>5, <1>6, <1>7 DEF CountsMove, Recorded, Stored
<1>9. /\ Counted(h)' /\ version' \in [h.tables -> Versions(h)]
      /\ generation' \in 0..Cardinality(Writers(h)) /\ generation <= generation'
  BY <1>1, <1>7, <1>8, CountsKept
<1>10. HubTyped(h)'
  BY <1>1, <1>4, <1>6, <1>9, ConstantFacts DEF HubTyped, Versions
<1>11. WritersOK(h)'
  BY <1>1, <1>4, <1>5, <1>6 DEF WritersOK
<1>12. ASSUME NEW u \in h.tables
       PROVE  /\ Announced(h, u) => Announced(h, u)'
              /\ Unrecorded(h, u) => Unrecorded(h, u)'
              /\ Wrote(h, u)' => Wrote(h, u)
  BY <1>1, <1>4, <1>5, <1>6 DEF Wrote, Announced, Unrecorded
<1>13. Announced(h, t)'
  BY <1>1, <1>4, <1>5, <1>6 DEF Announced
<1>14. CoverageKept(h)
  BY <1>4, <1>7, <1>12, <1>13 DEF CoverageKept, Covered
<1>15. CacheOK(h)'
  BY <1>1, <1>4, <1>7 DEF CacheOK, Selected, Selects, Exclusive
<1> QED BY <1>4, <1>9, <1>10, <1>11, <1>14, <1>15 DEF WriterMoves

LEMMA WriteInResourceMoves ==
  ASSUME NEW h, HubConstants(h), HubInvariant(h), NEW w \in h.resourceJobs, NEW t \in h.tables,
         Hub(h)!WriteInResource(w, t)
  PROVE  WriterMoves(h)
<1>1. HubTyped(h) /\ WritersOK(h) /\ Counted(h) /\ CacheOK(h) /\ w \in Writers(h) /\ w # NoWriter
  BY ConstantFacts DEF HubInvariant
<1>2. PICK x : x = [phase |-> "resource", table |-> t]
  OBVIOUS
<1>3. /\ writer[w].phase = "idle" /\ writer' = [writer EXCEPT ![w] = x]
      /\ cache' = [u \in h.tables |-> [a \in Actors |-> NoRows]]
      /\ UNCHANGED <<version, gate, dirty, generation, dispatched, sub, run, retirement>>
  BY <1>2 DEF Hub!WriteInResource, Hub!ClearCache, Hub!Actors, Actors
<1>4. x \in WriterStates(h) /\ x.phase = "resource" /\ x.table = t
  BY <1>2 DEF WriterStates, Phases
<1>5. /\ writer' \in [Writers(h) -> WriterStates(h)] /\ writer'[w] = x
      /\ \A v \in Writers(h) : v # w => writer'[v] = writer[v]
  BY <1>1, <1>3, <1>4, OneWriterMoves
<1>6. version' = [u \in h.tables |-> version'[u]]
  BY <1>1, <1>3 DEF HubTyped
<1>7. CountsMove(h, w)
  BY <1>1, <1>3, <1>4, <1>5 DEF CountsMove, Recorded, Stored
<1>8. Counted(h)'
  BY <1>1, <1>6, <1>7, CountsKept
<1>9. HubTyped(h)'
  BY <1>1, <1>3, <1>5 DEF HubTyped
<1>10. WritersOK(h)'
  BY <1>1, <1>3, <1>4, <1>5 DEF WritersOK
<1>11. ASSUME NEW u \in h.tables
       PROVE  /\ Wrote(h, u)' => Wrote(h, u)
              /\ Announced(h, u) => Announced(h, u)'
              /\ Unrecorded(h, u) => Unrecorded(h, u)'
  BY <1>1, <1>3, <1>4, <1>5 DEF Wrote, Announced, Unrecorded
<1>12. CoverageKept(h)
  BY <1>3, <1>11 DEF CoverageKept, Covered
<1>13. CacheOK(h)'
  BY <1>1, <1>3 DEF CacheOK, Selected, Selects
<1> QED BY <1>3, <1>8, <1>9, <1>10, <1>12, <1>13 DEF WriterMoves

LEMMA CommitResourceMoves ==
  ASSUME NEW h, HubConstants(h), HubInvariant(h), NEW w \in h.resourceJobs, Hub(h)!CommitResource(w)
  PROVE  WriterMoves(h)
<1>1. HubTyped(h) /\ WritersOK(h) /\ Counted(h) /\ CacheOK(h) /\ w \in Writers(h) /\ w # NoWriter
  BY ConstantFacts DEF HubInvariant
<1>2. /\ Hub(h)!Enters(w, "resource", "settled")
      /\ version' = [version EXCEPT ![writer[w].table] = @ + 1]
      /\ UNCHANGED <<cache, gate, dirty, generation, dispatched, sub, run, retirement>>
  BY DEF Hub!CommitResource
<1>3. PICK x \in WriterStates(h) :
        /\ x.phase = "settled" /\ x.table = writer[w].table /\ writer[w].phase = "resource"
        /\ writer' = [writer EXCEPT ![w] = x]
  BY <1>1, <1>2, WriterEnters DEF Phases
<1>4. PICK t \in h.tables : t = writer[w].table
  BY <1>1, <1>3 DEF WritersOK
<1>5. /\ writer' \in [Writers(h) -> WriterStates(h)] /\ writer'[w] = x
      /\ \A v \in Writers(h) : v # w => writer'[v] = writer[v]
  BY <1>1, <1>3, OneWriterMoves
<1>6. /\ version' = [u \in h.tables |-> version'[u]] /\ version'[t] = version[t] + 1
      /\ \A u \in h.tables : u # t => version'[u] = version[u]
  BY <1>1, <1>2, <1>4 DEF HubTyped
<1>7. CountsMove(h, w)
  BY <1>1, <1>2, <1>3, <1>4, <1>5, <1>6 DEF CountsMove, Recorded, Stored
<1>8. Counted(h)' /\ version' \in [h.tables -> Versions(h)]
  BY <1>1, <1>6, <1>7, CountsKept
<1>9. HubTyped(h)'
  BY <1>1, <1>2, <1>5, <1>8 DEF HubTyped
<1>10. WritersOK(h)'
  BY <1>1, <1>2, <1>3, <1>4, <1>5 DEF WritersOK
<1>11. ASSUME NEW u \in h.tables
       PROVE  /\ Wrote(h, u)' => Wrote(h, u)
              /\ Announced(h, u) => Announced(h, u)'
              /\ Unrecorded(h, u) => Unrecorded(h, u)'
  BY <1>1, <1>2, <1>3, <1>4, <1>5 DEF Wrote, Announced, Unrecorded
<1>12. Unrecorded(h, t)'
  BY <1>1, <1>3, <1>4, <1>5 DEF Unrecorded
<1>13. CoverageKept(h)
  BY <1>2, <1>6, <1>11, <1>12 DEF CoverageKept, Covered
<1>14. CacheOK(h)'
  BY <1>1, <1>2 DEF CacheOK, Selected, Selects, Exclusive
<1> QED BY <1>2, <1>8, <1>9, <1>10, <1>13, <1>14 DEF WriterMoves

LEMMA PublishResourceMoves ==
  ASSUME NEW h, HubConstants(h), HubInvariant(h), NEW w \in h.resourceJobs, Hub(h)!PublishResource(w)
  PROVE  WriterMoves(h)
<1>1. HubTyped(h) /\ WritersOK(h) /\ Counted(h) /\ CacheOK(h) /\ w \in Writers(h) /\ w # NoWriter
  BY ConstantFacts DEF HubInvariant
<1>2. PICK t \in h.tables : t = writer[w].table
  BY <1>1 DEF WritersOK, Hub!PublishResource, Hub!Enters
<1>3. /\ Hub(h)!Enters(w, "settled", "published") /\ Hub(h)!RecordWrite({t})
      /\ UNCHANGED <<version, cache, gate, sub, run, retirement>>
  BY <1>2 DEF Hub!PublishResource
<1>4. PICK x \in WriterStates(h) :
        /\ x.phase = "published" /\ x.table = writer[w].table /\ writer[w].phase = "settled"
        /\ writer' = [writer EXCEPT ![w] = x]
  BY <1>1, <1>3, WriterEnters DEF Phases
<1>5. dirty' = dirty \cup {t} /\ generation' = generation + 1 /\ dispatched' = dispatched
  BY <1>1, <1>3, GenerationAdvances
<1>6. /\ writer' \in [Writers(h) -> WriterStates(h)] /\ writer'[w] = x
      /\ \A v \in Writers(h) : v # w => writer'[v] = writer[v]
  BY <1>1, <1>4, OneWriterMoves
<1>7. version' = [u \in h.tables |-> version'[u]]
  BY <1>1, <1>3 DEF HubTyped
<1>8. CountsMove(h, w)
  BY <1>1, <1>3, <1>4, <1>5, <1>6 DEF CountsMove, Recorded, Stored
<1>9. Counted(h)' /\ generation' \in 0..Cardinality(Writers(h)) /\ generation <= generation'
  BY <1>1, <1>7, <1>8, CountsKept
<1>10. HubTyped(h)'
  BY <1>1, <1>3, <1>5, <1>6, <1>9, ConstantFacts DEF HubTyped, Versions
<1>11. WritersOK(h)'
  BY <1>1, <1>2, <1>3, <1>4, <1>6 DEF WritersOK
<1>12. ASSUME NEW u \in h.tables
       PROVE  /\ Wrote(h, u)' => Wrote(h, u)
              /\ Announced(h, u) => Announced(h, u)'
              /\ Unrecorded(h, u) => Unrecorded(h, u)' \/ u = t
  BY <1>1, <1>2, <1>4, <1>5, <1>6 DEF Wrote, Announced, Unrecorded
<1>13. Announced(h, t)'
  BY <1>1, <1>2, <1>4, <1>5, <1>6 DEF Announced
<1>14. CoverageKept(h)
  BY <1>3, <1>5, <1>12, <1>13 DEF CoverageKept, Covered
<1>15. CacheOK(h)'
  BY <1>1, <1>3, <1>12 DEF CacheOK, Selected, Selects, Exclusive
<1> QED BY <1>3, <1>9, <1>10, <1>11, <1>14, <1>15 DEF WriterMoves

LEMMA ResourceCommittedMoves ==
  ASSUME NEW h, HubConstants(h), HubInvariant(h), NEW w \in h.resourceJobs, Hub(h)!ResourceCommitted(w)
  PROVE  WriterMoves(h)
<1>1. HubTyped(h) /\ WritersOK(h) /\ Counted(h) /\ CacheOK(h) /\ w \in Writers(h) /\ w # NoWriter
  BY ConstantFacts DEF HubInvariant
<1>2. /\ Hub(h)!Enters(w, "published", "written")
      /\ cache' = [u \in h.tables |-> [a \in Actors |-> NoRows]]
      /\ UNCHANGED <<version, gate, dirty, generation, dispatched, sub, run, retirement>>
  BY DEF Hub!ResourceCommitted, Hub!ClearCache, Hub!Actors, Actors
<1>3. PICK x \in WriterStates(h) :
        /\ x.phase = "written" /\ x.table = writer[w].table /\ writer[w].phase = "published"
        /\ writer' = [writer EXCEPT ![w] = x]
  BY <1>1, <1>2, WriterEnters DEF Phases
<1>4. writer[w].table \in h.tables
  BY <1>1, <1>3 DEF WritersOK
<1>5. /\ writer' \in [Writers(h) -> WriterStates(h)] /\ writer'[w] = x
      /\ \A v \in Writers(h) : v # w => writer'[v] = writer[v]
  BY <1>1, <1>3, OneWriterMoves
<1>6. version' = [u \in h.tables |-> version'[u]]
  BY <1>1, <1>2 DEF HubTyped
<1>7. CountsMove(h, w)
  BY <1>2, <1>3, <1>5 DEF CountsMove, Recorded, Stored
<1>8. Counted(h)'
  BY <1>1, <1>6, <1>7, CountsKept
<1>9. HubTyped(h)'
  BY <1>1, <1>2, <1>5 DEF HubTyped
<1>10. WritersOK(h)'
  BY <1>1, <1>2, <1>3, <1>4, <1>5 DEF WritersOK
<1>11. ASSUME NEW u \in h.tables
       PROVE  /\ Wrote(h, u)' => Wrote(h, u)
              /\ Announced(h, u) => Announced(h, u)'
              /\ Unrecorded(h, u) => Unrecorded(h, u)'
  BY <1>1, <1>2, <1>3, <1>5 DEF Wrote, Announced, Unrecorded
<1>12. CoverageKept(h)
  BY <1>2, <1>11 DEF CoverageKept, Covered
<1>13. CacheOK(h)'
  BY <1>1, <1>2 DEF CacheOK, Selected, Selects
<1> QED BY <1>2, <1>8, <1>9, <1>10, <1>12, <1>13 DEF WriterMoves

LEMMA WriterKeepsInvariant ==
  ASSUME NEW h, HubConstants(h), HubInvariant(h), WriterMoves(h)
  PROVE  HubInvariant(h)'
<1>1. /\ HubTyped(h) /\ ReadersOK(h) /\ CoverageKept(h) /\ sub' = sub /\ run' = run
      /\ retirement' = retirement
  BY DEF HubInvariant, WriterMoves
<1>2. ASSUME NEW s \in h.subs PROVE ReaderOK(h, s, sub[s], run[s])'
  <2>1. PICK u \in SubStates(h) : u = sub[s] /\ sub'[s] = u
    BY <1>1 DEF HubTyped
  <2>2. PICK r \in RunPairs(h) : r = run[s] /\ run'[s] = r
    BY <1>1 DEF HubTyped
  <2>3. ReaderOK(h, s, u, r)
    BY <1>1, <2>1, <2>2 DEF ReadersOK
  <2>4. ASSUME RunCovered(h, r.current), r.current # NoRun PROVE RunCovered(h, r.current)'
    <3>1. r.current.seen \in Seen(h)
      BY <2>2, <2>4, RunFields DEF RunPairs
    <3> QED BY <1>1, <2>4, <3>1 DEF RunCovered, CoverageKept, Seen
  <2>5. ASSUME AtRest(h, u) PROVE AtRest(h, u)'
    <3>1. u.result.seen \in Seen(h)
      BY <2>1, <2>5, ResultFields DEF SubStates, AtRest
    <3> QED BY <1>1, <2>5, <3>1 DEF AtRest, ResultCovered, CoverageKept, Seen
  <2> QED BY <1>1, <2>1, <2>2, <2>3, <2>4, <2>5 DEF ReaderOK, Awaited, FenceOK
<1>3. ReadersOK(h)'
  BY <1>2 DEF ReadersOK
<1> QED BY <1>3 DEF HubInvariant, WriterMoves

-----------------------------------------------------------------------------
(* Readers                                                                 *)

IsNew(h, a, n) == n = Hub(h)!NewRun(a, TRUE) \/ n = Hub(h)!NewRun(a, FALSE)

LEMMA RunIsNew ==
  ASSUME NEW h, HubConstants(h), HubTyped(h), NEW a \in Actors,
         NEW n, IsNew(h, a, n)
  PROVE  /\ n \in RunTypes(h) /\ n # NoRun /\ n.pc = "querying" /\ n.actor = a
         /\ \A t \in h.tables : n.seen[t] = Unread
<1>1. PICK bound \in Nat :
        /\ bound = 2 * Cardinality(Writers(h)) + 2
        /\ RunTypes(h) = RunRecords(h, bound)
  BY TypeFacts
<1>2. generation \in 0..bound
  BY <1>1, ConstantFacts DEF HubTyped
<1>4. PICK seen : seen = [t \in h.tables |-> Unread]
  OBVIOUS
<1>5. seen \in Seen(h)
  BY <1>4 DEF Seen
<1>6. PICK i \in BOOLEAN :
        n = [pc |-> "querying", seen |-> seen, actor |-> a, start |-> generation,
             initial |-> i, pending |-> FALSE, dirty |-> {}, valid |-> TRUE, cancelled |-> FALSE]
  BY <1>4 DEF IsNew, Hub!NewRun
<1>7. n \in RunRecords(h, bound)
  BY <1>2, <1>5, <1>6 DEF RunRecords
<1>8. n.pc = "querying" /\ n.actor = a /\ n.seen = seen
  BY <1>6
<1> QED BY <1>1, <1>4, <1>7, <1>8, ConstantFacts

LEMMA RunIsMarked ==
  ASSUME NEW h, HubConstants(h), NEW r \in RunTypes(h), NEW d \in SUBSET (h.tables \cup {LogTable}),
         NEW m, m = Hub(h)!MarkPending(r, d)
  PROVE  /\ m \in RunTypes(h) /\ m # NoRun /\ m.pc = r.pc /\ m.seen = r.seen /\ m.actor = r.actor
         /\ m.pending /\ m.dirty = r.dirty \cup d
<1>1. PICK bound \in Nat :
        RunTypes(h) = RunRecords(h, bound)
  BY TypeFacts
<1>2. m = [r EXCEPT !.pending = TRUE, !.dirty = r.dirty \cup d]
  BY DEF Hub!MarkPending
<1>3. r \in RunRecords(h, bound)
  BY <1>1
<1>4. m \in RunRecords(h, bound)
  BY <1>2, <1>3 DEF RunRecords
<1>5. m.pc = r.pc /\ m.seen = r.seen /\ m.actor = r.actor /\ m.pending /\ m.dirty = r.dirty \cup d
  BY <1>2, <1>3 DEF RunRecords
<1> QED BY <1>1, <1>4, <1>5, ConstantFacts

LEMMA RunIsSuperseded ==
  ASSUME NEW h, HubConstants(h), NEW r \in {NoRun} \cup RunTypes(h), NEW q, q = Hub(h)!Superseded(r)
  PROVE  /\ q \in {NoRun} \cup RunTypes(h)
         /\ q # NoRun => r # NoRun /\ q.pc = r.pc /\ q.seen = r.seen /\ ~q.valid
<1>1. PICK bound \in Nat :
        RunTypes(h) = RunRecords(h, bound)
  BY TypeFacts
<1>2. CASE r = NoRun
  BY <1>2 DEF Hub!Superseded
<1>3. CASE r # NoRun
  <2>1. q = [r EXCEPT !.valid = FALSE]
    BY <1>3 DEF Hub!Superseded
  <2>2. r \in RunRecords(h, bound)
    BY <1>1, <1>3
  <2>3. q \in RunRecords(h, bound) /\ q.pc = r.pc /\ q.seen = r.seen /\ ~q.valid
    BY <2>1, <2>2 DEF RunRecords
  <2> QED BY <1>1, <1>3, <2>3
<1> QED BY <1>2, <1>3

LEMMA RunIsCancelled ==
  ASSUME NEW h, HubConstants(h), NEW r \in RunTypes(h), NEW q, q = Hub(h)!Cancelled(r)
  PROVE  q \in RunTypes(h) /\ q.pc = r.pc /\ q.seen = r.seen /\ ~q.valid
<1>1. PICK bound \in Nat :
        RunTypes(h) = RunRecords(h, bound)
  BY TypeFacts
<1>2. q = [r EXCEPT !.cancelled = TRUE, !.valid = FALSE, !.dirty = {}, !.pending = FALSE]
  BY ConstantFacts DEF Hub!Cancelled
<1>3. r \in RunRecords(h, bound)
  BY <1>1
<1>4. q \in RunRecords(h, bound) /\ q.pc = r.pc /\ q.seen = r.seen /\ ~q.valid
  BY <1>2, <1>3 DEF RunRecords
<1> QED BY <1>1, <1>4

\* Whose SELECT is in flight after a step had it in flight before.
SelectsBefore(h, s) ==
  \A k \in Ways : run'[s][k] # NoRun /\ run'[s][k].pc = "selected" =>
    \E j \in Ways : /\ run[s][j] # NoRun /\ run[s][j].pc = "selected"
                    /\ run[s][j].seen = run'[s][k].seen

ReaderMoves(h, s) ==
  /\ sub'[s] \in SubStates(h) /\ run'[s] \in RunPairs(h)
  /\ ReaderOK(h, s, sub[s], run[s])' /\ SelectsBefore(h, s)

\* What a step of the readers does to the rest.
RestMoves(h) ==
  /\ version' = version /\ cache' = cache /\ gate' = gate
  /\ generation' = generation /\ dispatched' \in 0..generation
  /\ dirty' \subseteq h.tables \cup {LogTable}
  /\ writer' \in [Writers(h) -> WriterStates(h)] /\ WritersOK(h)' /\ Counted(h)'
  /\ retirement' \in Retirements(h)
  /\ \A t \in h.tables : Wrote(h, t)' => Wrote(h, t)

LEMMA ReadersKeepInvariant ==
  ASSUME NEW h, HubConstants(h), HubInvariant(h), RestMoves(h), \A s \in h.subs : ReaderMoves(h, s),
         sub' = [s \in h.subs |-> sub'[s]], run' = [s \in h.subs |-> run'[s]]
  PROVE  HubInvariant(h)'
<1>1. HubTyped(h)'
  BY DEF HubInvariant, HubTyped, RestMoves, ReaderMoves
<1>2. ReadersOK(h)'
  BY DEF ReadersOK, ReaderMoves
<1>3. Selected(h)' /\ (Selects(h)' => Selects(h))
  <2>1. \A s \in h.subs : SelectsBefore(h, s)
    BY DEF ReaderMoves
  <2>2. version' = version
    BY DEF RestMoves
  <2>3. Selected(h)
    BY DEF HubInvariant, CacheOK
  <2> QED BY <2>1, <2>2, <2>3 DEF Selected, Selects, SelectsBefore
<1>4. CacheOK(h)'
  BY <1>3 DEF HubInvariant, CacheOK, RestMoves
<1> QED BY <1>1, <1>2, <1>4 DEF HubInvariant, RestMoves

\* A step that takes the window: the tables in it are told to every reader.
TakesWindow(h) ==
  /\ dirty' = {} /\ version' = version
  /\ \A t \in h.tables : (Wrote(h, t)' => Wrote(h, t)) /\ (Unrecorded(h, t) => Unrecorded(h, t)')

LEMMA OutsideTheWindow ==
  ASSUME NEW h, TakesWindow(h), NEW t \in h.tables, NEW v, t \notin dirty, Covered(h, v, t)
  PROVE  Covered(h, v, t)'
BY DEF TakesWindow, Covered, Announced

LEMMA MarkedRunIsCovered ==
  ASSUME NEW h, HubConstants(h), HubTyped(h), TakesWindow(h), NEW r \in RunTypes(h), RunCovered(h, r),
         NEW m, m = Hub(h)!MarkPending(r, dirty)
  PROVE  RunCovered(h, m)'
<1>1. PICK d \in SUBSET (h.tables \cup {LogTable}) : d = dirty
  BY DEF HubTyped
<1>2. m.seen = r.seen /\ m.pending /\ m.dirty = r.dirty \cup d
  BY <1>1, RunIsMarked
<1>3. ASSUME NEW t \in h.tables, r.seen[t] # Unread, ~Again(m, t) PROVE Covered(h, r.seen[t], t)'
  <2>1. t \notin dirty /\ ~Again(r, t)
    BY <1>1, <1>2, <1>3 DEF Again
  <2>2. Covered(h, r.seen[t], t)
    BY <1>3, <2>1 DEF RunCovered
  <2> QED BY <2>1, <2>2, OutsideTheWindow
<1> QED BY <1>2, <1>3 DEF RunCovered

\* What holds of a client's fence goes on holding while no termination begins.
PhaseStays == retirement'.phase = "none" <=> retirement.phase = "none"

LEMMA FenceStays ==
  ASSUME NEW u, FenceOK(u), PhaseStays
  PROVE  FenceOK(u)'
BY DEF FenceOK, PhaseStays

\* RefreshQueries for one reader: a run in progress is told, a subscription at rest runs
\* again when it read a table of the window or waits for the refresh of a retirement.
LEMMA RefreshedReader ==
  ASSUME NEW h, HubConstants(h), HubTyped(h), TakesWindow(h), NEW s \in h.subs,
         ReaderOK(h, s, sub[s], run[s]), NEW reads, reads[s] = sub[s].reads,
         run'[s] = Hub(h)!Refreshed(run, reads, dirty)[s], sub'[s] = sub[s],
         retirement'.left \subseteq retirement.left, PhaseStays
  PROVE  ReaderMoves(h, s)
<1>1. PICK u \in SubStates(h) : u = sub[s] /\ sub'[s] = u
  BY DEF HubTyped
<1>2. PICK r \in RunPairs(h) : r = run[s]
  BY DEF HubTyped
<1>3. PICK d \in SUBSET (h.tables \cup {LogTable}) : d = dirty
  BY DEF HubTyped
<1>4. ReaderOK(h, s, u, r)
  BY <1>1, <1>2
<1>5. /\ s \in retirement'.left => u.replacing /\ u.reads = AllTables
      /\ FenceOK(u)'
  BY <1>4, FenceStays DEF ReaderOK
<1>6. CASE ~IsLive(u)
  <2>1. run'[s] = r
    BY <1>1, <1>2, <1>6 DEF Hub!Refreshed, Hub!Live, IsLive
  <2>2. ReaderOK(h, s, u, r)'
    BY <1>4, <1>5, <1>6 DEF ReaderOK
  <2> QED BY <1>1, <1>2, <2>1, <2>2 DEF ReaderMoves, SelectsBefore
<1>7. CASE IsLive(u) /\ r.current # NoRun
  <2>1. PICK m : m = Hub(h)!MarkPending(r.current, dirty)
    OBVIOUS
  <2>2. run'[s] = [r EXCEPT !.current = m]
    BY <1>1, <1>2, <1>7, <2>1 DEF Hub!Refreshed, Hub!Live, IsLive
  <2>3. r.current \in RunTypes(h)
    BY <1>2, <1>7 DEF RunPairs
  <2>4. /\ m \in RunTypes(h) /\ m # NoRun /\ m.pc = r.current.pc /\ m.seen = r.current.seen
        /\ m.actor = r.current.actor
    BY <1>3, <2>1, <2>3, RunIsMarked
  <2>5. PICK q : q = [r EXCEPT !.current = m]
    OBVIOUS
  <2>6. q \in RunPairs(h) /\ q.current = m /\ q.old = r.old
    BY <1>2, <2>4, <2>5 DEF RunPairs
  <2>7. RunCovered(h, m)'
    BY <1>4, <1>7, <2>1, <2>3, MarkedRunIsCovered DEF ReaderOK
  <2>8. ReaderOK(h, s, u, q)'
    BY <1>4, <1>5, <1>7, <2>4, <2>6, <2>7 DEF ReaderOK
  <2>9. SelectsBefore(h, s)
    BY <1>2, <1>7, <2>2, <2>4, <2>5, <2>6 DEF SelectsBefore, Ways
  <2> QED BY <1>1, <2>2, <2>5, <2>6, <2>8, <2>9 DEF ReaderMoves
<1>8. CASE IsLive(u) /\ r.current = NoRun /\ Hub(h)!NeedsRefresh(u.reads, d)
  <2>1. PICK n : n = Hub(h)!NewRun(u.actor, FALSE)
    OBVIOUS
  <2>2. PICK o : o = Hub(h)!Superseded(r.old)
    OBVIOUS
  <2>3. PICK q : q = [current |-> n, old |-> o]
    OBVIOUS
  <2>4. run'[s] = q
    BY <1>1, <1>2, <1>3, <1>8, <2>1, <2>2, <2>3 DEF Hub!Refreshed, Hub!Live, IsLive
  <2>5. /\ n \in RunTypes(h) /\ n # NoRun /\ n.pc = "querying" /\ n.actor = u.actor
        /\ \A t \in h.tables : n.seen[t] = Unread
    <3>1. IsNew(h, u.actor, n)
      BY <2>1, Zenon DEF IsNew
    <3>2. u.actor \in Actors
      BY <1>1 DEF SubStates
    <3> QED BY <3>1, <3>2, RunIsNew
  <2>6. /\ o \in {NoRun} \cup RunTypes(h)
        /\ o # NoRun => r.old # NoRun /\ o.pc = r.old.pc /\ o.seen = r.old.seen /\ ~o.valid
    BY <1>2, <2>2, RunIsSuperseded DEF RunPairs
  <2>7. q \in RunPairs(h) /\ q.current = n /\ q.old = o
    BY <2>3, <2>5, <2>6 DEF RunPairs
  <2>8. RunCovered(h, n)'
    BY <2>5 DEF RunCovered
  <2>9. ReaderOK(h, s, u, q)'
    <3>1. u.fenced => n.actor = "anonymous"
      BY <1>4, <1>8, <2>5 DEF ReaderOK, FenceOK, IsLive
    <3> QED BY <1>5, <1>8, <2>5, <2>6, <2>7, <2>8, <3>1 DEF ReaderOK
  <2>10. SelectsBefore(h, s)
    BY <1>2, <2>4, <2>5, <2>6, <2>7 DEF SelectsBefore, Ways
  <2> QED BY <1>1, <2>4, <2>7, <2>9, <2>10 DEF ReaderMoves
<1>9. CASE IsLive(u) /\ r.current = NoRun /\ ~Hub(h)!NeedsRefresh(u.reads, d)
  <2>1. run'[s] = r
    BY <1>1, <1>2, <1>3, <1>9 DEF Hub!Refreshed, Hub!Live, IsLive
  <2>2. u.reads # AllTables /\ u.reads \cap d = {}
    BY <1>9 DEF Hub!NeedsRefresh
  <2>3. AtRest(h, u)
    BY <1>4, <1>9, <2>2 DEF ReaderOK, Awaited
  <2>4. ASSUME NEW t \in h.tables, u.result.seen[t] # Unread
        PROVE  (u.reads = AllTables \/ t \in u.reads) /\ Covered(h, u.result.seen[t], t)'
    <3>1. t \in u.reads /\ Covered(h, u.result.seen[t], t)
      BY <2>2, <2>3, <2>4 DEF AtRest, ResultCovered
    <3>2. t \notin dirty
      BY <1>3, <2>2, <3>1
    <3> QED BY <3>1, <3>2, OutsideTheWindow
  <2>5. AtRest(h, u)'
    BY <2>3, <2>4 DEF AtRest, ResultCovered
  <2>6. ReaderOK(h, s, u, r)'
    BY <1>4, <1>5, <1>9, <2>5 DEF ReaderOK
  <2> QED BY <1>1, <1>2, <2>1, <2>6 DEF ReaderMoves, SelectsBefore
<1> QED BY <1>6, <1>7, <1>8, <1>9

LEMMA RefreshKeepsInvariant ==
  ASSUME NEW h, HubConstants(h), HubInvariant(h), Hub(h)!RefreshQueries,
         UNCHANGED <<version, cache, gate, sub>>,
         writer' \in [Writers(h) -> WriterStates(h)], WritersOK(h)', Counted(h)',
         \A t \in h.tables :
           (Wrote(h, t)' => Wrote(h, t)) /\ (Unrecorded(h, t) => Unrecorded(h, t)'),
         retirement' \in Retirements(h), retirement'.left \subseteq retirement.left, PhaseStays
  PROVE  HubInvariant(h)'
<1>1. HubTyped(h) /\ ReadersOK(h)
  BY DEF HubInvariant
<1>2. PICK reads : reads = [s \in h.subs |-> sub[s].reads]
  OBVIOUS
<1>3. /\ dispatched' = generation /\ dirty' = {} /\ generation' = generation
      /\ run' = Hub(h)!Refreshed(run, reads, dirty)
  BY <1>2 DEF Hub!RefreshQueries, Hub!ReadsNow
<1>4. TakesWindow(h)
  BY <1>3 DEF TakesWindow
<1>5. \A s \in h.subs : ReaderMoves(h, s)
  BY <1>1, <1>2, <1>3, <1>4, RefreshedReader DEF ReadersOK
<1>6. RestMoves(h)
  BY <1>1, <1>3, ConstantFacts DEF RestMoves, HubTyped
<1>7. sub' = [s \in h.subs |-> sub'[s]]
  BY <1>1 DEF HubTyped
<1>8. run' = [s \in h.subs |-> run'[s]]
  BY <1>3 DEF Hub!Refreshed
<1> QED BY <1>5, <1>6, <1>7, <1>8, ReadersKeepInvariant

\* A writer whose refresh runs is done.
LEMMA WriterIsDone ==
  ASSUME NEW h, HubConstants(h), HubInvariant(h), NEW w \in Writers(h), NEW from,
         from = "timer" \/ from = "written", Hub(h)!Enters(w, from, "done"),
         Hub(h)!RefreshQueries, UNCHANGED <<version, cache, gate, sub, retirement>>
  PROVE  HubInvariant(h)'
<1>1. HubTyped(h) /\ WritersOK(h) /\ Counted(h)
  BY DEF HubInvariant
<1>2. PICK x \in WriterStates(h) :
        /\ x.phase = "done" /\ x.table = writer[w].table /\ writer[w].phase = from
        /\ writer' = [writer EXCEPT ![w] = x]
  BY <1>1, WriterEnters DEF Phases
<1>3. /\ writer' \in [Writers(h) -> WriterStates(h)] /\ writer'[w] = x
      /\ \A v \in Writers(h) : v # w => writer'[v] = writer[v]
  BY <1>1, <1>2, OneWriterMoves
<1>4. generation' = generation
  BY DEF Hub!RefreshQueries
<1>5. CountsMove(h, w)
  BY <1>1, <1>2, <1>3, <1>4 DEF CountsMove, Recorded, Stored
<1>6. version' = [t \in h.tables |-> version'[t]]
  BY <1>1 DEF HubTyped
<1>7. Counted(h)'
  BY <1>1, <1>5, <1>6, CountsKept
<1>8. WritersOK(h)'
  BY <1>1, <1>2, <1>3 DEF WritersOK
<1>9. ASSUME NEW t \in h.tables
      PROVE  (Wrote(h, t)' => Wrote(h, t)) /\ (Unrecorded(h, t) => Unrecorded(h, t)')
  BY <1>1, <1>2, <1>3 DEF Wrote, Unrecorded
<1>10. retirement' \in Retirements(h) /\ retirement'.left \subseteq retirement.left /\ PhaseStays
  BY <1>1 DEF HubTyped, PhaseStays
<1> QED BY <1>3, <1>7, <1>8, <1>9, <1>10, RefreshKeepsInvariant

LEMMA RefreshTimerKeeps ==
  ASSUME NEW h, HubConstants(h), HubInvariant(h), NEW w \in h.mutations, Hub(h)!RefreshTimer(w)
  PROVE  HubInvariant(h)'
<1>1. w \in Writers(h)
  BY ConstantFacts
<1>2. PICK from : from = "timer"
  OBVIOUS
<1> QED BY <1>1, <1>2, WriterIsDone DEF Hub!RefreshTimer

LEMMA EndJobKeeps ==
  ASSUME NEW h, HubConstants(h), HubInvariant(h), NEW w \in h.jobs \cup h.resourceJobs, Hub(h)!EndJob(w)
  PROVE  HubInvariant(h)'
<1>1. w \in Writers(h)
  BY ConstantFacts
<1>2. PICK from : from = "written"
  OBVIOUS
<1> QED BY <1>1, <1>2, WriterIsDone DEF Hub!EndJob

LEMMA RetirementTimerKeeps ==
  ASSUME NEW h, HubConstants(h), HubInvariant(h), Hub(h)!RetirementTimer
  PROVE  HubInvariant(h)'
<1>1. HubTyped(h) /\ WritersOK(h) /\ Counted(h)
  BY DEF HubInvariant
<1>2. /\ Hub(h)!RefreshQueries /\ UNCHANGED <<version, cache, gate, writer, sub>>
      /\ generation' = generation
      /\ retirement.phase = "timer" /\ retirement' = [retirement EXCEPT !.phase = "done"]
  BY DEF Hub!RetirementTimer, Hub!RefreshQueries
<1>3. retirement' \in Retirements(h) /\ retirement'.left \subseteq retirement.left /\ PhaseStays
  BY <1>1, <1>2 DEF HubTyped, Retirements, PhaseStays
<1>4. writer' \in [Writers(h) -> WriterStates(h)]
  BY <1>1, <1>2 DEF HubTyped
<1>5. WritersOK(h)' /\ Counted(h)'
  BY <1>1, <1>2 DEF WritersOK, Counted, Recorded, Stored
<1>6. ASSUME NEW t \in h.tables
      PROVE  (Wrote(h, t)' => Wrote(h, t)) /\ (Unrecorded(h, t) => Unrecorded(h, t)')
  BY <1>2 DEF Wrote, Unrecorded
<1> QED BY <1>2, <1>3, <1>4, <1>5, <1>6, RefreshKeepsInvariant

\* What a step of one reader or client leaves alone.
LEMMA RestStays ==
  ASSUME NEW h, HubConstants(h), HubInvariant(h), UNCHANGED <<version, cache, gate, generation, writer>>,
         dispatched' \in 0..generation, dirty' \subseteq h.tables \cup {LogTable},
         retirement' \in Retirements(h)
  PROVE  RestMoves(h)
<1>1. HubTyped(h) /\ WritersOK(h) /\ Counted(h)
  BY DEF HubInvariant
<1>2. WritersOK(h)' /\ Counted(h)' /\ \A t \in h.tables : Wrote(h, t)' => Wrote(h, t)
  BY <1>1 DEF WritersOK, Counted, Recorded, Stored, Wrote
<1> QED BY <1>1, <1>2 DEF RestMoves, HubTyped

\* A reader that does not move keeps what it has, when the window only grows.
LEMMA ReaderStays ==
  ASSUME NEW h, HubConstants(h), HubTyped(h), NEW s \in h.subs, ReaderOK(h, s, sub[s], run[s]),
         sub'[s] = sub[s], run'[s] = run[s], version' = version, writer' = writer, dirty \subseteq dirty',
         Awaited(sub[s]) => Awaited(sub[s])', s \in retirement'.left => s \in retirement.left,
         FenceOK(sub[s])'
  PROVE  ReaderMoves(h, s)
<1>1. PICK u \in SubStates(h) : u = sub[s] /\ sub'[s] = u
  BY DEF HubTyped
<1>2. PICK r \in RunPairs(h) : r = run[s] /\ run'[s] = r
  BY DEF HubTyped
<1>3. ReaderOK(h, s, u, r)
  BY <1>1, <1>2
<1>4. ASSUME NEW t \in h.tables, NEW v, Covered(h, v, t) PROVE Covered(h, v, t)'
  BY <1>4 DEF Covered, Announced, Unrecorded, Wrote
<1>5. RunCovered(h, r.current) => RunCovered(h, r.current)'
  BY <1>4 DEF RunCovered
<1>6. AtRest(h, u) => AtRest(h, u)'
  BY <1>4 DEF AtRest, ResultCovered
<1>7. Awaited(u) => Awaited(u)'
  BY <1>1 DEF Awaited
<1>8. FenceOK(u)'
  BY <1>1
<1>9. ReaderOK(h, s, u, r)'
  BY <1>3, <1>5, <1>6, <1>7, <1>8 DEF ReaderOK
<1> QED BY <1>1, <1>2, <1>9 DEF ReaderMoves, SelectsBefore

\* One reader moves, or its client.
ReaderGoes(h, s) ==
  sub'[s] \in SubStates(h) /\ run'[s] \in RunPairs(h) /\ ReaderOK(h, s, sub[s], run[s])'

LEMMA OneReaderGoes ==
  ASSUME NEW h, HubConstants(h), HubInvariant(h), NEW s \in h.subs, ReaderGoes(h, s),
         UNCHANGED <<version, gate, generation, dispatched, writer>>,
         dirty \subseteq dirty', dirty' \subseteq h.tables \cup {LogTable},
         cache' \in [h.tables -> [Actors -> Versions(h) \cup {NoRows}]],
         sub' = [sub EXCEPT ![s] = sub'[s]], run' = [run EXCEPT ![s] = run'[s]],
         retirement' \in Retirements(h), retirement'.left \subseteq retirement.left, PhaseStays,
         \A u \in h.subs : Awaited(sub[u]) => Awaited(sub[u])' \/ u = s
  PROVE  HubTyped(h)' /\ WritersOK(h)' /\ Counted(h)' /\ ReadersOK(h)'
<1>1. HubTyped(h) /\ WritersOK(h) /\ Counted(h) /\ ReadersOK(h)
  BY DEF HubInvariant
<1>2. WritersOK(h)' /\ Counted(h)'
  BY <1>1 DEF WritersOK, Counted, Recorded, Stored
<1>3. ASSUME NEW u \in h.subs, u # s PROVE sub'[u] = sub[u] /\ run'[u] = run[u]
  BY <1>1, <1>3 DEF HubTyped
<1>4. ASSUME NEW u \in h.subs, u # s PROVE ReaderMoves(h, u)
  <2>1. PICK x : x = sub[u] /\ sub'[u] = x
    BY <1>3, <1>4
  <2>2. FenceOK(x)
    BY <1>1, <2>1 DEF ReadersOK, ReaderOK
  <2>3. FenceOK(sub[u])'
    BY <2>1, <2>2, FenceStays
  <2> QED BY <1>1, <1>3, <1>4, <2>3, ReaderStays DEF ReadersOK
<1>5. ReadersOK(h)'
  BY <1>4 DEF ReadersOK, ReaderMoves, ReaderGoes
<1>6. HubTyped(h)'
  BY <1>1 DEF HubTyped, ReaderGoes
<1> QED BY <1>2, <1>5, <1>6

LEMMA OneReaderKeeps ==
  ASSUME NEW h, HubConstants(h), HubInvariant(h), NEW s \in h.subs, ReaderGoes(h, s), SelectsBefore(h, s),
         UNCHANGED <<version, cache, gate, generation, dispatched, writer>>,
         dirty \subseteq dirty', dirty' \subseteq h.tables \cup {LogTable},
         sub' = [sub EXCEPT ![s] = sub'[s]], run' = [run EXCEPT ![s] = run'[s]],
         retirement' \in Retirements(h), retirement'.left \subseteq retirement.left, PhaseStays,
         \A u \in h.subs : Awaited(sub[u]) => Awaited(sub[u])' \/ u = s
  PROVE  HubInvariant(h)'
<1>1. HubTyped(h) /\ CacheOK(h)
  BY DEF HubInvariant
<1>2. HubTyped(h)' /\ WritersOK(h)' /\ Counted(h)' /\ ReadersOK(h)'
  BY <1>1, OneReaderGoes DEF HubTyped
<1>3. \A u \in h.subs : SelectsBefore(h, u)
  BY <1>1 DEF HubTyped, SelectsBefore
<1>4. Selected(h)' /\ (Selects(h)' => Selects(h))
  BY <1>1, <1>3 DEF CacheOK, Selected, Selects, SelectsBefore
<1>5. CacheOK(h)'
  BY <1>1, <1>4 DEF CacheOK, Wrote
<1> QED BY <1>2, <1>5 DEF HubInvariant

\* One of its runs moves on.
RunGoes(h, s, k, m) ==
  /\ m \in RunTypes(h) /\ run[s][k] # NoRun
  /\ m.actor = run[s][k].actor /\ (m.valid <=> run[s][k].valid)
  /\ k = "current" => (RunCovered(h, run[s][k]) => RunCovered(h, m)')
  /\ run' = [run EXCEPT ![s] = [run[s] EXCEPT ![k] = m]]

LEMMA OneRunGoes ==
  ASSUME NEW h, HubConstants(h), HubInvariant(h), NEW s \in h.subs, NEW k \in Ways, NEW m,
         RunGoes(h, s, k, m), UNCHANGED <<version, writer, sub, retirement>>, dirty \subseteq dirty'
  PROVE  /\ ReaderGoes(h, s) /\ run' = [run EXCEPT ![s] = run'[s]]
         /\ run'[s][k] = m /\ m # NoRun
         /\ \A u \in h.subs : \A j \in Ways : (u = s /\ j = k) \/ run'[u][j] = run[u][j]
         /\ (m.pc = "selected" => run[s][k].pc = "selected" /\ m.seen = run[s][k].seen) =>
              SelectsBefore(h, s)
<1>1. HubTyped(h) /\ ReadersOK(h)
  BY DEF HubInvariant
<1>2. PICK r \in RunPairs(h) : r = run[s]
  BY <1>1 DEF HubTyped
<1>3. PICK q : q = [r EXCEPT ![k] = m]
  OBVIOUS
<1>4. m \in RunTypes(h) /\ m # NoRun /\ run'[s] = q
  BY <1>1, <1>2, <1>3, RunFields DEF RunGoes, HubTyped
<1>5. CASE k = "current"
  <2>1. q \in RunPairs(h) /\ q.current = m /\ q.old = r.old
    BY <1>2, <1>3, <1>4, <1>5 DEF RunPairs
  <2>2. PICK u \in SubStates(h) : u = sub[s] /\ sub'[s] = u
    BY <1>1 DEF HubTyped
  <2>3. ReaderOK(h, s, u, r)
    BY <1>1, <1>2, <2>2 DEF ReadersOK
  <2>4. r.current # NoRun /\ m.actor = r.current.actor /\ (RunCovered(h, r.current) => RunCovered(h, m)')
    BY <1>2, <1>5 DEF RunGoes
  <2>5. ReaderOK(h, s, u, q)'
    <3>1. FenceOK(u)'
      BY <2>3 DEF ReaderOK, FenceOK
    <3> QED BY <1>4, <2>1, <2>3, <2>4, <3>1 DEF ReaderOK
  <2>6. ReaderGoes(h, s)
    BY <1>4, <2>1, <2>2, <2>5 DEF ReaderGoes
  <2> QED BY <1>1, <1>2, <1>4, <1>5, <2>1, <2>6 DEF Ways, SelectsBefore, HubTyped, RunGoes
<1>6. CASE k = "old"
  <2>1. q \in RunPairs(h) /\ q.old = m /\ q.current = r.current
    BY <1>2, <1>3, <1>4, <1>6 DEF RunPairs
  <2>2. PICK u \in SubStates(h) : u = sub[s] /\ sub'[s] = u
    BY <1>1 DEF HubTyped
  <2>3. ReaderOK(h, s, u, r)
    BY <1>1, <1>2, <2>2 DEF ReadersOK
  <2>4. r.old # NoRun /\ ~m.valid
    BY <1>2, <1>6, <2>3 DEF RunGoes, ReaderOK
  <2>5. ASSUME NEW t \in h.tables, NEW v, Covered(h, v, t) PROVE Covered(h, v, t)'
    BY <2>5 DEF Covered, Announced, Unrecorded, Wrote
  <2>6. /\ RunCovered(h, r.current) => RunCovered(h, r.current)'
        /\ AtRest(h, u) => AtRest(h, u)'
        /\ Awaited(u) => Awaited(u)'
        /\ FenceOK(u) => FenceOK(u)'
    BY <2>5 DEF RunCovered, AtRest, ResultCovered, Awaited, FenceOK
  <2>7. ReaderOK(h, s, u, q)'
    BY <2>1, <2>3, <2>4, <2>6 DEF ReaderOK
  <2>8. ReaderGoes(h, s)
    BY <1>4, <2>1, <2>2, <2>7 DEF ReaderGoes
  <2> QED BY <1>1, <1>2, <1>4, <1>6, <2>1, <2>8 DEF Ways, SelectsBefore, HubTyped, RunGoes
<1> QED BY <1>5, <1>6 DEF Ways

\* What a run has read of the table it reads now is covered.
LEMMA ReadIsCovered ==
  ASSUME NEW h, NEW r, RunCovered(h, r), NEW m, NEW t \in h.tables, r.seen \in Seen(h),
         m.seen = [r.seen EXCEPT ![t] = version[t]],
         (m.pending <=> r.pending), m.dirty = r.dirty,
         ~Wrote(h, t), UNCHANGED <<version, dirty, writer>>
  PROVE  RunCovered(h, m)'
<1>1. ASSUME NEW u \in h.tables, m.seen[u] # Unread, ~Again(m, u)
      PROVE  Covered(h, m.seen[u], u)'
  <2>1. CASE u = t
    <3>1. m.seen[u] = version[u] /\ ~Wrote(h, u)'
      BY <2>1 DEF Seen, Wrote
    <3> QED BY <3>1 DEF Covered
  <2>2. CASE u # t
    <3>1. m.seen[u] = r.seen[u] /\ ~Again(r, u)
      BY <1>1, <2>2 DEF Seen, Again
    <3>2. Covered(h, r.seen[u], u)
      BY <1>1, <3>1 DEF RunCovered
    <3> QED BY <3>1, <3>2 DEF Covered, Announced, Unrecorded, Wrote
  <2> QED BY <2>1, <2>2
<1> QED BY <1>1 DEF RunCovered

LEMMA ReadTableKeeps ==
  ASSUME NEW h, HubConstants(h), HubInvariant(h), NEW s \in h.subs, NEW k \in Ways, NEW t \in h.tables,
         Hub(h)!ReadTable(s, k, t)
  PROVE  HubInvariant(h)'
<1>1. HubTyped(h) /\ WritersOK(h)
  BY DEF HubInvariant
<1>2. /\ run[s][k] # NoRun /\ run[s][k].pc = "querying" /\ gate = NoWriter
      /\ run' = [run EXCEPT ![s][k].seen[t] = version[t]]
      /\ UNCHANGED <<version, cache, gate, dirty, generation, dispatched, writer, sub, retirement>>
  BY DEF Hub!ReadTable
<1>3. PICK r : r = run[s][k]
  OBVIOUS
<1>4. r \in RunTypes(h)
  BY <1>1, <1>2, <1>3 DEF HubTyped, RunPairs, Ways
<1>5. PICK m : m = [r EXCEPT !.seen[t] = version[t]]
  OBVIOUS
<1>6. PICK bound \in Nat : RunTypes(h) = RunRecords(h, bound)
  BY TypeFacts
<1>7. version[t] \in Versions(h)
  BY <1>1 DEF HubTyped
<1>8. r \in RunRecords(h, bound)
  BY <1>4, <1>6
<1>9. /\ m.seen = [r.seen EXCEPT ![t] = version[t]] /\ m.pc = r.pc /\ m.actor = r.actor
      /\ (m.valid <=> r.valid) /\ (m.pending <=> r.pending) /\ m.dirty = r.dirty
  BY <1>5, <1>8 DEF RunRecords
<1>10. m.seen \in Seen(h)
  BY <1>7, <1>8, <1>9 DEF RunRecords, Seen
<1>11. m = [r EXCEPT !.seen = m.seen]
  BY <1>5, <1>8, <1>9 DEF RunRecords
<1>12. m \in RunRecords(h, bound)
  BY <1>8, <1>10, <1>11 DEF RunRecords
<1>13. ~Wrote(h, t)
  BY <1>1, <1>2, ConstantFacts DEF Wrote, WritersOK
<1>14. RunCovered(h, r) => RunCovered(h, m)'
  BY <1>2, <1>8, <1>9, <1>13, ReadIsCovered DEF RunRecords
<1>15. run' = [run EXCEPT ![s] = [run[s] EXCEPT ![k] = m]]
  BY <1>1, <1>2, <1>3, <1>5 DEF HubTyped, RunPairs, Ways
<1>16. RunGoes(h, s, k, m)
  BY <1>2, <1>3, <1>6, <1>9, <1>12, <1>14, <1>15 DEF RunGoes
<1>17. ReaderGoes(h, s) /\ run' = [run EXCEPT ![s] = run'[s]] /\ SelectsBefore(h, s)
  BY <1>2, <1>3, <1>9, <1>16, OneRunGoes, ZenonT(60)
<1>18. sub' = [sub EXCEPT ![s] = sub'[s]]
  BY <1>1, <1>2 DEF HubTyped
<1> QED BY <1>1, <1>2, <1>17, <1>18, OneReaderKeeps DEF HubTyped, Awaited, PhaseStays

\* The row cache is in use only where every writer shares the one connection.
LEMMA CachedMeansExclusive ==
  ASSUME NEW h, HubConstants(h), NEW s \in h.subs, h.cachedTable[s] # NoTable
  PROVE  Exclusive(h) /\ h.cachedTable[s] \in h.tables
<1>1. h.cachedTable \in [h.subs -> h.tables \cup {NoTable}]
  BY ConstantFacts
<1> QED BY <1>1 DEF HubConstants, Uncached

ReadsAs(s, k, t, v, p) == run' = [run EXCEPT ![s][k].seen[t] = v, ![s][k].pc = p]

\* A run that reads and moves on to the next part of its query.
LEMMA RunReads ==
  ASSUME NEW h, HubConstants(h), HubInvariant(h), NEW s \in h.subs, NEW k \in Ways, NEW t \in h.tables,
         run[s][k] # NoRun, NEW v \in Versions(h),
         NEW p \in {"querying", "selected", "listed", "failed"},
         ReadsAs(s, k, t, v, p), v = version[t], ~Wrote(h, t), UNCHANGED <<version, dirty, writer>>
  PROVE  \E m : RunGoes(h, s, k, m) /\ m.pc = p /\ m.seen \in Seen(h) /\ m.seen[t] = v
<1>1. HubTyped(h)
  BY DEF HubInvariant
<1>2. PICK r : r = run[s][k]
  OBVIOUS
<1>3. r \in RunTypes(h)
  BY <1>1, <1>2 DEF HubTyped, RunPairs, Ways
<1>4. PICK seen : seen = [r.seen EXCEPT ![t] = v]
  OBVIOUS
<1>5. PICK m : m = [r EXCEPT !.seen = seen, !.pc = p]
  OBVIOUS
<1>6. PICK bound \in Nat : RunTypes(h) = RunRecords(h, bound)
  BY TypeFacts
<1>7. r \in RunRecords(h, bound)
  BY <1>3, <1>6
<1>8. r.seen \in Seen(h) /\ seen \in Seen(h) /\ seen[t] = v
  BY <1>4, <1>7 DEF RunRecords, Seen
<1>9. /\ m.seen = seen /\ m.pc = p /\ m.actor = r.actor
      /\ (m.valid <=> r.valid) /\ (m.pending <=> r.pending) /\ m.dirty = r.dirty
  BY <1>5, <1>7 DEF RunRecords
<1>10. m \in RunRecords(h, bound)
  BY <1>5, <1>7, <1>8 DEF RunRecords
<1>11. RunCovered(h, r) => RunCovered(h, m)'
  BY <1>4, <1>8, <1>9, ReadIsCovered
<1>12. run' = [run EXCEPT ![s] = [run[s] EXCEPT ![k] = m]]
  BY <1>1, <1>2, <1>4, <1>5, <1>7 DEF ReadsAs, HubTyped, RunPairs, Ways, RunRecords
<1>13. RunGoes(h, s, k, m)
  BY <1>2, <1>6, <1>9, <1>10, <1>11, <1>12 DEF RunGoes
<1> QED BY <1>8, <1>9, <1>13

LEMMA ListFromCacheKeeps ==
  ASSUME NEW h, HubConstants(h), HubInvariant(h), NEW s \in h.subs, NEW k \in Ways,
         Hub(h)!ListFromCache(s, k)
  PROVE  HubInvariant(h)'
<1>1. HubTyped(h) /\ CacheOK(h)
  BY DEF HubInvariant
<1>2. PICK t : t = h.cachedTable[s]
  OBVIOUS
<1>3. PICK v : v = cache[t][run[s][k].actor]
  OBVIOUS
<1>4. PICK p : p = "listed"
  OBVIOUS
<1>5. /\ run[s][k] # NoRun /\ run[s][k].pc = "querying" /\ t # NoTable /\ v # NoRows
      /\ ReadsAs(s, k, t, v, p)
      /\ UNCHANGED <<version, cache, gate, dirty, generation, dispatched, writer, sub, retirement>>
  BY <1>2, <1>3, <1>4 DEF Hub!ListFromCache, ReadsAs
<1>6. Exclusive(h) /\ t \in h.tables
  BY <1>2, <1>5, CachedMeansExclusive
<1>7. run[s][k] \in RunTypes(h)
  BY <1>1, <1>5 DEF HubTyped, RunPairs, Ways
<1>8. run[s][k].actor \in Actors
  BY <1>7, RunFields
<1>9. v = version[t] /\ ~Wrote(h, t) /\ v \in Versions(h)
  BY <1>1, <1>3, <1>5, <1>6, <1>8 DEF CacheOK, HubTyped
<1>10. p \in {"querying", "selected", "listed", "failed"} /\ p # "selected"
  BY <1>4
<1>11. PICK m : RunGoes(h, s, k, m) /\ m.pc = p
  BY <1>5, <1>6, <1>9, <1>10, RunReads
<1>12. ReaderGoes(h, s) /\ run' = [run EXCEPT ![s] = run'[s]] /\ SelectsBefore(h, s)
  BY <1>5, <1>10, <1>11, OneRunGoes
<1>13. sub' = [sub EXCEPT ![s] = sub'[s]]
  BY <1>1, <1>5 DEF HubTyped
<1> QED BY <1>1, <1>5, <1>12, <1>13, OneReaderKeeps DEF HubTyped, Awaited, PhaseStays

LEMMA SelectRowsKeeps ==
  ASSUME NEW h, HubConstants(h), HubInvariant(h), NEW s \in h.subs, NEW k \in Ways,
         Hub(h)!SelectRows(s, k)
  PROVE  HubInvariant(h)'
<1>1. HubTyped(h) /\ WritersOK(h) /\ CacheOK(h)
  BY DEF HubInvariant
<1>2. PICK t : t = h.cachedTable[s]
  OBVIOUS
<1>3. PICK v : v = version[t]
  OBVIOUS
<1>4. PICK p : p = "selected"
  OBVIOUS
<1>5. /\ run[s][k] # NoRun /\ run[s][k].pc = "querying" /\ t # NoTable /\ gate = NoWriter
      /\ ReadsAs(s, k, t, v, p)
      /\ UNCHANGED <<version, cache, gate, dirty, generation, dispatched, writer, sub, retirement>>
  BY <1>2, <1>3, <1>4 DEF Hub!SelectRows, ReadsAs
<1>6. Exclusive(h) /\ t \in h.tables
  BY <1>2, <1>5, CachedMeansExclusive
<1>7. ~Wrote(h, t) /\ v \in Versions(h)
  BY <1>1, <1>3, <1>5, <1>6, ConstantFacts DEF Wrote, WritersOK, HubTyped
<1>8. p \in {"querying", "selected", "listed", "failed"}
  BY <1>4
<1>9. PICK m : RunGoes(h, s, k, m) /\ m.pc = p /\ m.seen[t] = v
  BY <1>3, <1>5, <1>6, <1>7, <1>8, RunReads
<1>10. /\ ReaderGoes(h, s) /\ run' = [run EXCEPT ![s] = run'[s]] /\ run'[s][k] = m
       /\ \A u \in h.subs : \A j \in Ways : (u = s /\ j = k) \/ run'[u][j] = run[u][j]
  BY <1>5, <1>9, OneRunGoes
<1>11. sub' = [sub EXCEPT ![s] = sub'[s]]
  BY <1>1, <1>5 DEF HubTyped
<1>12. HubTyped(h)' /\ WritersOK(h)' /\ Counted(h)' /\ ReadersOK(h)'
  BY <1>1, <1>5, <1>10, <1>11, OneReaderGoes DEF HubTyped, Awaited, PhaseStays
<1>13. ASSUME NEW u \in h.subs, NEW j \in Ways, run'[u][j] # NoRun, run'[u][j].pc = "selected"
       PROVE  /\ h.cachedTable[u] \in h.tables
              /\ run'[u][j].seen[h.cachedTable[u]] \in Versions(h)
              /\ Exclusive(h) => run'[u][j].seen[h.cachedTable[u]] = version'[h.cachedTable[u]]
  <2>1. CASE u = s /\ j = k
    BY <1>2, <1>3, <1>5, <1>6, <1>7, <1>9, <1>10, <2>1
  <2>2. CASE ~(u = s /\ j = k)
    <3>1. run'[u][j] = run[u][j]
      BY <1>10, <2>2
    <3> QED BY <1>1, <1>5, <1>13, <3>1 DEF CacheOK, Selected
  <2> QED BY <2>1, <2>2
<1>14. Selected(h)'
  BY <1>13 DEF Selected
<1>15. CacheOK(h)'
  BY <1>1, <1>5, <1>14 DEF CacheOK, Wrote
<1> QED BY <1>12, <1>15 DEF HubInvariant

StepsTo(s, k, p) == run' = [run EXCEPT ![s][k].pc = p]

LEMMA RunSteps ==
  ASSUME NEW h, HubConstants(h), HubInvariant(h), NEW s \in h.subs, NEW k \in Ways, run[s][k] # NoRun,
         NEW p \in {"querying", "selected", "listed", "failed"}, StepsTo(s, k, p),
         UNCHANGED <<version, writer>>, dirty \subseteq dirty'
  PROVE  \E m : RunGoes(h, s, k, m) /\ m.pc = p
<1>1. HubTyped(h)
  BY DEF HubInvariant
<1>2. PICK r : r = run[s][k]
  OBVIOUS
<1>3. r \in RunTypes(h)
  BY <1>1, <1>2 DEF HubTyped, RunPairs, Ways
<1>4. PICK m : m = [r EXCEPT !.pc = p]
  OBVIOUS
<1>5. PICK bound \in Nat : RunTypes(h) = RunRecords(h, bound)
  BY TypeFacts
<1>6. r \in RunRecords(h, bound)
  BY <1>3, <1>5
<1>7. /\ m.seen = r.seen /\ m.pc = p /\ m.actor = r.actor
      /\ (m.valid <=> r.valid) /\ (m.pending <=> r.pending) /\ m.dirty = r.dirty
  BY <1>4, <1>6 DEF RunRecords
<1>8. m \in RunRecords(h, bound)
  BY <1>4, <1>6 DEF RunRecords
<1>9. ASSUME RunCovered(h, r) PROVE RunCovered(h, m)'
  BY <1>7, <1>9 DEF RunCovered, Again, Covered, Announced, Unrecorded, Wrote
<1>10. run' = [run EXCEPT ![s] = [run[s] EXCEPT ![k] = m]]
  BY <1>1, <1>2, <1>4, <1>6 DEF StepsTo, HubTyped, RunPairs, Ways, RunRecords
<1>11. RunGoes(h, s, k, m)
  BY <1>2, <1>5, <1>7, <1>8, <1>9, <1>10 DEF RunGoes
<1> QED BY <1>7, <1>11

LEMMA CacheRowsKeeps ==
  ASSUME NEW h, HubConstants(h), HubInvariant(h), NEW s \in h.subs, NEW k \in Ways,
         Hub(h)!CacheRows(s, k)
  PROVE  HubInvariant(h)'
<1>1. HubTyped(h) /\ WritersOK(h) /\ CacheOK(h)
  BY DEF HubInvariant
<1>2. PICK t : t = h.cachedTable[s]
  OBVIOUS
<1>3. PICK p : p = "listed"
  OBVIOUS
<1>4. PICK a : a = run[s][k].actor
  OBVIOUS
<1>5. PICK v : v = run[s][k].seen[t]
  OBVIOUS
<1>6. /\ run[s][k] # NoRun /\ run[s][k].pc = "selected" /\ StepsTo(s, k, p)
      /\ cache' = [cache EXCEPT ![t][a] = v]
      /\ UNCHANGED <<version, gate, dirty, generation, dispatched, writer, sub, retirement>>
  BY <1>2, <1>3, <1>4, <1>5 DEF Hub!CacheRows, StepsTo
<1>7. p \in {"querying", "selected", "listed", "failed"} /\ p # "selected"
  BY <1>3
<1>8. PICK m : RunGoes(h, s, k, m) /\ m.pc = p
  BY <1>6, <1>7, RunSteps
<1>9. /\ ReaderGoes(h, s) /\ run' = [run EXCEPT ![s] = run'[s]] /\ run'[s][k] = m
      /\ \A u \in h.subs : \A j \in Ways : (u = s /\ j = k) \/ run'[u][j] = run[u][j]
  BY <1>6, <1>8, OneRunGoes
<1>10. Selects(h) /\ t \in h.tables /\ v \in Versions(h) /\ (Exclusive(h) => v = version[t])
  BY <1>1, <1>2, <1>5, <1>6 DEF CacheOK, Selected, Selects
<1>11. run[s][k] \in RunTypes(h)
  BY <1>1, <1>6 DEF HubTyped, RunPairs, Ways
<1>12. a \in Actors
  BY <1>4, <1>11, RunFields
<1>13. cache' \in [h.tables -> [Actors -> Versions(h) \cup {NoRows}]]
  BY <1>1, <1>6, <1>10, <1>12 DEF HubTyped
<1>14. sub' = [sub EXCEPT ![s] = sub'[s]]
  BY <1>1, <1>6 DEF HubTyped
<1>15. HubTyped(h)' /\ WritersOK(h)' /\ Counted(h)' /\ ReadersOK(h)'
  BY <1>1, <1>6, <1>9, <1>13, <1>14, OneReaderGoes DEF HubTyped, Awaited, PhaseStays
<1>16. Selected(h)'
  BY <1>1, <1>6, <1>7, <1>8, <1>9 DEF CacheOK, Selected
<1>17. ASSUME Exclusive(h)
       PROVE  /\ gate = NoWriter
              /\ \A u \in h.tables : \A b \in Actors :
                   cache'[u][b] # NoRows => cache'[u][b] = version[u] /\ ~Wrote(h, u)
  <2>1. gate = NoWriter
    BY <1>1, <1>10, <1>17 DEF CacheOK
  <2>2. ~Wrote(h, t)
    BY <1>1, <2>1, ConstantFacts DEF Wrote, WritersOK
  <2>3. \A u \in h.tables : \A b \in Actors :
          cache'[u][b] = cache[u][b] \/ (u = t /\ cache'[u][b] = v)
    BY <1>1, <1>6, <1>10, <1>12 DEF HubTyped
  <2> QED BY <1>1, <1>10, <1>17, <2>1, <2>2, <2>3 DEF CacheOK
<1>18. CacheOK(h)'
  BY <1>6, <1>16, <1>17 DEF CacheOK, Wrote, Exclusive
<1> QED BY <1>15, <1>18 DEF HubInvariant

LEMMA FailQueryKeeps ==
  ASSUME NEW h, HubConstants(h), HubInvariant(h), NEW s \in h.subs, NEW k \in Ways,
         Hub(h)!FailQuery(s, k)
  PROVE  HubInvariant(h)'
<1>1. HubTyped(h)
  BY DEF HubInvariant
<1>2. PICK p : p = "failed"
  OBVIOUS
<1>3. /\ run[s][k] # NoRun /\ StepsTo(s, k, p) /\ dirty' \in {dirty, dirty \cup {LogTable}}
      /\ UNCHANGED <<version, cache, gate, generation, dispatched, writer, sub, retirement>>
  BY <1>2 DEF Hub!FailQuery, Hub!RecordDiagnostic, StepsTo
<1>4. p \in {"querying", "selected", "listed", "failed"} /\ p # "selected"
  BY <1>2
<1>5. dirty \subseteq dirty' /\ dirty' \subseteq h.tables \cup {LogTable}
  BY <1>1, <1>3 DEF HubTyped
<1>6. PICK m : RunGoes(h, s, k, m) /\ m.pc = p
  BY <1>3, <1>4, <1>5, RunSteps
<1>7. ReaderGoes(h, s) /\ run' = [run EXCEPT ![s] = run'[s]] /\ SelectsBefore(h, s)
  BY <1>3, <1>4, <1>5, <1>6, OneRunGoes
<1>8. sub' = [sub EXCEPT ![s] = sub'[s]]
  BY <1>1, <1>3 DEF HubTyped
<1> QED BY <1>1, <1>3, <1>5, <1>7, <1>8, OneReaderKeeps DEF HubTyped, Awaited, PhaseStays

\* A client's step: its session, its subscription and its runs, and the retirement.
ClientMoves(h, s) ==
  /\ ReaderGoes(h, s) /\ SelectsBefore(h, s)
  /\ sub' = [sub EXCEPT ![s] = sub'[s]] /\ run' = [run EXCEPT ![s] = run'[s]]
  /\ UNCHANGED <<version, cache, gate, dirty, generation, dispatched, writer>>
  /\ \/ retirement' = retirement
     \/ /\ retirement.phase = "replacing" /\ retirement' \in Retirements(h)
        /\ retirement'.phase \in {"replacing", "timer"} /\ retirement'.left \subseteq retirement.left

LEMMA ClientKeeps ==
  ASSUME NEW h, HubConstants(h), HubInvariant(h), NEW s \in h.subs, ClientMoves(h, s)
  PROVE  HubInvariant(h)'
<1>1. HubTyped(h)
  BY DEF HubInvariant
<1>2. /\ retirement' \in Retirements(h) /\ retirement'.left \subseteq retirement.left /\ PhaseStays
      /\ \A u \in h.subs : Awaited(sub[u]) => Awaited(sub[u])' \/ u = s
  <2>1. \A u \in h.subs : sub'[u] = sub[u] \/ u = s
    BY <1>1 DEF HubTyped, ClientMoves
  <2> QED BY <1>1, <2>1 DEF ClientMoves, HubTyped, Awaited, PhaseStays
<1>3. dirty \subseteq dirty' /\ dirty' \subseteq h.tables \cup {LogTable}
  BY <1>1 DEF ClientMoves, HubTyped
<1> QED BY <1>2, <1>3, OneReaderKeeps DEF ClientMoves

LEMMA EndCancelledKeeps ==
  ASSUME NEW h, HubConstants(h), HubInvariant(h), NEW s \in h.subs, Hub(h)!EndCancelled(s)
  PROVE  HubInvariant(h)'
<1>1. HubTyped(h) /\ ReadersOK(h)
  BY DEF HubInvariant
<1>2. PICK r \in RunPairs(h) : r = run[s]
  BY <1>1 DEF HubTyped
<1>3. PICK u \in SubStates(h) : u = sub[s]
  BY <1>1 DEF HubTyped
<1>4. ReaderOK(h, s, u, r)
  BY <1>1, <1>2, <1>3 DEF ReadersOK
<1>5. r.old # NoRun /\ ~r.old.valid
  BY <1>2, <1>4 DEF Hub!EndCancelled, ReaderOK
<1>6. /\ sub' = sub /\ run' = [run EXCEPT ![s].old = NoRun]
      /\ UNCHANGED <<version, cache, gate, dirty, generation, dispatched, writer, retirement>>
  BY <1>2, <1>5 DEF Hub!EndCancelled
<1>7. PICK q : q = [r EXCEPT !.old = NoRun]
  OBVIOUS
<1>8. q \in RunPairs(h) /\ q.current = r.current /\ q.old = NoRun
  BY <1>2, <1>7 DEF RunPairs
<1>9. run'[s] = q /\ sub'[s] = u /\ run' = [run EXCEPT ![s] = run'[s]] /\ sub' = [sub EXCEPT ![s] = sub'[s]]
  BY <1>1, <1>2, <1>3, <1>6, <1>7 DEF HubTyped
<1>10. ASSUME NEW t \in h.tables, NEW v, Covered(h, v, t) PROVE Covered(h, v, t)'
  BY <1>6, <1>10 DEF Covered, Announced, Unrecorded, Wrote
<1>11. /\ RunCovered(h, r.current) => RunCovered(h, r.current)'
       /\ AtRest(h, u) => AtRest(h, u)'
       /\ Awaited(u) => Awaited(u)'
       /\ FenceOK(u) => FenceOK(u)'
  BY <1>6, <1>10 DEF RunCovered, AtRest, ResultCovered, Awaited, FenceOK
<1>12. ReaderOK(h, s, u, q)'
  BY <1>4, <1>6, <1>8, <1>11 DEF ReaderOK
<1>13. ReaderGoes(h, s)
  BY <1>8, <1>9, <1>12 DEF ReaderGoes
<1>14. SelectsBefore(h, s)
  BY <1>2, <1>8, <1>9 DEF SelectsBefore, Ways
<1> QED BY <1>6, <1>9, <1>13, <1>14, ClientKeeps DEF ClientMoves

-----------------------------------------------------------------------------
(* The end of a run                                                        *)

RunEnds(h, s, r, m, reads, x, n, c) ==
  /\ r = run[s].current /\ m.seen = r.seen
  /\ reads = Hub(h)!ReadSet(r) /\ x = Hub(h)!ResultOf(r)
  /\ IsNew(h, sub[s].actor, n) /\ c = IF Hub(h)!Continues(m, reads) THEN n ELSE NoRun
  /\ run'[s] = [run[s] EXCEPT !.current = c]
  /\ sub'[s] = [sub[s] EXCEPT !.reads = reads, !.result = x]
  /\ retirement'.left \subseteq retirement.left /\ PhaseStays

\* The reader whose run ends: what it read is its result, unless a table it read is in the
\* pending window of the run (m: the run as the refresh in its finally left it).
LEMMA EndedReader ==
  ASSUME NEW h, HubConstants(h), HubTyped(h), NEW s \in h.subs, ReaderOK(h, s, sub[s], run[s]),
         NEW r \in RunTypes(h), NEW m \in RunTypes(h), NEW reads, NEW x, NEW n, NEW c,
         RunEnds(h, s, r, m, reads, x, n, c), RunCovered(h, m)'
  PROVE  ReaderMoves(h, s)
<1> USE DEF RunEnds
<1>1. PICK u \in SubStates(h) : u = sub[s]
  BY DEF HubTyped
<1>2. PICK p \in RunPairs(h) : p = run[s]
  BY DEF HubTyped
<1>3. ReaderOK(h, s, u, p)
  BY <1>1, <1>2
<1>4. IsLive(u) /\ (u.fenced => r.actor = "anonymous") /\ s \notin retirement'.left
  BY <1>2, <1>3, RunFields DEF ReaderOK, IsLive
<1>5. /\ r.seen \in Seen(h) /\ r.actor \in Actors
      /\ x = [seen |-> r.seen, actor |-> r.actor]
  BY RunFields DEF Hub!ResultOf
<1>6. x \in Results(h) /\ x # NoResult /\ x.seen = r.seen /\ x.actor = r.actor
  <2>1. x \in [seen : Seen(h), actor : Actors] /\ x.seen = r.seen /\ x.actor = r.actor
    BY <1>5
  <2>2. x \in Results(h)
    BY <2>1, TypeFacts
  <2> QED BY <2>1, <2>2, ConstantFacts
<1>7. /\ reads \in {AllTables} \cup SUBSET h.tables
      /\ \A t \in h.tables : r.seen[t] # Unread => reads = AllTables \/ t \in reads
  BY DEF Hub!ReadSet, Hub!ReadTables
<1>8. PICK v : v = [u EXCEPT !.reads = reads, !.result = x]
  OBVIOUS
<1>9. /\ v \in SubStates(h) /\ v.reads = reads /\ v.result = x /\ v.actor = u.actor
      /\ v.state = u.state /\ v.replacing = u.replacing /\ v.fenced = u.fenced /\ v.found = u.found
  BY <1>1, <1>6, <1>7, <1>8 DEF SubStates
<1>10. sub'[s] = v
  BY <1>1, <1>8
<1>11. /\ n \in RunTypes(h) /\ n # NoRun /\ n.pc = "querying" /\ n.actor = u.actor
       /\ \A t \in h.tables : n.seen[t] = Unread
  <2>1. u.actor \in Actors /\ IsNew(h, u.actor, n)
    BY <1>1 DEF SubStates
  <2> QED BY <2>1, RunIsNew
<1>12. PICK q : q = [p EXCEPT !.current = c]
  OBVIOUS
<1>13. q \in RunPairs(h) /\ q.current = c /\ q.old = p.old
  BY <1>2, <1>11, <1>12 DEF RunPairs
<1>14. run'[s] = q
  BY <1>2, <1>12
<1>15. IsLive(v) /\ FenceOK(v)' /\ (v.fenced => v.actor = "anonymous")
  <2>1. FenceOK(u)'
    BY <1>3, FenceStays DEF ReaderOK
  <2> QED BY <1>4, <1>9, <2>1 DEF IsLive, FenceOK
<1>16. CASE Hub(h)!Continues(m, reads)
  <2>1. RunCovered(h, n)'
    BY <1>11 DEF RunCovered
  <2>2. ReaderOK(h, s, v, q)'
    BY <1>3, <1>4, <1>9, <1>11, <1>13, <1>15, <1>16, <2>1 DEF ReaderOK
  <2>3. SelectsBefore(h, s)
    BY <1>2, <1>11, <1>13, <1>14, <1>16 DEF SelectsBefore, Ways
  <2> QED BY <1>9, <1>10, <1>13, <1>14, <2>2, <2>3 DEF ReaderMoves
<1>17. CASE ~Hub(h)!Continues(m, reads)
  <2>1. ASSUME NEW t \in h.tables, x.seen[t] # Unread
        PROVE  (reads = AllTables \/ t \in reads) /\ Covered(h, x.seen[t], t)'
    <3>1. m.seen[t] # Unread /\ m.seen[t] = x.seen[t] /\ (reads = AllTables \/ t \in reads)
      BY <1>6, <1>7, <2>1
    <3>2. ~Again(m, t)
      BY <1>17, <3>1 DEF Again, Hub!Continues, Hub!NeedsRefresh
    <3>3. Again(m, t)' <=> Again(m, t)
      BY DEF Again
    <3> QED BY <3>1, <3>2, <3>3 DEF RunCovered
  <2>2. AtRest(h, v)'
    BY <1>4, <1>6, <1>9, <2>1 DEF AtRest, ResultCovered
  <2>3. ReaderOK(h, s, v, q)'
    BY <1>3, <1>4, <1>9, <1>13, <1>15, <1>17, <2>2 DEF ReaderOK
  <2>4. SelectsBefore(h, s)
    BY <1>2, <1>13, <1>14, <1>17 DEF SelectsBefore, Ways
  <2> QED BY <1>9, <1>10, <1>13, <1>14, <2>3, <2>4 DEF ReaderMoves
<1> QED BY <1>16, <1>17

LEMMA EndRunKeeps ==
  ASSUME NEW h, HubConstants(h), HubInvariant(h), NEW s \in h.subs, Hub(h)!EndRun(s)
  PROVE  /\ HubInvariant(h)'
         /\ sub[s].fenced => sub'[s].result.actor = "anonymous"
         /\ ~sub'[s].replacing
         /\ \A u \in h.subs : u # s => sub'[u] = sub[u]
<1>1. HubTyped(h) /\ ReadersOK(h) /\ WritersOK(h) /\ Counted(h)
  BY DEF HubInvariant
<1>2. PICK r : r = run[s].current
  OBVIOUS
<1>3. r \in RunTypes(h)
  BY <1>1, <1>2 DEF HubTyped, RunPairs, Hub!EndRun
<1>4. PICK reads : reads = Hub(h)!ReadSet(r)
  OBVIOUS
<1>5. PICK x : x = Hub(h)!ResultOf(r)
  OBVIOUS
<1>6. PICK n : n = Hub(h)!NewRun(sub[s].actor, FALSE)
  OBVIOUS
<1>7. IsNew(h, sub[s].actor, n)
  BY <1>6, Zenon DEF IsNew
<1>8. PICK told : told = [u \in h.subs |-> IF u = s THEN reads ELSE sub[u].reads]
  OBVIOUS
<1>9. told = [Hub(h)!ReadsNow EXCEPT ![s] = reads]
  BY <1>8 DEF Hub!ReadsNow
<1>10. PICK after : after = IF Hub(h)!Dispatches(r) THEN Hub(h)!Refreshed(run, told, dirty) ELSE run
  OBVIOUS
<1>11. PICK c : c = IF Hub(h)!Continues(after[s].current, reads) THEN n ELSE NoRun
  OBVIOUS
<1>12. /\ sub' = [sub EXCEPT ![s].reads = reads, ![s].result = x]
       /\ run' = [after EXCEPT ![s].current = c]
       /\ generation' = generation
       /\ UNCHANGED <<version, cache, gate, writer, retirement>>
  BY <1>2, <1>4, <1>5, <1>6, <1>9, <1>10, <1>11 DEF Hub!EndRun, Hub!window
<1>13. ReaderOK(h, s, sub[s], run[s])
  BY <1>1 DEF ReadersOK
<1>14. IsLive(sub[s]) /\ (sub[s].fenced => r.actor = "anonymous") /\ RunCovered(h, r)
  BY <1>2, <1>3, <1>13, RunFields DEF ReaderOK
<1>15. /\ sub'[s] = [sub[s] EXCEPT !.reads = reads, !.result = x]
       /\ \A u \in h.subs : u # s => sub'[u] = sub[u]
       /\ sub' = [u \in h.subs |-> sub'[u]]
  BY <1>1, <1>12 DEF HubTyped
<1>16. (sub[s].fenced => sub'[s].result.actor = "anonymous") /\ ~sub'[s].replacing
  <2>1. sub[s] \in SubStates(h)
    BY <1>1 DEF HubTyped
  <2>2. sub'[s].result = x /\ sub'[s].replacing = sub[s].replacing
    BY <1>15, <2>1 DEF SubStates
  <2>3. x.actor = r.actor
    BY <1>5 DEF Hub!ResultOf
  <2> QED BY <1>14, <2>2, <2>3 DEF IsLive
<1>17. ASSUME ~Hub(h)!Dispatches(r) PROVE HubInvariant(h)'
  <2>1. after = run /\ UNCHANGED <<dirty, dispatched>>
    BY <1>2, <1>10, <1>17 DEF Hub!EndRun, Hub!window
  <2>2. /\ run' = [run EXCEPT ![s].current = c] /\ c = IF Hub(h)!Continues(r, reads) THEN n ELSE NoRun
        /\ run'[s] = [run[s] EXCEPT !.current = c]
        /\ run' = [run EXCEPT ![s] = run'[s]] /\ sub' = [sub EXCEPT ![s] = sub'[s]]
    BY <1>1, <1>2, <1>11, <1>12, <1>15, <2>1 DEF HubTyped
  <2>3. RunCovered(h, r)'
    BY <1>12, <1>14, <2>1 DEF RunCovered, Again, Covered, Announced, Unrecorded, Wrote
  <2>4. ReaderMoves(h, s)
    <3>1. RunEnds(h, s, r, r, reads, x, n, c)
      BY <1>2, <1>4, <1>5, <1>7, <1>12, <1>15, <2>2 DEF RunEnds, PhaseStays
    <3> QED BY <1>1, <1>3, <1>13, <2>3, <3>1, EndedReader
  <2>5. ClientMoves(h, s)
    BY <1>12, <2>1, <2>2, <2>4 DEF ClientMoves, ReaderMoves, ReaderGoes
  <2> QED BY <2>5, ClientKeeps
<1>18. ASSUME Hub(h)!Dispatches(r) PROVE HubInvariant(h)'
  <2>1. after = Hub(h)!Refreshed(run, told, dirty) /\ dispatched' = generation /\ dirty' = {}
    BY <1>2, <1>10, <1>18 DEF Hub!EndRun
  <2>2. TakesWindow(h)
    BY <1>12, <2>1 DEF TakesWindow, Wrote, Unrecorded
  <2>3. PICK m : m = Hub(h)!MarkPending(r, dirty)
    OBVIOUS
  <2>4. PICK d \in SUBSET (h.tables \cup {LogTable}) : d = dirty
    BY <1>1 DEF HubTyped
  <2>5. m \in RunTypes(h) /\ m.seen = r.seen
    BY <1>3, <2>3, <2>4, RunIsMarked
  <2>6. RunCovered(h, m)'
    BY <1>1, <1>3, <1>14, <2>2, <2>3, MarkedRunIsCovered
  <2>7. after[s] = [run[s] EXCEPT !.current = m]
    BY <1>2, <1>3, <1>14, <2>1, <2>3, RunFields DEF Hub!Refreshed, Hub!Live, IsLive
  <2>8. run[s] \in RunPairs(h)
    BY <1>1 DEF HubTyped
  <2>9. after[s].current = m /\ [after[s] EXCEPT !.current = c] = [run[s] EXCEPT !.current = c]
    BY <2>7, <2>8 DEF RunPairs
  <2>10. DOMAIN after = h.subs /\ after = [u \in h.subs |-> after[u]]
    BY <2>1 DEF Hub!Refreshed
  <2>11. /\ run'[s] = [run[s] EXCEPT !.current = c]
         /\ c = IF Hub(h)!Continues(m, reads) THEN n ELSE NoRun
         /\ \A u \in h.subs : u # s => run'[u] = after[u]
         /\ run' = [u \in h.subs |-> run'[u]]
    BY <1>11, <1>12, <2>9, <2>10
  <2>12. ReaderMoves(h, s)
    <3>1. RunEnds(h, s, r, m, reads, x, n, c)
      BY <1>2, <1>4, <1>5, <1>7, <1>12, <1>15, <2>5, <2>11 DEF RunEnds, PhaseStays
    <3> QED BY <1>1, <1>3, <1>13, <2>5, <2>6, <3>1, EndedReader
  <2>13. ASSUME NEW u \in h.subs, u # s PROVE ReaderMoves(h, u)
    <3>1. told[u] = sub[u].reads /\ run'[u] = Hub(h)!Refreshed(run, told, dirty)[u] /\ sub'[u] = sub[u]
      BY <1>8, <1>15, <2>1, <2>11, <2>13
    <3>2. ReaderOK(h, u, sub[u], run[u])
      BY <1>1 DEF ReadersOK
    <3> QED BY <1>1, <1>12, <2>2, <3>1, <3>2, RefreshedReader DEF PhaseStays
  <2>14. RestMoves(h)
    BY <1>1, <1>12, <2>1, RestStays, ConstantFacts DEF HubTyped
  <2>15. \A u \in h.subs : ReaderMoves(h, u)
    BY <2>12, <2>13
  <2> QED BY <1>15, <2>11, <2>14, <2>15, ReadersKeepInvariant
<1> QED BY <1>15, <1>16, <1>17, <1>18

-----------------------------------------------------------------------------
(* Clients and the retirement of their sessions                            *)

LEMMA RefreshIsCancelled ==
  ASSUME NEW h, HubConstants(h), NEW s \in h.subs, NEW r \in RunPairs(h), r = run[s],
         r.old # NoRun => ~r.old.valid, NEW c, c = Hub(h)!CancelRefresh(s)
  PROVE  /\ c \in RunPairs(h) /\ c.current = NoRun /\ (c.old # NoRun => ~c.old.valid)
         /\ \A k \in Ways : c[k] # NoRun /\ c[k].pc = "selected" =>
              \E j \in Ways : r[j] # NoRun /\ r[j].pc = "selected" /\ r[j].seen = c[k].seen
<1>1. CASE r.current = NoRun
  <2>1. c = r
    BY <1>1 DEF Hub!CancelRefresh
  <2> QED BY <1>1, <2>1
<1>2. CASE r.current # NoRun
  <2>1. PICK q : q = Hub(h)!Cancelled(r.current)
    OBVIOUS
  <2>2. c = [current |-> NoRun, old |-> q]
    BY <1>2, <2>1 DEF Hub!CancelRefresh
  <2>3. r.current \in RunTypes(h)
    BY <1>2 DEF RunPairs
  <2>4. q \in RunTypes(h) /\ q.pc = r.current.pc /\ q.seen = r.current.seen /\ ~q.valid
    BY <2>1, <2>3, RunIsCancelled
  <2>5. c \in RunPairs(h) /\ c.current = NoRun /\ c.old = q
    BY <2>2, <2>4 DEF RunPairs
  <2> QED BY <1>2, <2>4, <2>5 DEF Ways
<1> QED BY <1>1, <1>2

\* A client that leaves, or is made to: no run of its subscription goes on.
LEMMA CancelledReader ==
  ASSUME NEW h, HubConstants(h), HubTyped(h), NEW s \in h.subs, ReaderOK(h, s, sub[s], run[s]),
         run'[s] = Hub(h)!CancelRefresh(s), NEW v \in SubStates(h), sub'[s] = v, ~IsLive(v),
         s \in retirement'.left => v.replacing /\ v.reads = AllTables, FenceOK(v)'
  PROVE  ReaderGoes(h, s) /\ SelectsBefore(h, s)
<1>1. PICK r \in RunPairs(h) : r = run[s]
  BY DEF HubTyped
<1>2. PICK c : c = Hub(h)!CancelRefresh(s)
  OBVIOUS
<1>3. r.old # NoRun => ~r.old.valid
  BY <1>1 DEF ReaderOK
<1>4. /\ c \in RunPairs(h) /\ c.current = NoRun /\ (c.old # NoRun => ~c.old.valid)
      /\ \A k \in Ways : c[k] # NoRun /\ c[k].pc = "selected" =>
           \E j \in Ways : r[j] # NoRun /\ r[j].pc = "selected" /\ r[j].seen = c[k].seen
  BY <1>1, <1>2, <1>3, RefreshIsCancelled
<1>5. ReaderOK(h, s, v, c)'
  BY <1>4 DEF ReaderOK
<1> QED BY <1>1, <1>2, <1>4, <1>5 DEF ReaderGoes, SelectsBefore

\* What a message makes of its client's session: not the user's again, behind the fence.
LEMMA SessionIsResolved ==
  ASSUME NEW h, NEW s \in h.subs, NEW u \in SubStates(h), u = sub[s], FenceOK(u),
         NEW a, a = Hub(h)!Resolved(s)
  PROVE  a \in Actors /\ (u.fenced => a = "anonymous")
<1>1. a = IF u.found THEN "user" ELSE "anonymous"
  BY DEF Hub!Resolved
<1> QED BY <1>1 DEF FenceOK, Actors

\* A step that leaves every result as it is, or takes it away.
NothingSent(h) ==
  \A s \in h.subs : sub'[s].result = sub[s].result \/ sub'[s].result = NoResult

LEMMA SubscribeKeeps ==
  ASSUME NEW h, HubConstants(h), HubInvariant(h), NEW s \in h.subs, Hub(h)!Subscribe(s)
  PROVE  HubInvariant(h)' /\ NothingSent(h)
<1>1. HubTyped(h) /\ ReadersOK(h)
  BY DEF HubInvariant
<1>2. PICK u \in SubStates(h) : u = sub[s]
  BY <1>1 DEF HubTyped
<1>3. ReaderOK(h, s, sub[s], run[s])
  BY <1>1 DEF ReadersOK
<1>4. PICK a : a = Hub(h)!Resolved(s)
  OBVIOUS
<1>5. a \in Actors /\ (u.fenced => a = "anonymous")
  BY <1>2, <1>3, <1>4, SessionIsResolved DEF ReaderOK
<1>6. /\ u.left > 0
      /\ UNCHANGED <<version, cache, gate, dirty, generation, dispatched, writer, retirement>>
      /\ sub' = [sub EXCEPT ![s].actor = a, ![s].found = FALSE,
                            ![s].state = "subscribed", ![s].left = @ - 1,
                            ![s].reads = AllTables, ![s].result = NoResult]
  BY <1>2, <1>4 DEF Hub!Subscribe
<1>7. PICK v : v = [u EXCEPT !.actor = a, !.found = FALSE,
                             !.state = "subscribed", !.left = u.left - 1,
                             !.reads = AllTables, !.result = NoResult]
  OBVIOUS
<1>8. /\ v \in SubStates(h) /\ v.state = "subscribed" /\ v.reads = AllTables /\ v.result = NoResult
      /\ v.actor = a /\ ~v.found /\ v.fenced = u.fenced /\ v.replacing = u.replacing
  <2>1. u.left \in 0..h.subscribes
    BY DEF SubStates
  <2>2. PICK left \in 0..h.subscribes : left = u.left - 1
    BY <1>6, <2>1, ConstantFacts
  <2>3. v = [u EXCEPT !.actor = a, !.found = FALSE, !.state = "subscribed", !.left = left,
                      !.reads = AllTables, !.result = NoResult]
    BY <1>7, <2>2
  <2> QED BY <1>5, <2>3 DEF SubStates
<1>9. sub'[s] = v /\ sub' = [sub EXCEPT ![s] = sub'[s]] /\ \A z \in h.subs : z # s => sub'[z] = sub[z]
  BY <1>1, <1>2, <1>6, <1>7 DEF HubTyped
<1>10. NothingSent(h)
  BY <1>8, <1>9 DEF NothingSent
<1>11. s \in retirement'.left => v.replacing /\ v.reads = AllTables
  BY <1>2, <1>3, <1>6, <1>8 DEF ReaderOK
<1>12. FenceOK(v)'
  BY <1>2, <1>3, <1>6, <1>8, <1>5 DEF ReaderOK, FenceOK
<1>13. PICK c : c = Hub(h)!CancelRefresh(s)
  OBVIOUS
<1>14. CASE u.replacing
  <2>1. run' = [run EXCEPT ![s] = c]
    BY <1>2, <1>13, <1>14 DEF Hub!Subscribe
  <2>2. run'[s] = c /\ run' = [run EXCEPT ![s] = run'[s]]
    BY <1>1, <2>1 DEF HubTyped
  <2>3. ~IsLive(v)
    BY <1>8, <1>14 DEF IsLive
  <2>4. ReaderGoes(h, s) /\ SelectsBefore(h, s)
    BY <1>1, <1>3, <1>8, <1>9, <1>11, <1>13, <1>12, <2>2, <2>3, CancelledReader
  <2>5. ClientMoves(h, s)
    BY <1>6, <1>9, <2>2, <2>4 DEF ClientMoves
  <2> QED BY <1>10, <2>5, ClientKeeps
<1>15. CASE ~u.replacing
  <2>1. PICK r \in RunPairs(h) : r = run[s]
    BY <1>1 DEF HubTyped
  <2>2. r.old # NoRun => ~r.old.valid
    BY <1>3, <2>1 DEF ReaderOK
  <2>3. /\ c \in RunPairs(h) /\ c.current = NoRun /\ (c.old # NoRun => ~c.old.valid)
        /\ \A k \in Ways : c[k] # NoRun /\ c[k].pc = "selected" =>
             \E j \in Ways : r[j] # NoRun /\ r[j].pc = "selected" /\ r[j].seen = c[k].seen
    BY <1>13, <2>1, <2>2, RefreshIsCancelled
  <2>4. PICK n : n = Hub(h)!NewRun(a, TRUE)
    OBVIOUS
  <2>5. /\ n \in RunTypes(h) /\ n # NoRun /\ n.pc = "querying" /\ n.actor = a
        /\ \A t \in h.tables : n.seen[t] = Unread
    <3>1. IsNew(h, a, n)
      BY <2>4, Zenon DEF IsNew
    <3> QED BY <1>1, <1>5, <3>1, RunIsNew
  <2>6. PICK q : q = [c EXCEPT !.current = n]
    OBVIOUS
  <2>7. q \in RunPairs(h) /\ q.current = n /\ q.old = c.old
    BY <2>3, <2>5, <2>6 DEF RunPairs
  <2>8. run' = [run EXCEPT ![s] = q]
    BY <1>2, <1>13, <1>15, <1>4, <2>4, <2>6 DEF Hub!Subscribe
  <2>9. run'[s] = q /\ run' = [run EXCEPT ![s] = run'[s]]
    BY <1>1, <2>8 DEF HubTyped
  <2>10. RunCovered(h, n)'
    BY <2>5 DEF RunCovered
  <2>11. ReaderOK(h, s, v, q)'
    BY <1>8, <1>11, <1>15, <1>5, <1>12, <2>3, <2>5, <2>7, <2>10 DEF ReaderOK, IsLive
  <2>12. ReaderGoes(h, s)
    BY <1>8, <1>9, <2>7, <2>9, <2>11 DEF ReaderGoes
  <2>13. SelectsBefore(h, s)
    BY <2>1, <2>3, <2>5, <2>7, <2>9 DEF SelectsBefore, Ways
  <2>14. ClientMoves(h, s)
    BY <1>6, <1>9, <2>9, <2>12, <2>13 DEF ClientMoves
  <2> QED BY <1>10, <2>14, ClientKeeps
<1> QED BY <1>14, <1>15

LEMMA LeavingKeeps ==
  ASSUME NEW h, HubConstants(h), HubInvariant(h), NEW s \in h.subs,
         Hub(h)!Unsubscribe(s) \/ Hub(h)!Disconnect(s)
  PROVE  HubInvariant(h)' /\ NothingSent(h)
<1>1. HubTyped(h) /\ ReadersOK(h)
  BY DEF HubInvariant
<1>2. PICK u \in SubStates(h) : u = sub[s]
  BY <1>1 DEF HubTyped
<1>3. ReaderOK(h, s, sub[s], run[s])
  BY <1>1 DEF ReadersOK
<1>4. FenceOK(u)
  BY <1>2, <1>3 DEF ReaderOK
<1>5. /\ run' = [run EXCEPT ![s] = Hub(h)!CancelRefresh(s)]
      /\ UNCHANGED <<version, cache, gate, dirty, generation, dispatched, writer, retirement>>
  BY DEF Hub!Unsubscribe, Hub!Disconnect
<1>6. PICK v \in SubStates(h) :
        /\ ~IsLive(v) /\ v.reads = u.reads /\ v.result = u.result /\ v.replacing = u.replacing
        /\ FenceOK(v)' /\ sub' = [sub EXCEPT ![s] = v]
  <2>1. CASE Hub(h)!Unsubscribe(s)
    <3>1. PICK a : a = Hub(h)!Resolved(s)
      OBVIOUS
    <3>2. a \in Actors /\ (u.fenced => a = "anonymous")
      BY <1>2, <1>4, <3>1, SessionIsResolved
    <3>3. PICK v : v = [u EXCEPT !.actor = a, !.found = FALSE, !.state = "unsubscribed"]
      OBVIOUS
    <3>4. /\ v \in SubStates(h) /\ ~IsLive(v) /\ v.reads = u.reads /\ v.result = u.result
          /\ v.replacing = u.replacing /\ v.fenced = u.fenced /\ ~v.found /\ v.actor = a
      BY <3>2, <3>3 DEF SubStates, IsLive
    <3>5. sub' = [sub EXCEPT ![s] = v]
      BY <1>1, <1>2, <2>1, <3>1, <3>3 DEF Hub!Unsubscribe, HubTyped
    <3>6. FenceOK(v)'
      BY <1>4, <1>5, <3>2, <3>4 DEF FenceOK
    <3> QED BY <3>4, <3>5, <3>6
  <2>2. CASE Hub(h)!Disconnect(s)
    <3>1. PICK v : v = [u EXCEPT !.state = "closed"]
      OBVIOUS
    <3>2. /\ v \in SubStates(h) /\ ~IsLive(v) /\ v.reads = u.reads /\ v.result = u.result
          /\ v.replacing = u.replacing /\ v.fenced = u.fenced /\ v.found = u.found /\ v.actor = u.actor
      BY <3>1 DEF SubStates, IsLive
    <3>3. sub' = [sub EXCEPT ![s] = v]
      BY <1>1, <1>2, <2>2, <3>1 DEF Hub!Disconnect, HubTyped
    <3>4. FenceOK(v)'
      BY <1>4, <1>5, <3>2 DEF FenceOK
    <3> QED BY <3>2, <3>3, <3>4
  <2> QED BY <2>1, <2>2
<1>7. sub'[s] = v /\ sub' = [sub EXCEPT ![s] = sub'[s]] /\ \A z \in h.subs : z # s => sub'[z] = sub[z]
  BY <1>1, <1>6 DEF HubTyped
<1>8. NothingSent(h)
  BY <1>2, <1>6, <1>7 DEF NothingSent
<1>9. s \in retirement'.left => v.replacing /\ v.reads = AllTables
  BY <1>2, <1>3, <1>5, <1>6 DEF ReaderOK
<1>10. run'[s] = Hub(h)!CancelRefresh(s) /\ run' = [run EXCEPT ![s] = run'[s]]
  BY <1>1, <1>5 DEF HubTyped
<1>11. ReaderGoes(h, s) /\ SelectsBefore(h, s)
  BY <1>1, <1>3, <1>6, <1>7, <1>9, <1>10, CancelledReader
<1>12. ClientMoves(h, s)
  BY <1>5, <1>7, <1>10, <1>11 DEF ClientMoves
<1> QED BY <1>8, <1>12, ClientKeeps

\* A message that changes the session of its client and nothing else: its lookup, and what
\* the lookup found.
LEMMA SessionKeeps ==
  ASSUME NEW h, HubConstants(h), HubInvariant(h), NEW s \in h.subs,
         Hub(h)!FindSession(s) \/ Hub(h)!ResolveSession(s)
  PROVE  HubInvariant(h)' /\ NothingSent(h)
<1>1. HubTyped(h) /\ ReadersOK(h)
  BY DEF HubInvariant
<1>2. PICK u \in SubStates(h) : u = sub[s]
  BY <1>1 DEF HubTyped
<1>3. PICK r \in RunPairs(h) : r = run[s]
  BY <1>1 DEF HubTyped
<1>4. ReaderOK(h, s, u, r)
  BY <1>1, <1>2, <1>3 DEF ReadersOK
<1>5. UNCHANGED <<version, cache, gate, dirty, generation, dispatched, writer, run, retirement>>
  BY DEF Hub!FindSession, Hub!ResolveSession
<1>6. PICK v \in SubStates(h) :
        /\ v.state = u.state /\ v.reads = u.reads /\ v.result = u.result
        /\ v.replacing = u.replacing /\ v.fenced = u.fenced
        /\ FenceOK(v)' /\ sub' = [sub EXCEPT ![s] = v]
  <2>1. CASE Hub(h)!FindSession(s)
    <3>1. PICK v : v = [u EXCEPT !.found = TRUE]
      OBVIOUS
    <3>2. /\ v \in SubStates(h) /\ v.state = u.state /\ v.reads = u.reads /\ v.result = u.result
          /\ v.replacing = u.replacing /\ v.fenced = u.fenced /\ v.actor = u.actor
      BY <3>1 DEF SubStates
    <3>3. retirement.phase = "none" /\ sub' = [sub EXCEPT ![s] = v]
      BY <1>1, <1>2, <2>1, <3>1 DEF Hub!FindSession, HubTyped
    <3>4. FenceOK(v)'
      BY <1>4, <1>5, <3>2, <3>3 DEF ReaderOK, FenceOK
    <3> QED BY <3>2, <3>3, <3>4
  <2>2. CASE Hub(h)!ResolveSession(s)
    <3>1. PICK a : a = Hub(h)!Resolved(s)
      OBVIOUS
    <3>2. a \in Actors /\ (u.fenced => a = "anonymous")
      BY <1>2, <1>4, <3>1, SessionIsResolved DEF ReaderOK
    <3>3. PICK v : v = [u EXCEPT !.actor = a, !.found = FALSE]
      OBVIOUS
    <3>4. /\ v \in SubStates(h) /\ v.state = u.state /\ v.reads = u.reads /\ v.result = u.result
          /\ v.replacing = u.replacing /\ v.fenced = u.fenced /\ ~v.found /\ v.actor = a
      BY <3>2, <3>3 DEF SubStates
    <3>5. sub' = [sub EXCEPT ![s] = v]
      BY <1>1, <1>2, <2>2, <3>1, <3>3 DEF Hub!ResolveSession, HubTyped
    <3>6. FenceOK(v)'
      BY <1>4, <1>5, <3>2, <3>4 DEF ReaderOK, FenceOK
    <3> QED BY <3>4, <3>5, <3>6
  <2> QED BY <2>1, <2>2
<1>7. sub'[s] = v /\ sub' = [sub EXCEPT ![s] = sub'[s]] /\ \A z \in h.subs : z # s => sub'[z] = sub[z]
  BY <1>1, <1>6 DEF HubTyped
<1>8. NothingSent(h)
  BY <1>2, <1>6, <1>7 DEF NothingSent
<1>9. ASSUME NEW t \in h.tables, NEW x, Covered(h, x, t) PROVE Covered(h, x, t)'
  BY <1>5, <1>9 DEF Covered, Announced, Unrecorded, Wrote
<1>10. /\ RunCovered(h, r.current) => RunCovered(h, r.current)'
       /\ AtRest(h, u) => AtRest(h, v)'
       /\ Awaited(u) => Awaited(v)'
  BY <1>5, <1>6, <1>9 DEF RunCovered, AtRest, ResultCovered, Awaited
<1>11. ReaderOK(h, s, v, r)'
  BY <1>4, <1>5, <1>6, <1>10 DEF ReaderOK, IsLive
<1>12. run'[s] = r /\ run' = [run EXCEPT ![s] = run'[s]]
  BY <1>1, <1>3, <1>5 DEF HubTyped
<1>13. ClientMoves(h, s)
  BY <1>3, <1>5, <1>6, <1>7, <1>11, <1>12 DEF ClientMoves, ReaderGoes, SelectsBefore
<1> QED BY <1>8, <1>13, ClientKeeps

\* One session of the terminated user is replaced, or its socket destroyed.
LEMMA ReplacingKeeps ==
  ASSUME NEW h, HubConstants(h), HubInvariant(h), NEW s \in h.subs,
         Hub(h)!ReplaceSession(s) \/ Hub(h)!ReplacementFails(s)
  PROVE  HubInvariant(h)' /\ NothingSent(h)
<1>1. HubTyped(h) /\ ReadersOK(h)
  BY DEF HubInvariant
<1>2. PICK u \in SubStates(h) : u = sub[s]
  BY <1>1 DEF HubTyped
<1>3. ReaderOK(h, s, sub[s], run[s])
  BY <1>1 DEF ReadersOK
<1>4. PICK left : left = retirement.left \ {s}
  OBVIOUS
<1>5. /\ retirement.phase = "replacing" /\ s \in retirement.left
      /\ retirement' = [phase |-> IF left = {} THEN "timer" ELSE "replacing", left |-> left]
      /\ UNCHANGED <<version, cache, gate, dirty, generation, dispatched, writer>>
  BY <1>4 DEF Hub!ReplaceSession, Hub!ReplacementFails
<1>6. /\ retirement' \in Retirements(h) /\ retirement'.phase \in {"replacing", "timer"}
      /\ retirement'.left \subseteq retirement.left /\ s \notin retirement'.left
  BY <1>1, <1>4, <1>5 DEF HubTyped, Retirements
<1>7. u.replacing /\ u.reads = AllTables /\ ~u.found
  BY <1>2, <1>3, <1>5 DEF ReaderOK, FenceOK
<1>8. PICK r \in RunPairs(h) : r = run[s]
  BY <1>1 DEF HubTyped
<1>9. r.current = NoRun
  BY <1>2, <1>3, <1>7, <1>8 DEF ReaderOK, IsLive
<1>10. CASE Hub(h)!ReplaceSession(s)
  <2>1. run' = run /\ sub' = [sub EXCEPT ![s].actor = "anonymous", ![s].replacing = FALSE]
    BY <1>10 DEF Hub!ReplaceSession
  <2>2. PICK v : v = [u EXCEPT !.actor = "anonymous", !.replacing = FALSE]
    OBVIOUS
  <2>3. /\ v \in SubStates(h) /\ v.reads = u.reads /\ v.result = u.result
        /\ v.actor = "anonymous" /\ v.found = u.found
    BY <1>2, <2>2 DEF SubStates, Actors
  <2>4. sub'[s] = v /\ sub' = [sub EXCEPT ![s] = sub'[s]] /\ \A z \in h.subs : z # s => sub'[z] = sub[z]
    BY <1>1, <1>2, <2>1, <2>2 DEF HubTyped
  <2>5. NothingSent(h)
    BY <1>2, <2>3, <2>4 DEF NothingSent
  <2>6. run'[s] = r /\ run' = [run EXCEPT ![s] = run'[s]]
    BY <1>1, <1>8, <2>1 DEF HubTyped
  <2>7. Awaited(v)'
    BY <1>6, <1>7, <2>3 DEF Awaited
  <2>8. r.old # NoRun => ~r.old.valid
    BY <1>3, <1>8 DEF ReaderOK
  <2>9. ReaderOK(h, s, v, r)'
    <3>1. FenceOK(v)'
      BY <1>6, <1>7, <2>3 DEF FenceOK
    <3> QED BY <1>6, <1>9, <2>7, <2>8, <3>1 DEF ReaderOK
  <2>10. ReaderGoes(h, s) /\ SelectsBefore(h, s)
    BY <1>8, <2>3, <2>4, <2>6, <2>9 DEF ReaderGoes, SelectsBefore
  <2>11. ClientMoves(h, s)
    BY <1>5, <1>6, <2>4, <2>6, <2>10 DEF ClientMoves
  <2> QED BY <2>5, <2>11, ClientKeeps
<1>11. CASE Hub(h)!ReplacementFails(s)
  <2>1. /\ run' = [run EXCEPT ![s] = Hub(h)!CancelRefresh(s)]
        /\ sub' = [sub EXCEPT ![s].actor = "anonymous", ![s].replacing = FALSE, ![s].state = "closed"]
    BY <1>11 DEF Hub!ReplacementFails
  <2>2. PICK v : v = [u EXCEPT !.actor = "anonymous", !.replacing = FALSE, !.state = "closed"]
    OBVIOUS
  <2>3. /\ v \in SubStates(h) /\ v.result = u.result /\ ~IsLive(v)
        /\ v.actor = "anonymous" /\ v.found = u.found
    BY <1>2, <2>2 DEF SubStates, Actors, IsLive
  <2>4. sub'[s] = v /\ sub' = [sub EXCEPT ![s] = sub'[s]] /\ \A z \in h.subs : z # s => sub'[z] = sub[z]
    BY <1>1, <1>2, <2>1, <2>2 DEF HubTyped
  <2>5. NothingSent(h)
    BY <1>2, <2>3, <2>4 DEF NothingSent
  <2>6. run'[s] = Hub(h)!CancelRefresh(s) /\ run' = [run EXCEPT ![s] = run'[s]]
    BY <1>1, <2>1 DEF HubTyped
  <2>7. ReaderGoes(h, s) /\ SelectsBefore(h, s)
    <3>1. FenceOK(v)'
      BY <1>6, <1>7, <2>3 DEF FenceOK
    <3> QED BY <1>1, <1>3, <1>6, <2>3, <2>4, <2>6, <3>1, CancelledReader
  <2>8. ClientMoves(h, s)
    BY <1>5, <1>6, <2>4, <2>6, <2>7 DEF ClientMoves
  <2> QED BY <2>5, <2>8, ClientKeeps
<1> QED BY <1>10, <1>11

\* Every affected reader is fenced at once.
LEMMA RetireKeeps ==
  ASSUME NEW h, HubConstants(h), HubInvariant(h), Hub(h)!Retire
  PROVE  HubInvariant(h)' /\ NothingSent(h)
<1>1. HubTyped(h) /\ ReadersOK(h)
  BY DEF HubInvariant
<1>2. PICK affected : affected = Hub(h)!Affected
  OBVIOUS
<1>3. affected \subseteq h.subs
  BY <1>2 DEF HubConstants, Hub!LiveQueriesAssumption, Hub!Affected
<1>4. /\ retirement.phase = "committed" /\ retirement' = [phase |-> "replacing", left |-> affected]
      /\ sub' = [s \in h.subs |-> IF s \in affected
                                  THEN [sub[s] EXCEPT !.replacing = TRUE, !.reads = AllTables,
                                                      !.fenced = TRUE]
                                  ELSE sub[s]]
      /\ run' = [s \in h.subs |-> IF s \in affected THEN Hub(h)!CancelRefresh(s) ELSE run[s]]
      /\ UNCHANGED <<version, cache, gate, dirty, generation, dispatched, writer>>
  BY <1>2 DEF Hub!Retire
<1>5. retirement' \in Retirements(h) /\ retirement'.left = affected
  BY <1>3, <1>4 DEF Retirements
<1>6. ASSUME NEW s \in h.subs, s \in affected
      PROVE  ReaderMoves(h, s) /\ sub'[s].result = sub[s].result
  <2>1. PICK u \in SubStates(h) : u = sub[s]
    BY <1>1 DEF HubTyped
  <2>2. PICK v : v = [u EXCEPT !.replacing = TRUE, !.reads = AllTables, !.fenced = TRUE]
    OBVIOUS
  <2>3. /\ v \in SubStates(h) /\ v.result = u.result /\ v.replacing /\ v.reads = AllTables /\ ~IsLive(v)
        /\ v.found = u.found
    BY <2>1, <2>2 DEF SubStates, IsLive
  <2>4. sub'[s] = v /\ run'[s] = Hub(h)!CancelRefresh(s)
    BY <1>4, <1>6, <2>1, <2>2
  <2>5. ReaderOK(h, s, sub[s], run[s])
    BY <1>1 DEF ReadersOK
  <2>6. ReaderGoes(h, s) /\ SelectsBefore(h, s)
    <3>1. FenceOK(v)'
      BY <1>4, <2>1, <2>3, <2>5 DEF ReaderOK, FenceOK
    <3> QED BY <1>1, <2>3, <2>4, <2>5, <3>1, CancelledReader
  <2> QED BY <2>1, <2>3, <2>4, <2>6 DEF ReaderMoves, ReaderGoes
<1>7. ASSUME NEW s \in h.subs, s \notin affected
      PROVE  ReaderMoves(h, s) /\ sub'[s].result = sub[s].result
  <2>1. sub'[s] = sub[s] /\ run'[s] = run[s]
    BY <1>4, <1>7
  <2>2. ReaderOK(h, s, sub[s], run[s])
    BY <1>1 DEF ReadersOK
  <2>3. Awaited(sub[s]) => Awaited(sub[s])'
    BY <1>4 DEF Awaited
  <2>4. FenceOK(sub[s])'
    <3>1. PICK u : u = sub[s] /\ sub'[s] = u
      BY <2>1
    <3>2. FenceOK(u) /\ PhaseStays
      BY <1>4, <2>2, <3>1 DEF ReaderOK, PhaseStays
    <3> QED BY <3>1, <3>2, FenceStays
  <2> QED BY <1>1, <1>4, <1>5, <1>7, <2>1, <2>2, <2>3, <2>4, ReaderStays
<1>8. \A s \in h.subs : ReaderMoves(h, s)
  BY <1>6, <1>7
<1>9. NothingSent(h)
  BY <1>6, <1>7 DEF NothingSent
<1>10. RestMoves(h)
  BY <1>1, <1>4, <1>5, RestStays DEF HubTyped
<1>11. sub' = [s \in h.subs |-> sub'[s]] /\ run' = [s \in h.subs |-> run'[s]]
  BY <1>4
<1> QED BY <1>8, <1>9, <1>10, <1>11, ReadersKeepInvariant

\* The user's Sessions are deleted: no message has found one of them and is still under way,
\* for its answer comes before that of the transaction.
LEMMA TerminateKeeps ==
  ASSUME NEW h, HubConstants(h), HubInvariant(h), Hub(h)!Terminate
  PROVE  HubInvariant(h)' /\ NothingSent(h)
<1>1. HubTyped(h) /\ ReadersOK(h)
  BY DEF HubInvariant
<1>2. /\ retirement.phase = "none" /\ retirement' = [retirement EXCEPT !.phase = "committed"]
      /\ \A s \in h.subs : ~sub[s].found
      /\ UNCHANGED <<version, cache, gate, dirty, generation, dispatched, writer, sub, run>>
  BY DEF Hub!Terminate, HubConstants
<1>3. /\ retirement' \in Retirements(h) /\ retirement'.phase = "committed"
      /\ retirement'.left = retirement.left
  BY <1>1, <1>2 DEF HubTyped, Retirements
<1>4. ASSUME NEW s \in h.subs PROVE ReaderMoves(h, s)
  <2>1. PICK u : u = sub[s] /\ sub'[s] = u
    BY <1>2
  <2>2. ReaderOK(h, s, sub[s], run[s]) /\ FenceOK(u) /\ ~u.found
    BY <1>1, <1>2, <2>1 DEF ReadersOK, ReaderOK
  <2>3. ~u.fenced
    BY <1>2, <2>2 DEF FenceOK
  <2>4. FenceOK(sub[s])'
    BY <2>1, <2>2, <2>3 DEF FenceOK
  <2>5. Awaited(sub[s]) => Awaited(sub[s])'
    BY <1>2 DEF Awaited
  <2> QED BY <1>1, <1>2, <1>3, <2>2, <2>4, <2>5, ReaderStays
<1>5. NothingSent(h)
  BY <1>2 DEF NothingSent
<1>6. RestMoves(h)
  BY <1>1, <1>2, <1>3, RestStays DEF HubTyped
<1>7. sub' = [s \in h.subs |-> sub'[s]] /\ run' = [s \in h.subs |-> run'[s]]
  BY <1>1, <1>2 DEF HubTyped
<1> QED BY <1>4, <1>5, <1>6, <1>7, ReadersKeepInvariant

-----------------------------------------------------------------------------
(* The steps of the hub                                                    *)

LEMMA InvariantInitially ==
  ASSUME NEW h, HubConstants(h), Hub(h)!Init
  PROVE  HubInvariant(h)
<1>1. /\ version = [t \in h.tables |-> 0]
      /\ cache = [t \in h.tables |-> [a \in Actors |-> NoRows]]
      /\ gate = NoWriter /\ dirty = {} /\ generation = 0 /\ dispatched = 0
      /\ writer = [w \in Writers(h) |-> [phase |-> "idle", table |-> NoTable]]
      /\ sub = [s \in h.subs |-> [state |-> "unsubscribed", left |-> h.subscribes, reads |-> AllTables,
                                  actor |-> IF s \in h.owned THEN "user" ELSE "anonymous",
                                  replacing |-> FALSE, result |-> NoResult,
                                  found |-> FALSE, fenced |-> FALSE]]
      /\ run = [s \in h.subs |-> [current |-> NoRun, old |-> NoRun]]
      /\ retirement = [phase |-> "none", left |-> {}]
  BY DEF Hub!Init, Hub!Actors, Actors, Writers
<1>2. \A w \in Writers(h) : /\ writer[w] \in WriterStates(h)
                            /\ writer[w].phase = "idle"
  BY <1>1 DEF WriterStates, Phases
<1>3. ASSUME NEW s \in h.subs
      PROVE  /\ sub[s] \in SubStates(h) /\ ~IsLive(sub[s]) /\ FenceOK(sub[s])
             /\ run[s] \in RunPairs(h) /\ run[s].current = NoRun /\ run[s].old = NoRun
  BY <1>1, ConstantFacts DEF SubStates, IsLive, FenceOK, RunPairs, Actors
<1>4. HubTyped(h)
  <2>1. 0 \in Versions(h)
    BY ConstantFacts
  <2>2. retirement \in Retirements(h)
    BY <1>1 DEF Retirements
  <2>3. /\ version \in [h.tables -> Versions(h)]
        /\ cache \in [h.tables -> [Actors -> Versions(h) \cup {NoRows}]]
    BY <1>1, <2>1
  <2>4. generation \in 0..Cardinality(Writers(h)) /\ dispatched \in 0..generation /\ dirty = {}
    BY <1>1, ConstantFacts
  <2>5. /\ writer \in [Writers(h) -> WriterStates(h)] /\ sub \in [h.subs -> SubStates(h)]
        /\ run \in [h.subs -> RunPairs(h)]
    BY <1>1, <1>2, <1>3
  <2> QED BY <2>2, <2>3, <2>4, <2>5 DEF HubTyped
<1>5. WritersOK(h)
  BY <1>1, <1>2 DEF WritersOK
<1>6. Counted(h)
  <2>1. /\ Cardinality(Recorded(h)) \in Nat
        /\ \A t \in h.tables : Cardinality(Stored(h, t)) \in Nat
    BY ConstantFacts, FS_Subset, FS_CardinalityType DEF Recorded, Stored
  <2> QED BY <1>1, <2>1 DEF Counted
<1>7. CacheOK(h)
  BY <1>1, <1>3 DEF CacheOK, Selected, Selects, Ways
<1>8. ReadersOK(h)
  BY <1>1, <1>3 DEF ReadersOK, ReaderOK
<1> QED BY <1>4, <1>5, <1>6, <1>7, <1>8 DEF HubInvariant

LEMMA InvariantStutters ==
  ASSUME NEW h, HubInvariant(h), UNCHANGED hub
  PROVE  HubInvariant(h)' /\ NothingSent(h)
<1>1. /\ version' = version /\ cache' = cache /\ gate' = gate /\ dirty' = dirty
      /\ generation' = generation /\ dispatched' = dispatched /\ writer' = writer
      /\ sub' = sub /\ run' = run /\ retirement' = retirement
  BY DEF hub
<1>2. HubTyped(h)' /\ WritersOK(h)' /\ Counted(h)'
  BY <1>1 DEF HubInvariant, HubTyped, WritersOK, Counted, Recorded, Stored
<1>3. CacheOK(h)'
  BY <1>1 DEF HubInvariant, CacheOK, Selected, Selects, Wrote
<1>4. \A t \in h.tables : \A v : Covered(h, v, t)' <=> Covered(h, v, t)
  BY <1>1 DEF Covered, Announced, Unrecorded, Wrote
<1>5. ASSUME NEW s \in h.subs PROVE ReaderOK(h, s, sub[s], run[s])'
  <2>1. PICK u : u = sub[s] /\ sub'[s] = u
    BY <1>1
  <2>2. PICK r : r = run[s] /\ run'[s] = r
    BY <1>1
  <2>3. ReaderOK(h, s, u, r)
    BY <2>1, <2>2 DEF HubInvariant, ReadersOK
  <2>4. /\ RunCovered(h, r.current) => RunCovered(h, r.current)'
        /\ AtRest(h, u) => AtRest(h, u)'
        /\ Awaited(u) => Awaited(u)'
        /\ FenceOK(u) => FenceOK(u)'
    BY <1>1, <1>4 DEF RunCovered, AtRest, ResultCovered, Awaited, FenceOK
  <2> QED BY <1>1, <2>1, <2>2, <2>3, <2>4 DEF ReaderOK
<1>6. ReadersOK(h)'
  BY <1>5 DEF ReadersOK
<1> QED BY <1>1, <1>2, <1>3, <1>6 DEF HubInvariant, NothingSent

\* A step of the hub keeps the invariant, and sends a result only where it ends a run.
FenceHolds(h) ==
  NothingSent(h) \/ \E s \in h.subs :
    /\ sub[s].fenced => sub'[s].result.actor = "anonymous"
    /\ ~sub'[s].replacing
    /\ \A u \in h.subs : u # s => sub'[u] = sub[u]

LEMMA WriterSteps ==
  ASSUME NEW h, HubConstants(h), HubInvariant(h),
         \/ \E w \in h.mutations : Hub(h)!MutationStep(w)
         \/ \E w \in h.jobs \cup h.resourceJobs : Hub(h)!JobStep(w)
         \/ \E w \in h.resourceJobs : Hub(h)!ResourceStep(w)
  PROVE  HubInvariant(h)' /\ NothingSent(h)
<1>1. ASSUME WriterMoves(h) PROVE HubInvariant(h)' /\ NothingSent(h)
  BY <1>1, WriterKeepsInvariant DEF NothingSent, WriterMoves
<1>2. ASSUME NEW w \in h.mutations, Hub(h)!MutationStep(w) PROVE HubInvariant(h)' /\ NothingSent(h)
  <2>1. CASE Hub(h)!RefreshTimer(w)
    BY <2>1, RefreshTimerKeeps DEF NothingSent, Hub!RefreshTimer
  <2> QED BY <1>1, <1>2, <2>1, BeginMutationMoves, WriteInMutationMoves, CommitMutationMoves,
             RollBackMutationMoves, AnswerMutationMoves DEF Hub!MutationStep
<1>3. ASSUME NEW w \in h.jobs \cup h.resourceJobs, Hub(h)!JobStep(w)
      PROVE  HubInvariant(h)' /\ NothingSent(h)
  <2>1. CASE Hub(h)!EndJob(w)
    BY <2>1, EndJobKeeps DEF NothingSent, Hub!EndJob
  <2> QED BY <1>1, <1>3, <2>1, WriteInJobMoves DEF Hub!JobStep
<1>4. ASSUME NEW w \in h.resourceJobs, Hub(h)!ResourceStep(w) PROVE HubInvariant(h)' /\ NothingSent(h)
  BY <1>1, <1>4, WriteInResourceMoves, CommitResourceMoves, PublishResourceMoves,
     ResourceCommittedMoves DEF Hub!ResourceStep
<1> QED BY <1>2, <1>3, <1>4

LEMMA ReaderSteps ==
  ASSUME NEW h, HubConstants(h), HubInvariant(h), NEW s \in h.subs, Hub(h)!ReaderStep(s)
  PROVE  HubInvariant(h)' /\ FenceHolds(h)
<1>1. CASE \E k \in Ways : \E t \in h.tables : Hub(h)!ReadTable(s, k, t)
  BY <1>1, ReadTableKeeps DEF NothingSent, FenceHolds, Hub!ReadTable
<1>2. CASE \E k \in Ways : Hub(h)!ListFromCache(s, k)
  BY <1>2, ListFromCacheKeeps DEF NothingSent, FenceHolds, Hub!ListFromCache
<1>3. CASE \E k \in Ways : Hub(h)!SelectRows(s, k)
  BY <1>3, SelectRowsKeeps DEF NothingSent, FenceHolds, Hub!SelectRows
<1>4. CASE \E k \in Ways : Hub(h)!CacheRows(s, k)
  BY <1>4, CacheRowsKeeps DEF NothingSent, FenceHolds, Hub!CacheRows
<1>5. CASE \E k \in Ways : Hub(h)!FailQuery(s, k)
  BY <1>5, FailQueryKeeps DEF NothingSent, FenceHolds, Hub!FailQuery
<1>6. CASE Hub(h)!EndRun(s)
  BY <1>6, EndRunKeeps DEF FenceHolds
<1>7. CASE Hub(h)!EndCancelled(s)
  <2>1. run[s] \in RunPairs(h) /\ ReaderOK(h, s, sub[s], run[s])
    BY DEF HubInvariant, HubTyped, ReadersOK
  <2>2. sub' = sub
    BY <1>7, <2>1 DEF Hub!EndCancelled, ReaderOK
  <2> QED BY <1>7, <2>2, EndCancelledKeeps DEF NothingSent, FenceHolds
<1> QED BY <1>1, <1>2, <1>3, <1>4, <1>5, <1>6, <1>7 DEF Hub!ReaderStep, Ways

LEMMA InvariantStep ==
  ASSUME NEW h, HubConstants(h), HubInvariant(h), Hub(h)!Next
  PROVE  HubInvariant(h)' /\ FenceHolds(h)
<1>1. ASSUME NEW s \in h.subs, Hub(h)!ClientStep(s) PROVE HubInvariant(h)' /\ NothingSent(h)
  BY <1>1, SubscribeKeeps, LeavingKeeps, SessionKeeps DEF Hub!ClientStep
<1>2. ASSUME Hub(h)!RetirementStep PROVE HubInvariant(h)' /\ NothingSent(h)
  <2>1. CASE Hub(h)!RetirementTimer
    BY <2>1, RetirementTimerKeeps DEF NothingSent, Hub!RetirementTimer
  <2> QED BY <1>2, <2>1, ReplacingKeeps DEF Hub!RetirementStep
<1>3. CASE \E s \in h.subs : Hub(h)!ReaderStep(s)
  BY <1>3, ReaderSteps
<1>4. CASE ~\E s \in h.subs : Hub(h)!ReaderStep(s)
  BY <1>1, <1>2, <1>4, WriterSteps, TerminateKeeps, RetireKeeps DEF Hub!Next, FenceHolds
<1> QED BY <1>3, <1>4

LEMMA NothingPasses ==
  ASSUME NEW h, FenceHolds(h)
  PROVE  Hub(h)!NothingPassesTheFence
BY DEF Hub!NothingPassesTheFence, FenceHolds, NothingSent

-----------------------------------------------------------------------------
(* The theorems                                                            *)

HubsInvariant ==
  /\ part = "tables" => HubInvariant(Tables2)
  /\ part = "job cache" => HubInvariant(JobCache)
  /\ part = "actor cache" => HubInvariant(ActorCache)
  /\ part = "ending" => HubInvariant(Ending)

LEMMA HubsAreConstant ==
  /\ HubConstants(Tables2) /\ HubConstants(Ending)
  /\ HubConstants(JobCache) /\ Exclusive(JobCache)
  /\ HubConstants(ActorCache) /\ Exclusive(ActorCache)
<1>1. /\ Hub(Tables2)!LiveQueriesAssumption /\ Hub(Ending)!LiveQueriesAssumption
      /\ Hub(JobCache)!LiveQueriesAssumption /\ Hub(ActorCache)!LiveQueriesAssumption
  BY HubAssumption
<1>2. /\ Uncached(Tables2) /\ Uncached(Ending)
      /\ Exclusive(JobCache) /\ Exclusive(ActorCache)
      /\ Tables2.oneWire \/ Tables2.owned = {}
      /\ Ending.oneWire \/ Ending.owned = {}
  BY HubAssumption DEF Exclusive
<1> QED BY <1>1, <1>2 DEF HubConstants, Exclusive

LEMMA HubsInvariantInitially ==
  ASSUME MCInit
  PROVE  HubsInvariant
BY HubsAreConstant, InvariantInitially DEF MCInit, HubInit, HubsInvariant

LEMMA HubsInvariantStep ==
  ASSUME HubsInvariant, [MCNext]_allVars
  PROVE  /\ HubsInvariant' /\ part' = part
         /\ part = "ending" => FenceHolds(Ending)
         /\ part = "actor cache" => FenceHolds(ActorCache)
<1>1. ASSUME UNCHANGED <<part, hub>>
      PROVE  /\ HubsInvariant' /\ part' = part
             /\ part = "ending" => FenceHolds(Ending)
             /\ part = "actor cache" => FenceHolds(ActorCache)
  BY <1>1, InvariantStutters DEF HubsInvariant, FenceHolds
<1>2. CASE UNCHANGED allVars
  BY <1>1, <1>2 DEF allVars
<1>3. CASE part = "queue" /\ Next /\ Stays /\ UNCHANGED <<part, hub>>
  BY <1>1, <1>3
<1>4. CASE HubNext
  BY <1>4, HubsAreConstant, InvariantStep DEF HubNext, HubsInvariant
<1> QED BY <1>2, <1>3, <1>4 DEF MCNext

LEMMA HubsAreSafe ==
  ASSUME HubsInvariant
  PROVE  QuietIsFresh
BY HubsAreConstant, HubConclusions DEF HubsInvariant, QuietIsFresh, ReadersAreFresh

\* A subscription at rest shows what the database holds, once no write is being made or waits
\* for its refresh, whatever the numbers of clients, tables and writers: no interleaving of
\* writes, refreshes, slow readers, cancelled runs, leaving clients and the termination of a
\* user loses a write (src/live-query-invalidation.ts, refreshQueries and runSubscription of
\* src/server-runtime-source.ts); the row cache is coherent where writers share its connection.
THEOREM ReadersAtRestAreFresh == MCSpec => []QuietIsFresh
<1>1. MCInit => HubsInvariant
  BY HubsInvariantInitially
<1>2. HubsInvariant /\ [MCNext]_allVars => HubsInvariant'
  BY HubsInvariantStep
<1>3. HubsInvariant => QuietIsFresh
  BY HubsAreSafe
<1> QED BY <1>1, <1>2, <1>3, PTL DEF MCSpec

\* Nothing that was evaluated for a terminated user is sent to a client that the fence of
\* retireRevokedHumanSessions has reached: the fence takes the generation of every run, the
\* first session is replaced behind it, and no message finds the user's Session any more.  Of
\* a client whose session a message changed before the fence it says nothing: the fence
\* passes it over, and what its queries had under way for the user is still sent.
THEOREM FencedClientsGetNothingOfTheUser == MCSpec => NothingOfTheFormerActor
<1>1. MCInit => HubsInvariant
  BY HubsInvariantInitially
<1>2. HubsInvariant /\ [MCNext]_allVars => HubsInvariant'
  BY HubsInvariantStep
<1>3. HubsInvariant /\ [MCNext]_allVars =>
        [/\ part = "ending" => Hub(Ending)!NothingPassesTheFence
         /\ part = "actor cache" => Hub(ActorCache)!NothingPassesTheFence]_allVars
  BY HubsInvariantStep, NothingPasses
<1> QED BY <1>1, <1>2, <1>3, PTL DEF MCSpec, NothingOfTheFormerActor
=============================================================================
