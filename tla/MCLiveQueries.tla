---------------------------- MODULE MCLiveQueries ----------------------------
(***************************************************************************)
(* What the workers and the requests of one server meet in, for TLC:       *)
(* JobQueue with retries that wait, and LiveQueries in five instances: two *)
(* tables; the row cache with a Job, and with a terminated user; the       *)
(* termination of a user with two clients, of which one may leave; and     *)
(* fair queries that may fail.  They have no state in common, so a         *)
(* behaviour moves one of them, which `part` names; the properties of      *)
(* JobQueue are checked as they stand there.                               *)
(***************************************************************************)
EXTENDS JobQueueRefinement

CONSTANTS s1, s2, t1, t2, m1, j1, r1, r2,
          Tables2, JobCache, ActorCache, Ending, FairHub, \* the constants of LiveQueries, in five cases
          LogTable, NoTable, NoRun, NoResult, NoRows, Unread, AllTables, NoWriter

VARIABLES part, version, cache, gate, dirty, generation, dispatched, writer, sub, run, retirement

hub == <<version, cache, gate, dirty, generation, dispatched, writer, sub, run, retirement>>
allVars == <<part, vars, hub>>

OneTick == [j \in Jobs |-> 1]
TwoAttempts == [j \in Jobs |-> 2]

\* Runtimes are interchangeable: r1 is the one that stops, crashes and starts again, beside
\* r2, which stays once it is there.
Stays == phase[r2] # "down" => phase'[r2] \in {"opened", "active"}

-----------------------------------------------------------------------------
(* Two clients on one connection to SQLite or PostgreSQL, with queries       *)
(* written in the Capsule, or with both listing a table through the cache.   *)
Clients == {s1, s2}
Custom == [s \in Clients |-> NoTable]
Cached == [s \in Clients |-> t1]
QuietHub ==
  [tables |-> {t1}, subs |-> Clients, cachedTable |-> Custom, owned |-> {}, mutations |-> {},
   jobs |-> {}, resourceJobs |-> {}, oneWire |-> TRUE, subscribes |-> 1, leaving |-> {}, failing |-> {}]

TwoTables == [QuietHub EXCEPT !.tables = {t1, t2}, !.mutations = {m1}, !.resourceJobs = {r1}]
CacheAndJob == [QuietHub EXCEPT !.cachedTable = Cached, !.mutations = {m1}, !.jobs = {j1}]
CacheAndActors ==
  [QuietHub EXCEPT !.cachedTable = Cached, !.owned = {s1}, !.mutations = {m1}, !.leaving = {s1}]
UserEnds == [QuietHub EXCEPT !.owned = Clients, !.subscribes = 2, !.leaving = {s1}]
FairQueries == [QuietHub EXCEPT !.mutations = {m1}, !.resourceJobs = {r1}, !.failing = {s2}]

Hub(h) == INSTANCE LiveQueries WITH
  Tables <- h.tables, Subs <- h.subs, CachedTable <- h.cachedTable, Owned <- h.owned,
  Mutations <- h.mutations, Jobs <- h.jobs, ResourceJobs <- h.resourceJobs, OneWire <- h.oneWire,
  MaxSubscribes <- h.subscribes, Leaving <- h.leaving, Failing <- h.failing

Uncached(h) == \A s \in h.subs : h.cachedTable[s] = NoTable

ASSUME HubAssumption ==
  /\ \A h \in {Tables2, JobCache, ActorCache, Ending, FairHub} : Hub(h)!LiveQueriesAssumption
  /\ Uncached(Tables2) /\ Uncached(Ending)
  /\ \A h \in {JobCache, ActorCache} : h.oneWire /\ h.resourceJobs = {}
  /\ \A h \in {Tables2, Ending} : h.oneWire \/ h.owned = {}

HubInit ==
  \/ part = "queue" /\ Hub(Tables2)!Init
  \/ part = "tables" /\ Hub(Tables2)!Init
  \/ part = "job cache" /\ Hub(JobCache)!Init
  \/ part = "actor cache" /\ Hub(ActorCache)!Init
  \/ part = "ending" /\ Hub(Ending)!Init
  \/ part = "fair" /\ Hub(FairHub)!Init

MCInit == Init /\ HubInit

HubNext ==
  /\ UNCHANGED <<part, vars>>
  /\ \/ part = "tables" /\ Hub(Tables2)!Next
     \/ part = "job cache" /\ Hub(JobCache)!Next
     \/ part = "actor cache" /\ Hub(ActorCache)!Next
     \/ part = "ending" /\ Hub(Ending)!Next
     \/ part = "fair" /\ Hub(FairHub)!Next

MCNext == HubNext \/ (part = "queue" /\ Next /\ Stays /\ UNCHANGED <<part, hub>>)

(* Handlers, transactions, timers and queries come to an end; nobody has to  *)
(* subscribe, write or be terminated.                                        *)
HubIsFair ==
  /\ WF_hub(part = "fair" /\ gate = m1 /\ Hub(FairHub)!MutationStep(m1))
  /\ WF_hub(part = "fair" /\ (Hub(FairHub)!AnswerMutation(m1) \/ Hub(FairHub)!RefreshTimer(m1)))
  /\ WF_hub(part = "fair" /\ Hub(FairHub)!EndJob(r1))
  /\ WF_hub(/\ part = "fair"
            /\ \/ Hub(FairHub)!CommitResource(r1) \/ Hub(FairHub)!PublishResource(r1)
               \/ Hub(FairHub)!ResourceCommitted(r1))
  /\ \A s \in FairHub.subs : WF_hub(part = "fair" /\ Hub(FairHub)!ReaderStep(s))
  /\ WF_hub(part = "fair" /\ Hub(FairHub)!RetirementStep)

MCSpec == MCInit /\ [][MCNext]_allVars /\ HubIsFair

-----------------------------------------------------------------------------
(* The properties, each in the instances it speaks about.                    *)

ReadersAreFresh(h) == Hub(h)!TypeOK /\ Hub(h)!QuietIsFresh

\* A subscription at rest shows what the database holds, once no write is being made or
\* waits for its refresh, through the row cache and across a termination too; and once
\* writes are settled, the row cache holds what the database holds.
QuietIsFresh ==
  /\ part = "tables" => ReadersAreFresh(Tables2)
  /\ part = "job cache" => ReadersAreFresh(JobCache) /\ Hub(JobCache)!CacheCoherent
  /\ part = "actor cache" => ReadersAreFresh(ActorCache) /\ Hub(ActorCache)!CacheCoherent
  /\ part = "ending" => ReadersAreFresh(Ending)

\* A client that the fence of a termination reached is never again sent what was evaluated
\* for the terminated user, whatever was under way and whatever the client sends.
NothingOfTheFormerActor ==
  [][/\ part = "ending" => Hub(Ending)!NothingPassesTheFence
     /\ part = "actor cache" => Hub(ActorCache)!NothingPassesTheFence]_allVars

\* A subscription that stays shows fresh data in the end, and a failing query's diagnostics
\* do not refresh it for ever.
EventuallyFresh == part = "fair" => Hub(FairHub)!EventuallyFresh /\ Hub(FairHub)!RefreshesEnd
=============================================================================
