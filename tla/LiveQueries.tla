---------------------------- MODULE LiveQueries ----------------------------
(***************************************************************************)
(* Live query subscriptions of the websocket hub and the refresh window    *)
(* that decides which of them run again: src/live-query-invalidation.ts    *)
(* keeps the window, src/server-runtime-source.ts the subscriptions.       *)
(*                                                                         *)
(* A write is a new version of a table.  A query reads some tables, one    *)
(* statement at a time, and its result is the versions it saw; a built-in  *)
(* table query reads one table through the row cache.                      *)
(***************************************************************************)
EXTENDS Naturals, FiniteSets

CONSTANTS
  Tables,         \* app tables
  LogTable,       \* the log index, which a failing query may write
  Subs,           \* clients, each with one subscription identifier
  CachedTable,    \* CachedTable[s]: the table s lists through the row cache, or NoTable
  Owned,          \* the clients that hold a Session of the user who may be terminated
  Mutations,      \* mutations: one transaction on the shared connection
  Jobs,           \* Jobs that write with statements of their own
  ResourceJobs,   \* Jobs that write in a resource transaction on a connection of its own
  OneWire,        \* TRUE: the shared connection answers statements in issue order
  MaxSubscribes,  \* bound: query.subscribe messages of one client
  Leaving,        \* bound: the clients that may unsubscribe or disconnect
  Failing,        \* bound: the clients whose query may fail
  NoTable, NoRun, NoResult, NoRows, Unread, AllTables, NoWriter

Writers == Mutations \cup Jobs \cup ResourceJobs
Actors == {"user", "anonymous"}
Versions == 0..Cardinality(Writers)

\* One more than the writes that can happen, so the generation never wraps
\* unless something other than a writer advances it.
GenerationBound == 2 * Cardinality(Writers) + 2

Reading == [Tables -> Versions \cup {Unread}]
Result == [seen : Reading, actor : Actors]
RunType ==
  [pc : {"querying", "selected", "listed", "failed"}, seen : Reading, actor : Actors,
   start : 0..GenerationBound, initial : BOOLEAN, pending : BOOLEAN,
   dirty : SUBSET (Tables \cup {LogTable}), valid : BOOLEAN, cancelled : BOOLEAN]

LiveQueriesAssumption ==
  /\ IsFiniteSet(Tables) /\ IsFiniteSet(Subs) /\ IsFiniteSet(Writers)
  /\ LogTable \notin Tables /\ NoTable \notin Tables /\ NoWriter \notin Writers
  /\ NoRun \notin RunType /\ NoResult \notin Result /\ Unread \notin Nat /\ NoRows \notin Nat
  /\ CachedTable \in [Subs -> Tables \cup {NoTable}]
  /\ Owned \subseteq Subs /\ Leaving \subseteq Subs /\ Failing \subseteq Subs
  /\ OneWire \in BOOLEAN
  /\ MaxSubscribes \in Nat

VARIABLES
  version,     \* committed version of each table
  cache,       \* the row cache: table and actor -> version of the rows, or NoRows
  gate,        \* the mutation whose transaction holds the shared connection
  dirty,       \* dirtyTables: tables written since the window was last taken
  generation,  \* writeGeneration
  dispatched,  \* dispatchedWriteGeneration of the hub
  writer,      \* writer[w]: its phase and the table it wrote
  sub,         \* sub[s]: the client, its session's actor and its subscription; found: a message
               \* has read the user's Session row; fenced (history): Retire reached the client
  run,         \* run[s]: the run in progress, and a cancelled one still in flight
  retirement   \* retireRevokedHumanSessions: its phase and the clients left to replace

vars == <<version, cache, gate, dirty, generation, dispatched, writer, sub, run, retirement>>
window == <<dirty, generation, dispatched>>

Advanced(g) == (g + 1) % GenerationBound

ReadTables(seen) == {t \in Tables : seen[t] # Unread}

-----------------------------------------------------------------------------
(* The refresh window. *)

NeedsRefresh(reads, changed) == reads = AllTables \/ reads \cap changed # {}

Live(s) == sub[s].state = "subscribed" /\ ~sub[s].replacing

NewRun(actor, initial) ==
  [pc |-> "querying", seen |-> [t \in Tables |-> Unread], actor |-> actor,
   start |-> generation, initial |-> initial, pending |-> FALSE, dirty |-> {},
   valid |-> TRUE, cancelled |-> FALSE]

\* A later run of the same subscription takes the generation from an older one.
Superseded(r) == IF r = NoRun THEN r ELSE [r EXCEPT !.valid = FALSE]

MarkPending(r, changed) == [r EXCEPT !.pending = TRUE, !.dirty = @ \cup changed]

Refreshed(runs, reads, changed) ==
  [s \in Subs |->
     CASE ~Live(s) -> runs[s]
       [] Live(s) /\ runs[s].current # NoRun ->
            [runs[s] EXCEPT !.current = MarkPending(runs[s].current, changed)]
       [] Live(s) /\ runs[s].current = NoRun ->
            IF NeedsRefresh(reads[s], changed)
            THEN [current |-> NewRun(sub[s].actor, FALSE), old |-> Superseded(runs[s].old)]
            ELSE runs[s]]

ReadsNow == [s \in Subs |-> sub[s].reads]

\* Mutant: a reader in flight is passed over.
RefreshIdleOnly ==
  /\ dispatched' = generation
  /\ dirty' = {}
  /\ run' = [s \in Subs |-> IF run[s].current # NoRun THEN run[s]
                            ELSE Refreshed(run, ReadsNow, dirty)[s]]
  /\ UNCHANGED generation

RefreshQueries ==
  /\ dispatched' = generation
  /\ dirty' = {}
  /\ run' = Refreshed(run, ReadsNow, dirty)
  /\ UNCHANGED generation

RecordWrite(tables) ==
  /\ dirty' = dirty \cup tables
  /\ generation' = Advanced(generation)
  /\ UNCHANGED dispatched

-----------------------------------------------------------------------------
(* Writers. *)

Enters(w, from, to) == writer[w].phase = from /\ writer' = [writer EXCEPT ![w].phase = to]

ClearCache == cache' = [t \in Tables |-> [a \in Actors |-> NoRows]]

\* A SELECT is in flight on the shared connection.
Selecting == \E s \in Subs : \E k \in {"current", "old"} :
               run[s][k] # NoRun /\ run[s][k].pc = "selected"
WireFree == OneWire => ~Selecting

BeginMutation(w) ==
  /\ gate = NoWriter /\ WireFree
  /\ gate' = w
  /\ Enters(w, "idle", "open")
  /\ UNCHANGED <<version, cache, dirty, generation, dispatched, sub, run, retirement>>

\* Inside its transaction the mutation writes a table: recorded at once, cache cleared.
WriteInMutation(w, t) ==
  /\ writer[w].phase = "open"
  /\ writer' = [writer EXCEPT ![w] = [phase |-> "wrote", table |-> t]]
  /\ RecordWrite({t})
  /\ ClearCache
  /\ UNCHANGED <<version, gate, sub, run, retirement>>

CommitMutation(w) ==
  /\ gate = w
  /\ gate' = NoWriter
  /\ Enters(w, "wrote", "committed")
  /\ version' = [version EXCEPT ![writer[w].table] = @ + 1]
  /\ UNCHANGED <<cache, dirty, generation, dispatched, sub, run, retirement>>

RollBackMutation(w) ==
  /\ gate = w
  /\ gate' = NoWriter
  /\ Enters(w, "wrote", "done")
  /\ ClearCache
  /\ UNCHANGED <<version, dirty, generation, dispatched, sub, run, retirement>>

\* The result is sent and the refresh scheduled with setTimeout(refreshQueries, 0).
AnswerMutation(w) ==
  /\ Enters(w, "committed", "timer")
  /\ ClearCache
  /\ UNCHANGED <<version, gate, dirty, generation, dispatched, sub, run, retirement>>

RefreshTimer(w) ==
  /\ w \in Mutations
  /\ Enters(w, "timer", "done")
  /\ RefreshQueries
  /\ UNCHANGED <<version, cache, gate, sub, retirement>>

\* A Job's statement commits on its own; it waits for an open transaction.
WriteInJob(w, t) ==
  /\ writer[w].phase = "idle"
  /\ gate = NoWriter /\ WireFree
  /\ writer' = [writer EXCEPT ![w] = [phase |-> "written", table |-> t]]
  /\ version' = [version EXCEPT ![t] = @ + 1]
  /\ RecordWrite({t})
  /\ ClearCache
  /\ UNCHANGED <<gate, sub, run, retirement>>

\* A resource transaction keeps the tables it writes to itself until it settles.
WriteInResource(w, t) ==
  /\ writer[w].phase = "idle"
  /\ writer' = [writer EXCEPT ![w] = [phase |-> "resource", table |-> t]]
  /\ ClearCache
  /\ UNCHANGED <<version, gate, dirty, generation, dispatched, sub, run, retirement>>

CommitResource(w) ==
  /\ Enters(w, "resource", "settled")
  /\ version' = [version EXCEPT ![writer[w].table] = @ + 1]
  /\ UNCHANGED <<cache, gate, dirty, generation, dispatched, sub, run, retirement>>

PublishResource(w) ==
  /\ Enters(w, "settled", "published")
  /\ RecordWrite({writer[w].table})
  /\ UNCHANGED <<version, cache, gate, sub, run, retirement>>

ResourceCommitted(w) ==
  /\ Enters(w, "published", "written")
  /\ ClearCache
  /\ UNCHANGED <<version, gate, dirty, generation, dispatched, sub, run, retirement>>

\* The worker's finally: __notifyJobStateQueries runs the refresh in place.
EndJob(w) ==
  /\ Enters(w, "written", "done")
  /\ RefreshQueries
  /\ UNCHANGED <<version, cache, gate, sub, retirement>>

-----------------------------------------------------------------------------
(* Subscriptions. *)

\* Mutant: the run is told to stop, but keeps the subscription's generation.
CancelledOnly(r) == IF r = NoRun THEN r
                    ELSE [r EXCEPT !.cancelled = TRUE, !.dirty = {}, !.pending = FALSE]

Cancelled(r) == IF r = NoRun THEN r
                ELSE [r EXCEPT !.cancelled = TRUE, !.valid = FALSE, !.dirty = {}, !.pending = FALSE]

\* Bound: one cancelled run of a client is in flight at a time.
MayCancel(s) == run[s].current = NoRun \/ run[s].old = NoRun
CancelRefresh(s) == IF run[s].current = NoRun THEN run[s]
                    ELSE [current |-> NoRun, old |-> Cancelled(run[s].current)]

\* Every message first looks up the Session of the token it carries.  This is the statement
\* that finds the user's row; client.session is assigned when its answer arrives.
FindSession(s) ==
  /\ s \in Owned /\ sub[s].state # "closed" /\ ~sub[s].found
  /\ retirement.phase = "none" /\ gate = NoWriter
  /\ sub' = [sub EXCEPT ![s].found = TRUE]
  /\ UNCHANGED <<version, cache, gate, dirty, generation, dispatched, writer, run, retirement>>

\* The actor a message gives its client: a message that found no row of the user (another
\* token, or a row that is gone) brings another session, or a fresh anonymous one.
Resolved(s) == IF sub[s].found THEN "user" ELSE "anonymous"

\* Any other message of the client, which changes its session and no subscription.
ResolveSession(s) ==
  /\ sub[s].state # "closed" \/ sub[s].found
  /\ sub' = [sub EXCEPT ![s].actor = Resolved(s), ![s].found = FALSE]
  /\ UNCHANGED <<version, cache, gate, dirty, generation, dispatched, writer, run, retirement>>

\* A subscribe message: a new subscription object, which replaces an older one.
\* On a client whose session is being replaced the first run ends at once.
Subscribe(s) ==
  /\ sub[s].state # "closed" /\ sub[s].left > 0
  /\ MayCancel(s)
  /\ sub' = [sub EXCEPT ![s].actor = Resolved(s), ![s].found = FALSE,
                        ![s].state = "subscribed", ![s].left = @ - 1,
                        ![s].reads = AllTables, ![s].result = NoResult]
  /\ run' = [run EXCEPT ![s] =
                IF sub[s].replacing THEN CancelRefresh(s)
                ELSE [CancelRefresh(s) EXCEPT !.current = NewRun(Resolved(s), TRUE)]]
  /\ UNCHANGED <<version, cache, gate, dirty, generation, dispatched, writer, retirement>>

Unsubscribe(s) ==
  /\ sub[s].state = "subscribed" /\ MayCancel(s)
  /\ sub' = [sub EXCEPT ![s].actor = Resolved(s), ![s].found = FALSE,
                        ![s].state = "unsubscribed"]
  /\ run' = [run EXCEPT ![s] = CancelRefresh(s)]
  /\ UNCHANGED <<version, cache, gate, dirty, generation, dispatched, writer, retirement>>

Disconnect(s) ==
  /\ sub[s].state # "closed" /\ MayCancel(s)
  /\ sub' = [sub EXCEPT ![s].state = "closed"]
  /\ run' = [run EXCEPT ![s] = CancelRefresh(s)]
  /\ UNCHANGED <<version, cache, gate, dirty, generation, dispatched, writer, retirement>>

\* A statement of a custom query; it waits for an open transaction to end.
ReadTable(s, k, t) ==
  /\ CachedTable[s] = NoTable
  /\ run[s][k] # NoRun /\ run[s][k].pc = "querying"
  /\ gate = NoWriter
  /\ run[s][k].seen[t] = Unread
  /\ run' = [run EXCEPT ![s][k].seen[t] = version[t]]
  /\ UNCHANGED <<version, cache, gate, dirty, generation, dispatched, writer, sub, retirement>>

\* The built-in table query: a cache hit answers without a statement.
ListFromCache(s, k) ==
  /\ run[s][k] # NoRun /\ run[s][k].pc = "querying"
  /\ LET t == CachedTable[s]
         rows == cache[t][run[s][k].actor]
     IN /\ t # NoTable /\ rows # NoRows
        /\ run' = [run EXCEPT ![s][k].seen[t] = rows, ![s][k].pc = "listed"]
  /\ UNCHANGED <<version, cache, gate, dirty, generation, dispatched, writer, sub, retirement>>

\* Mutant: the SELECT does not wait for the transaction on its connection.
SelectRowsUngated(s, k) ==
  /\ run[s][k] # NoRun /\ run[s][k].pc = "querying"
  /\ LET t == CachedTable[s]
     IN /\ t # NoTable /\ cache[t][run[s][k].actor] = NoRows
        /\ run' = [run EXCEPT ![s][k].seen[t] = version[t], ![s][k].pc = "selected"]
  /\ UNCHANGED <<version, cache, gate, dirty, generation, dispatched, writer, sub, retirement>>

\* A miss issues the SELECT; its rows are cached when the answer arrives.
SelectRows(s, k) ==
  /\ run[s][k] # NoRun /\ run[s][k].pc = "querying"
  /\ gate = NoWriter
  /\ LET t == CachedTable[s]
     IN /\ t # NoTable /\ cache[t][run[s][k].actor] = NoRows
        /\ run' = [run EXCEPT ![s][k].seen[t] = version[t], ![s][k].pc = "selected"]
  /\ UNCHANGED <<version, cache, gate, dirty, generation, dispatched, writer, sub, retirement>>

CacheRows(s, k) ==
  /\ run[s][k] # NoRun /\ run[s][k].pc = "selected"
  /\ LET t == CachedTable[s]
     IN cache' = [cache EXCEPT ![t][run[s][k].actor] = run[s][k].seen[t]]
  /\ run' = [run EXCEPT ![s][k].pc = "listed"]
  /\ UNCHANGED <<version, gate, dirty, generation, dispatched, writer, sub, retirement>>

\* A failing query may log a diagnostic, which is in the window but of no generation.
RecordDiagnostic ==
  /\ dirty' \in {dirty, dirty \cup {LogTable}}
  /\ UNCHANGED <<generation, dispatched>>

FailQuery(s, k) ==
  /\ run[s][k] # NoRun /\ run[s][k].pc = "querying"
  /\ run' = [run EXCEPT ![s][k].pc = "failed"]
  /\ RecordDiagnostic
  /\ UNCHANGED <<version, cache, gate, writer, sub, retirement>>

QueryDone(r) == r.pc \in {"listed", "failed"} \/ (r.pc = "querying" /\ ReadTables(r.seen) # {})

\* A failed run may not have read what a successful one would: it reruns on every refresh.
ReadSet(r) == IF r.pc = "failed" THEN AllTables ELSE ReadTables(r.seen)

ResultOf(r) == [seen |-> r.seen, actor |-> r.actor]

\* A cancelled run ends; its result is dropped unless it still holds the generation.
EndCancelled(s) ==
  LET r == run[s].old
  IN /\ r # NoRun /\ QueryDone(r)
     /\ sub' = IF r.valid /\ sub[s].state = "subscribed"
               THEN [sub EXCEPT ![s].reads = ReadSet(r), ![s].result = ResultOf(r)]
               ELSE sub
     /\ run' = [run EXCEPT ![s].old = NoRun]
     /\ UNCHANGED <<version, cache, gate, dirty, generation, dispatched, writer, retirement>>

\* A run ends: the result is sent, writes that landed meanwhile are dispatched,
\* and the subscription runs again when its pending window meets what it read.
Dispatches(r) == ~r.initial /\ generation # r.start /\ generation # dispatched

Continues(r, reads) == r.pending /\ NeedsRefresh(reads, r.dirty)

EndRun(s) ==
  LET r == run[s].current
      reads == ReadSet(r)
      after == IF Dispatches(r) THEN Refreshed(run, [ReadsNow EXCEPT ![s] = reads], dirty) ELSE run
  IN /\ r # NoRun /\ QueryDone(r)
     /\ sub' = [sub EXCEPT ![s].reads = reads, ![s].result = ResultOf(r)]
     /\ run' = [after EXCEPT ![s].current =
                  IF Continues(after[s].current, reads) THEN NewRun(sub[s].actor, FALSE) ELSE NoRun]
     /\ IF Dispatches(r) THEN dispatched' = generation /\ dirty' = {} /\ UNCHANGED generation
                         ELSE UNCHANGED window
     /\ UNCHANGED <<version, cache, gate, writer, retirement>>

-----------------------------------------------------------------------------
(* Retirement of a terminated user's connections. *)

\* The transaction that deletes the user's Sessions commits: a termination or a change of the
\* password, or a reset, which no Retire follows.
Terminate ==
  /\ retirement.phase = "none" /\ Owned # {}
  /\ gate = NoWriter /\ WireFree
  /\ OneWire => \A s \in Subs : ~sub[s].found
  /\ retirement' = [retirement EXCEPT !.phase = "committed"]
  /\ UNCHANGED <<version, cache, gate, dirty, generation, dispatched, writer, sub, run>>

\* The connections that still are the user's when the fence is set; one whose session a
\* message has changed in the meantime is passed over.
Affected == {s \in Owned : sub[s].state # "closed" /\ sub[s].actor = "user"}

\* Every affected reader is fenced before the first session is replaced.
Retire ==
  /\ retirement.phase = "committed"
  /\ Affected # {} /\ \A s \in Affected : MayCancel(s)
  /\ retirement' = [phase |-> "replacing", left |-> Affected]
  /\ sub' = [s \in Subs |-> IF s \in Affected
                            THEN [sub[s] EXCEPT !.replacing = TRUE, !.reads = AllTables, !.fenced = TRUE]
                            ELSE sub[s]]
  /\ run' = [s \in Subs |-> IF s \in Affected THEN CancelRefresh(s) ELSE run[s]]
  /\ UNCHANGED <<version, cache, gate, dirty, generation, dispatched, writer>>

\* One client receives a fresh anonymous session, or its socket is destroyed.
ReplaceSession(s) ==
  /\ retirement.phase = "replacing" /\ s \in retirement.left
  /\ LET left == retirement.left \ {s}
     IN retirement' = [phase |-> IF left = {} THEN "timer" ELSE "replacing", left |-> left]
  /\ sub' = [sub EXCEPT ![s].actor = "anonymous", ![s].replacing = FALSE]
  /\ UNCHANGED <<version, cache, gate, dirty, generation, dispatched, writer, run>>

ReplacementFails(s) ==
  /\ retirement.phase = "replacing" /\ s \in retirement.left
  /\ MayCancel(s)
  /\ LET left == retirement.left \ {s}
     IN retirement' = [phase |-> IF left = {} THEN "timer" ELSE "replacing", left |-> left]
  /\ sub' = [sub EXCEPT ![s].actor = "anonymous", ![s].replacing = FALSE, ![s].state = "closed"]
  /\ run' = [run EXCEPT ![s] = CancelRefresh(s)]
  /\ UNCHANGED <<version, cache, gate, dirty, generation, dispatched, writer>>

RetirementTimer ==
  /\ retirement.phase = "timer"
  /\ retirement' = [retirement EXCEPT !.phase = "done"]
  /\ RefreshQueries
  /\ UNCHANGED <<version, cache, gate, writer, sub>>

-----------------------------------------------------------------------------
Init ==
  /\ version = [t \in Tables |-> 0]
  /\ cache = [t \in Tables |-> [a \in Actors |-> NoRows]]
  /\ gate = NoWriter
  /\ dirty = {} /\ generation = 0 /\ dispatched = 0
  /\ writer = [w \in Writers |-> [phase |-> "idle", table |-> NoTable]]
  /\ sub = [s \in Subs |-> [state |-> "unsubscribed", left |-> MaxSubscribes, reads |-> AllTables,
                            actor |-> IF s \in Owned THEN "user" ELSE "anonymous",
                            replacing |-> FALSE, result |-> NoResult,
                            found |-> FALSE, fenced |-> FALSE]]
  /\ run = [s \in Subs |-> [current |-> NoRun, old |-> NoRun]]
  /\ retirement = [phase |-> "none", left |-> {}]

MutationStep(w) ==
  \/ BeginMutation(w) \/ \E t \in Tables : WriteInMutation(w, t)
  \/ CommitMutation(w) \/ RollBackMutation(w) \/ AnswerMutation(w) \/ RefreshTimer(w)

JobStep(w) == EndJob(w) \/ (w \in Jobs /\ \E t \in Tables : WriteInJob(w, t))

ResourceStep(w) ==
  \/ \E t \in Tables : WriteInResource(w, t)
  \/ CommitResource(w) \/ PublishResource(w) \/ ResourceCommitted(w)

ReaderStep(s) ==
  \/ \E k \in {"current", "old"} :
       \/ \E t \in Tables : ReadTable(s, k, t)
       \/ ListFromCache(s, k) \/ SelectRows(s, k) \/ CacheRows(s, k)
  \/ s \in Failing /\ \E k \in {"current", "old"} : FailQuery(s, k)
  \/ EndRun(s) \/ EndCancelled(s)

ClientStep(s) ==
  \/ FindSession(s) \/ ResolveSession(s) \/ Subscribe(s)
  \/ s \in Leaving /\ (Unsubscribe(s) \/ Disconnect(s))

RetirementStep ==
  \/ \E s \in Subs : ReplaceSession(s) \/ ReplacementFails(s)
  \/ RetirementTimer

Next ==
  \/ \E w \in Mutations : MutationStep(w)
  \/ \E w \in Jobs \cup ResourceJobs : JobStep(w)
  \/ \E w \in ResourceJobs : ResourceStep(w)
  \/ \E s \in Subs : ReaderStep(s) \/ ClientStep(s)
  \/ Terminate \/ Retire \/ RetirementStep

Spec == Init /\ [][Next]_vars

-----------------------------------------------------------------------------
(* Properties. *)

ReadsType == SUBSET Tables

\* Every variable has the shape the code gives it, and versions and
\* generations stay within the writes that were made.
TypeOK ==
  /\ version \in [Tables -> Versions]
  /\ cache \in [Tables -> [Actors -> Versions \cup {NoRows}]]
  /\ gate \in Mutations \cup {NoWriter}
  /\ dirty \subseteq Tables \cup {LogTable}
  /\ generation \in 0..Cardinality(Writers) /\ dispatched \in 0..generation
  /\ \A w \in Writers :
       /\ writer[w].phase \in {"idle", "open", "wrote", "committed", "timer", "done", "written",
                               "resource", "settled", "published"}
       /\ writer[w].table \in Tables \cup {NoTable}
  /\ \A s \in Subs :
       /\ sub[s].state \in {"unsubscribed", "subscribed", "closed"}
       /\ sub[s].left \in 0..MaxSubscribes /\ sub[s].actor \in Actors /\ sub[s].replacing \in BOOLEAN
       /\ sub[s].found \in BOOLEAN /\ sub[s].fenced \in BOOLEAN
       /\ sub[s].reads = AllTables \/ sub[s].reads \in ReadsType
       /\ sub[s].result = NoResult \/ sub[s].result \in Result
       /\ \A k \in {"current", "old"} : run[s][k] = NoRun \/ run[s][k] \in RunType

WritersQuiet == \A w \in Writers : writer[w].phase \in {"idle", "done"}

Fresh(s) ==
  /\ sub[s].result # NoResult
  /\ sub[s].fenced => sub[s].result.actor = "anonymous"
  /\ \A t \in ReadTables(sub[s].result.seen) : sub[s].result.seen[t] = version[t]

\* A subscription with no run in progress shows what the database holds, once
\* no write is being made or waiting for its refresh: no write is lost between
\* the window, a reader in flight and the refresh that was to dispatch it,
\* however long other readers take ("a held reader cannot block other
\* subscriptions", docs/PRD.md:560).
QuietIsFresh ==
  \A s \in Subs :
    (/\ Live(s) /\ run[s].current = NoRun
     /\ WritersQuiet /\ retirement.phase \in {"none", "committed", "done"}) => Fresh(s)

\* Once every write is settled, what the row cache holds is what the database
\* holds (docs/adr/0003: "cache coherence is guaranteed - no invalidation race
\* conditions").
CacheCoherent ==
  (WritersQuiet /\ \A s \in Subs : run[s].current = NoRun /\ run[s].old = NoRun) =>
    \A t \in Tables : \A a \in Actors : cache[t][a] \in {NoRows, version[t]}

\* A client that the fence of a termination reached is sent nothing that was evaluated for
\* the terminated user any more, and nothing at all while its session is being replaced: not
\* by a query that was under way, nor by one that a message of the client starts later.
\* The promise is the fence's: a connection whose session a message changed before the fence
\* is not fenced, and the queries that it had under way are still sent to it.
NothingPassesTheFence ==
  \A s \in Subs :
    (sub'[s].result # sub[s].result /\ sub'[s].result # NoResult) =>
      /\ sub[s].fenced => sub'[s].result.actor = "anonymous"
      /\ ~sub'[s].replacing

\* A subscription that stays shows fresh data in the end.
EventuallyFresh == <>[](\A s \in Subs : Live(s) => Fresh(s))

\* Queries come to rest: a failing query's diagnostics do not refresh it again.
RefreshesEnd == <>[](\A s \in Subs : run[s].current = NoRun)
=============================================================================
