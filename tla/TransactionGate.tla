--------------------------- MODULE TransactionGate --------------------------
(***************************************************************************)
(* The gate that a database adapter puts before its one connection         *)
(* (createConnectionTransactionGate in src/database-runtime.ts).           *)
(* Transactions form a chain of promises: each waits until the one before  *)
(* it has released its place.  Statements from outside run at once while   *)
(* no transaction is active; the others are kept and run, one after the    *)
(* other, when it ends, before its place is released.                      *)
(*                                                                         *)
(* Code that runs between two awaits is one action.  What the callback of  *)
(* a transaction does on its own connection is not looked at; what it asks *)
(* of the gate itself, and waits for, is.  close() is the one of libSQL,   *)
(* which seals the gate; the other two adapters never close theirs.        *)
(***************************************************************************)
EXTENDS Naturals, FiniteSets, Sequences, SequencesExt, Relation

CONSTANTS Transactions, Operations, Nobody

GateAssumption ==
  /\ Transactions \intersect Operations = {} /\ Nobody \notin Transactions \union Operations
  /\ IsFiniteSet(Transactions) /\ IsFiniteSet(Operations)

VARIABLES
  tx,         \* the calls of runTransaction
  previous,   \* per transaction: whose place it waits for
  tail,       \* transactionTail: the last one in the chain
  released,   \* the places that were released
  aborted,    \* the transactions whose signal is aborted
  active,     \* transactionActive
  waiters,    \* transactionWaiters
  pending,    \* the operations that are kept
  op,         \* the calls of runOperation
  asks,       \* per transaction: what its callback asked of the gate
  began,      \* the transactions whose BEGIN was sent
  closing     \* "open", "closing" (close was called), "closed" (and has returned)

vars == <<tx, previous, tail, released, aborted, active, waiters, pending, op, asks, began, closing>>

Calls == Transactions \union Operations
InLine == {t \in Transactions : tx[t] = "waiting"}
Settled(c) ==
  IF c \in Transactions THEN tx[c] \in {"ended", "cancelled", "rejected"}
  ELSE op[c] \in {"done", "rejected"}
New(c) == IF c \in Transactions THEN tx[c] = "new" ELSE op[c] = "new"

\* Everything before this place has been released.
MyTurn(t) == previous[t] \in released \union {Nobody}

Sets(t, state) == tx' = [tx EXCEPT ![t] = state]
Turns(o, state) == op' = [op EXCEPT ![o] = state]

-----------------------------------------------------------------------------
(* Transactions *)

\* A transaction takes its place in the chain; one whose signal is aborted gives it up at once.
Joins(t) ==
  /\ previous' = [previous EXCEPT ![t] = tail] /\ tail' = t
  /\ IF t \in aborted THEN Sets(t, "cancelled") /\ UNCHANGED waiters
     ELSE Sets(t, "waiting") /\ waiters' = waiters + 1

RunTransaction(t) ==
  /\ tx[t] = "new" /\ closing = "open" /\ Joins(t)
  /\ UNCHANGED <<released, aborted, active, pending, op, asks, began, closing>>

Abort(t) ==
  /\ tx[t] \in {"new", "waiting", "running"} /\ aborted' = aborted \union {t}
  /\ UNCHANGED <<tx, previous, tail, released, active, waiters, pending, op, asks, began, closing>>

\* The caller of a cancelled one is answered at once; its place stays in the chain.
Cancel(t) ==
  /\ tx[t] = "waiting" /\ t \in aborted
  /\ Sets(t, "cancelled") /\ waiters' = waiters - 1
  /\ UNCHANGED <<previous, tail, released, aborted, active, pending, op, asks, began, closing>>

\* Mutant: the place of a cancelled one does not wait for those before it.
ReleaseAtOnce(t) ==
  /\ tx[t] = "cancelled" /\ t \notin released
  /\ released' = released \union {t}
  /\ UNCHANGED <<tx, previous, tail, aborted, active, waiters, pending, op, asks, began, closing>>

ReleaseCancelled(t) ==
  /\ tx[t] = "cancelled" /\ t \notin released /\ MyTurn(t)
  /\ released' = released \union {t}
  /\ UNCHANGED <<tx, previous, tail, aborted, active, waiters, pending, op, asks, began, closing>>

\* BEGIN is sent unless the adapter was closed; then the transaction ends with an error.
Enter(t) ==
  /\ tx[t] = "waiting" /\ t \notin aborted /\ MyTurn(t)
  /\ Sets(t, "running") /\ active' = TRUE
  /\ began' = IF closing = "open" THEN began \union {t} ELSE began
  /\ UNCHANGED <<previous, tail, released, aborted, waiters, pending, op, asks, closing>>

\* The callback has settled, after everything it asked for: the kept operations are drained.
Finish(t) ==
  /\ tx[t] = "running" /\ \A c \in asks[t] : Settled(c)
  /\ Sets(t, "draining") /\ active' = FALSE /\ waiters' = waiters - 1
  /\ UNCHANGED <<previous, tail, released, aborted, pending, op, asks, began, closing>>

DrainNext(t) ==
  /\ tx[t] = "draining" /\ pending # <<>> /\ \A o \in Operations : op[o] # "drained"
  /\ Turns(Head(pending), IF closing = "open" THEN "drained" ELSE "rejected")
  /\ pending' = Tail(pending)
  /\ UNCHANGED <<tx, previous, tail, released, aborted, active, waiters, asks, began, closing>>

Release(t) ==
  /\ tx[t] = "draining" /\ pending = <<>> /\ \A o \in Operations : op[o] # "drained"
  /\ Sets(t, "ended") /\ released' = released \union {t}
  /\ UNCHANGED <<previous, tail, aborted, active, waiters, pending, op, asks, began, closing>>

-----------------------------------------------------------------------------
(* Operations from outside *)

RunOperation(o) ==
  /\ op[o] = "new" /\ closing = "open"
  /\ IF active THEN Turns(o, "pending") /\ pending' = Append(pending, o)
     ELSE Turns(o, "running") /\ UNCHANGED pending
  /\ UNCHANGED <<tx, previous, tail, released, aborted, active, waiters, asks, began, closing>>

\* The statement is answered, with a result or an error.
Answer(o) ==
  /\ op[o] \in {"running", "drained"} /\ Turns(o, "done")
  /\ UNCHANGED <<tx, previous, tail, released, aborted, active, waiters, pending, asks, began, closing>>

-----------------------------------------------------------------------------
(* Calls by the owner of the transaction *)

\* A callback that uses the adapter it captured would wait for itself: it is refused.  So is
\* work that it left behind, when the transaction has ended.
Nested(t, c) ==
  /\ t \in began /\ New(c) /\ asks' = [asks EXCEPT ![t] = @ \union {c}]
  /\ IF c \in Operations THEN Turns(c, "rejected") /\ UNCHANGED tx
     ELSE Sets(c, "rejected") /\ UNCHANGED op
  /\ UNCHANGED <<previous, tail, released, aborted, active, waiters, pending, began, closing>>

-----------------------------------------------------------------------------
(* Closing *)

Close ==
  /\ closing = "open" /\ closing' = "closing"
  /\ UNCHANGED <<tx, previous, tail, released, aborted, active, waiters, pending, op, asks, began>>

\* The last place in the chain was released.
Closed ==
  /\ closing = "closing" /\ tail \in released \union {Nobody} /\ closing' = "closed"
  /\ UNCHANGED <<tx, previous, tail, released, aborted, active, waiters, pending, op, asks, began>>

-----------------------------------------------------------------------------
Init ==
  /\ tx = [t \in Transactions |-> "new"] /\ op = [o \in Operations |-> "new"]
  /\ previous = [t \in Transactions |-> Nobody] /\ tail = Nobody
  /\ released = {} /\ aborted = {} /\ active = FALSE /\ waiters = 0 /\ pending = <<>>
  /\ asks = [t \in Transactions |-> {}] /\ began = {} /\ closing = "open"

Continue(t) == Cancel(t) \/ ReleaseCancelled(t) \/ Enter(t) \/ DrainNext(t) \/ Release(t)

Next ==
  \/ \E t \in Transactions :
       RunTransaction(t) \/ Abort(t) \/ Continue(t) \/ Finish(t) \/ \E c \in Calls : Nested(t, c)
  \/ \E o \in Operations : RunOperation(o) \/ Answer(o)
  \/ Close \/ Closed

Spec == Init /\ [][Next]_vars

-----------------------------------------------------------------------------
TypeOK ==
  /\ tx \in [Transactions ->
       {"new", "waiting", "running", "draining", "ended", "cancelled", "rejected"}]
  /\ op \in [Operations -> {"new", "pending", "running", "drained", "done", "rejected"}]
  /\ {previous[t] : t \in Transactions} \union {tail} \subseteq Transactions \union {Nobody}
  /\ released \subseteq Transactions /\ aborted \subseteq Transactions
  /\ active \in BOOLEAN /\ waiters \in 0..Cardinality(Transactions)
  /\ pending \in Seq(Operations)
  /\ asks \in [Transactions -> SUBSET Calls] /\ began \subseteq Transactions
  /\ closing \in {"open", "closing", "closed"}

\* A resource transaction asks isBusy before it queues: it must not count a call twice, nor
\* forget one that waits or runs.
BusyIsExact == waiters = Cardinality({t \in Transactions : tx[t] \in {"waiting", "running"}})

\* No statement from outside is sent between the BEGIN and the COMMIT of a transaction, and
\* none that was kept is left when its place is released.
OutsideStaysOutside ==
  \A o \in Operations :
    op[o] \in {"new", "pending"} /\ op'[o] \in {"running", "drained"} =>
      \A t \in Transactions : tx[t] # "running"

\* Once close was called nothing is sent that was not under way, and when it returns every
\* transaction is over.
ClosedIsQuiet ==
  /\ closing # "open" =>
     began' = began /\ \A o \in Operations : op'[o] \in {"running", "drained"} => op'[o] = op[o]
  /\ closing' = "closed" =>
     \A t \in Transactions : tx'[t] \notin {"waiting", "running", "draining"}

\* Whoever calls is answered, and close returns: nobody waits for itself, for a cancelled
\* call, or behind one.
CallsSettle == <>[](closing # "closing" /\ \A c \in Calls : New(c) \/ Settled(c))

\* An aborted call is answered although the callbacks before it may never end.
CancelledSettle == <>[](InLine \intersect aborted = {})

-----------------------------------------------------------------------------
\* The gate implements a lock that is granted in the order of the calls.
Precedes == TransitiveClosure([t, u \in Transactions |-> previous[u] = t], Transactions)
Line == SetToSortSeq(InLine, LAMBDA t, u : Precedes[t, u])
Owner ==
  IF \E t \in Transactions : tx[t] \in {"running", "draining"}
  THEN CHOOSE t \in Transactions : tx[t] \in {"running", "draining"} ELSE Nobody

Abstract == INSTANCE SerialTransactions WITH line <- Line, owner <- Owner
Serial == Abstract!Serial
=============================================================================
