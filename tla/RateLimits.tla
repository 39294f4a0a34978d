---------------------------- MODULE RateLimits -----------------------------
(***************************************************************************)
(* The bounded fixed windows behind request admission and ctx.rateLimit:   *)
(* src/bounded-fixed-window.ts with expireWindows set, used by             *)
(* src/admission-rate-limit.ts (rules that a reload may change) and by     *)
(* src/capsule-rate-limit.ts (a rule is a key with its options and never   *)
(* changes).  Everything runs synchronously; what can go wrong is in the   *)
(* windows: expiry, eviction at the bound, and reconciliation.             *)
(*                                                                         *)
(* exact and lost are history: the windows an unbounded table would hold,  *)
(* and the keys whose window was evicted while it was running.             *)
(***************************************************************************)
EXTENDS Integers, FiniteSets

CONSTANTS
  Rules,
  Keys,        \* pairs of a rule and an address
  Policies,    \* generations: [Rules -> [limit, windowMs] or Disabled]
  MaxBuckets,
  IdleMs,      \* idleMs: a day, the longest window
  MaxTime,     \* bound on the clock
  MaxCounter,  \* Number.MAX_SAFE_INTEGER, where the counter of evictions stops
  Disabled, NoWindow

Parameters == {p[r] : p \in Policies, r \in Rules} \ {Disabled}

RateLimitsAssumption ==
  /\ \A k \in Keys : k[1] \in Rules
  /\ \A p \in Policies : DOMAIN p = Rules
  /\ \A q \in Parameters : q.limit \in Nat \ {0} /\ q.windowMs \in 1..IdleMs
  /\ MaxBuckets \in Nat \ {0} /\ IdleMs \in Nat /\ MaxTime \in Nat /\ MaxCounter \in Nat
  /\ NoWindow \notin [startedAt : Nat, count : Nat]

VARIABLES
  now,        \* performance.now(): it never goes back
  policy,     \* the parameters of the last reconciliation
  buckets,    \* the Map, a function on the keys it has
  order,      \* its insertion order: the pairs of an earlier and a later key
  evictions,  \* how many buckets the bound removed
  exact,      \* history: exact[k] = the window of an unbounded table, or NoWindow
  lost,       \* history: keys whose bucket was evicted and has not caught up
  decision    \* history: the last decision and what an unbounded table would decide

vars == <<now, policy, buckets, order, evictions, exact, lost, decision>>

-----------------------------------------------------------------------------
(* createBoundedFixedWindow.record *)

Held == DOMAIN buckets

Saturated(count, ceiling) == IF count < ceiling THEN count ELSE ceiling

\* The key's bucket after one more record: a new window, or one more in the old one.
Counted(k, windowMs, ceiling) ==
  IF k \in Held /\ now - buckets[k].startedAt < windowMs
  THEN [buckets[k] EXCEPT !.count = Saturated(@ + 1, ceiling), !.lastSeenAt = now]
  ELSE [count |-> 1, startedAt |-> now, lastSeenAt |-> now, windowMs |-> windowMs]

\* Deleted and set again, the key is the last of the Map.
Reinserted(k, b) == [o \in Held \cup {k} |-> IF o = k THEN b ELSE buckets[o]]
Last(k) == {p \in order : k \notin {p[1], p[2]}} \cup {<<o, k>> : o \in Held \ {k}}

\* Mutant: a window is dropped when it has been idle for its own length.
SweptEarly(m) ==
  {o \in DOMAIN m : now - m[o].lastSeenAt < m[o].windowMs - 1 /\ now - m[o].startedAt < m[o].windowMs}

\* Idle and expired windows go, wherever they are in the order.
Swept(m) ==
  {o \in DOMAIN m : now - m[o].lastSeenAt <= IdleMs /\ now - m[o].startedAt < m[o].windowMs}

\* The least recently recorded keys make room: those stay that have few behind them.
Bounded(S, ordered) == {o \in S : Cardinality({p \in S : <<o, p>> \in ordered}) < MaxBuckets}

Evictions(n) == Saturated(evictions + n, MaxCounter)

-----------------------------------------------------------------------------
(* History: the unbounded table. *)

ExactCounted(k, windowMs, ceiling) ==
  IF exact[k] # NoWindow /\ now - exact[k].startedAt < windowMs
  THEN [exact[k] EXCEPT !.count = Saturated(@ + 1, ceiling)]
  ELSE [startedAt |-> now, count |-> 1]

\* A key is lost from the eviction of its running window until both tables
\* start a window for it with the same request.
LostAfter(k, evicted, bucket, window) ==
  (IF bucket.count = 1 /\ window.count = 1 THEN lost \ {k} ELSE lost)
  \cup {e \in evicted : exact[e] # NoWindow}

-----------------------------------------------------------------------------
\* consume of either limiter.
Consume(k) ==
  LET rule == policy[k[1]]
      bucket == Counted(k, rule.windowMs, rule.limit + 1)
      recorded == Reinserted(k, bucket)
      swept == Swept(recorded)
      kept == Bounded(swept, Last(k))
      window == ExactCounted(k, rule.windowMs, rule.limit + 1)
  IN /\ rule # Disabled
     /\ buckets' = [o \in kept |-> recorded[o]] /\ order' = Last(k) \cap (kept \X kept)
     /\ evictions' = Evictions(Cardinality(swept \ kept))
     /\ exact' = [exact EXCEPT ![k] = window]
     /\ lost' = LostAfter(k, swept \ kept, bucket, window)
     /\ decision' = [ok |-> bucket.count <= rule.limit, exactOk |-> window.count <= rule.limit,
                     lost |-> k \in lost /\ ~(bucket.count = 1 /\ window.count = 1)]
     /\ UNCHANGED <<now, policy>>

Unchanged(r, next) == next[r] # Disabled /\ next[r] = policy[r]

Retained(next) == {k \in Held : Unchanged(k[1], next)}

\* A reload with another digest: buckets of changed or disabled rules are dropped.
Reconcile(next) ==
  LET kept == Retained(next) IN
  /\ next # policy
  /\ buckets' = [k \in kept |-> buckets[k]] /\ order' = order \cap (kept \X kept)
  /\ exact' = [k \in Keys |-> IF Unchanged(k[1], next) THEN exact[k] ELSE NoWindow]
  /\ lost' = {k \in lost : Unchanged(k[1], next)}
  /\ policy' = next
  /\ UNCHANGED <<now, evictions, decision>>

Tick ==
  /\ now < MaxTime
  /\ now' = now + 1
  /\ UNCHANGED <<policy, buckets, order, evictions, exact, lost, decision>>

Init ==
  /\ now = 0
  /\ policy \in Policies
  /\ buckets = [k \in {} |-> NoWindow] /\ order = {} /\ evictions = 0
  /\ exact = [k \in Keys |-> NoWindow] /\ lost = {}
  /\ decision = [ok |-> TRUE, exactOk |-> TRUE, lost |-> FALSE]

Next ==
  \/ \E k \in Keys : Consume(k)
  \/ \E p \in Policies : Reconcile(p)
  \/ Tick

Spec == Init /\ [][Next]_vars

-----------------------------------------------------------------------------
(* Properties. *)

\* Every bucket belongs to an enabled rule, has that rule's window and counts no
\* further than the first denied request; two buckets have one order.
TypeOK ==
  /\ now \in 0..MaxTime /\ policy \in Policies /\ evictions \in 0..MaxCounter
  /\ lost \subseteq Keys
  /\ Held \subseteq Keys /\ Cardinality(Held) <= MaxBuckets
  /\ \A k \in Held :
       LET b == buckets[k] IN
       /\ policy[k[1]] # Disabled
       /\ b.windowMs = policy[k[1]].windowMs
       /\ b.count \in 1..policy[k[1]].limit + 1
       /\ b.startedAt <= b.lastSeenAt /\ b.lastSeenAt <= now
  /\ order \subseteq Held \X Held
  /\ \A k, o \in Held : k # o => (<<k, o>> \in order <=> <<o, k>> \notin order)

\* The limiter decides as an unbounded table would, unless the key's own window
\* was evicted: neither expiry, nor idleness, nor a reload that leaves a rule
\* alone forgets a request or keeps an old one.
ExactUnlessEvicted == decision.ok = decision.exactOk \/ decision.lost

\* The bound never removes a key that was recorded later than one it keeps.
LeastRecentFirst ==
  \A p \in order : buckets[p[1]].lastSeenAt <= buckets[p[2]].lastSeenAt

\* Whatever is forgotten is reported: there are no more lost keys than evictions.
LossesAreCounted == Cardinality(lost) <= evictions \/ evictions = MaxCounter
=============================================================================
