------------------------- MODULE IngressAuditOutbox -------------------------
(***************************************************************************)
(* The audit of claimed uploads: a claim's transaction leaves an intent in *)
(* an outbox, and after the commit a drain appends the event to the log    *)
(* and acknowledges the intent (drainIngressClaimAuditOutbox in            *)
(* src/file-ingress-runtime.ts, and the drain's single flight, timer and   *)
(* startup in src/server-runtime-source.ts).  Delivered intents are pruned *)
(* after a day.  Several runtimes may share the database.                  *)
(*                                                                         *)
(* One action is one statement or one append.  A drain of a runtime never  *)
(* overlaps with another one of it, so its token is the runtime.  Intents  *)
(* are delivered in an order; a day passes for them in that order.         *)
(***************************************************************************)
EXTENDS Naturals, Sequences, FiniteSets

CONSTANTS
  Runtimes, Claims, Nobody,
  OneWire,        \* a statement is answered before a later transaction is
  LosesClaims,    \* the statement that claims an intent may be applied and fail
  LosesCommits,   \* so may the commit of an endpoint
  MaxFaults, MaxCrashes

OutboxAssumption ==
  /\ Nobody \notin Runtimes \union Claims /\ IsFiniteSet(Runtimes)
  /\ {OneWire, LosesClaims, LosesCommits} \subseteq BOOLEAN
  /\ MaxFaults \in Nat /\ MaxCrashes \in Nat

VARIABLES
  out,        \* per claim: its row
  order,      \* the delivered rows that are kept, the earliest first
  ripe,       \* how many of them are a day old
  emitted,    \* per claim: the events in the log
  run,        \* the runtimes
  faults, crashes

vars == <<out, order, ripe, emitted, run, faults, crashes>>

NoRow == [state |-> "none", token |-> Nobody]
Row(state) == [state |-> state, token |-> Nobody]
Waking == {"none", "soon", "later"}

\* A runtime: the step of its drain, the intents selected and the one in hand, whether an
\* interrupted delivery is to be recovered, the answer of the last refresh, and its timer.
Off == [pc |-> "off", batch |-> {}, at |-> Nobody, recover |-> FALSE, wake |-> "none", timer |-> "none"]

At(r, pc) == run[r].pc = pc
Goes(r, w) == run' = [run EXCEPT ![r] = w]
Faulty == faults < MaxFaults /\ faults' = faults + 1
Sets(c, row) == out' = [out EXCEPT ![c] = row]
Holds(r, c) == out[c].state = "delivering" /\ out[c].token = r

\* What the outbox asks for: a delivery, a wake when the earliest delivered row is a day old.
Asks ==
  IF \E c \in Claims : out[c].state \in {"pending", "delivering"} THEN "soon"
  ELSE IF order # <<>> THEN "later" ELSE "none"
Due(wake) == wake = "soon" \/ (wake = "later" /\ ripe > 0)

-----------------------------------------------------------------------------
(* Claims, drains and timers *)

\* A drain starts unless one is in flight.
Drains(w) ==
  IF w.pc = "idle" THEN [w EXCEPT !.pc = IF w.recover THEN "recover" ELSE "select"] ELSE w

Inserts(c) == out[c].state = "none" /\ Sets(c, Row("pending"))

\* The transaction of an endpoint commits a claim, and the endpoint asks for a drain.
Commit(r, c) ==
  /\ ~At(r, "off") /\ Inserts(c)
  /\ Goes(r, Drains(run[r]))
  /\ UNCHANGED <<order, ripe, emitted, faults, crashes>>

\* The commit is applied and its answer is lost: the endpoint fails, and asks for nothing.
CommitUnanswered(r, c) ==
  /\ LosesCommits /\ ~At(r, "off") /\ Inserts(c) /\ Faulty
  /\ UNCHANGED <<order, ripe, emitted, run, crashes>>

Fires(r) ==
  /\ ~At(r, "off") /\ Due(run[r].timer)
  /\ Goes(r, Drains([run[r] EXCEPT !.timer = "none"]))
  /\ UNCHANGED <<out, order, ripe, emitted, faults, crashes>>

-----------------------------------------------------------------------------
(* A drain *)

Recovered == [c \in Claims |-> IF out[c].state = "delivering" THEN Row("pending") ELSE out[c]]

Recover(r) ==
  /\ At(r, "recover")
  /\ \/ out' = Recovered /\ Goes(r, [run[r] EXCEPT !.pc = "select", !.recover = FALSE])
        /\ UNCHANGED faults
     \/ out' \in {out, Recovered} /\ Goes(r, [run[r] EXCEPT !.pc = "select"]) /\ Faulty
  /\ UNCHANGED <<order, ripe, emitted, crashes>>

\* The next intent of the batch, in any order, or the end of it.
NextOf(w) ==
  IF w.batch = {} THEN {[w EXCEPT !.pc = "prune", !.at = Nobody]}
  ELSE {[w EXCEPT !.pc = "claim", !.at = c, !.batch = @ \ {c}] : c \in w.batch}

Select(r) ==
  /\ At(r, "select")
  /\ \/ /\ run' \in {[run EXCEPT ![r] = w] : w \in
                      NextOf([run[r] EXCEPT !.batch = {c \in Claims : out[c].state = "pending"}])}
        /\ UNCHANGED faults
     \/ Goes(r, [run[r] EXCEPT !.pc = "refresh"]) /\ Faulty
  /\ UNCHANGED <<out, order, ripe, emitted, crashes>>

Continues(r) == run' \in {[run EXCEPT ![r] = w] : w \in NextOf(run[r])}
Takes(r, c) == Sets(c, [state |-> "delivering", token |-> r])

\* An intent that is still pending is taken; a failed statement leaves it to a later drain.
Claim(r) ==
  LET c == run[r].at IN
  /\ At(r, "claim")
  /\ \/ out[c].state = "pending" /\ Takes(r, c) /\ Goes(r, [run[r] EXCEPT !.pc = "emit"])
        /\ UNCHANGED faults
     \/ out[c].state # "pending" /\ Continues(r) /\ UNCHANGED <<out, faults>>
     \/ Continues(r) /\ UNCHANGED out /\ Faulty
     \/ LosesClaims /\ out[c].state = "pending" /\ Takes(r, c) /\ Continues(r) /\ Faulty
  /\ UNCHANGED <<order, ripe, emitted, crashes>>

Logged(c) == emitted' = [emitted EXCEPT ![c] = @ + 1]

\* The event is appended; an append that fails may have left the event in the log.
Emit(r) ==
  /\ At(r, "emit")
  /\ \/ Logged(run[r].at) /\ Goes(r, [run[r] EXCEPT !.pc = "deliver"]) /\ UNCHANGED faults
     \/ /\ (Logged(run[r].at) \/ UNCHANGED emitted)
        /\ Goes(r, [run[r] EXCEPT !.pc = "release"]) /\ Faulty
  /\ UNCHANGED <<out, order, ripe, crashes>>

Acknowledges(r, c) ==
  IF Holds(r, c) THEN Sets(c, Row("delivered")) /\ order' = Append(order, c)
  ELSE UNCHANGED <<out, order>>

Deliver(r) ==
  LET c == run[r].at IN
  /\ At(r, "deliver")
  /\ \/ Acknowledges(r, c) /\ Continues(r) /\ UNCHANGED faults
     \/ /\ (Acknowledges(r, c) \/ UNCHANGED <<out, order>>)
        /\ Goes(r, [run[r] EXCEPT !.pc = "release"]) /\ Faulty
  /\ UNCHANGED <<ripe, emitted, crashes>>

LetsGo(r, c) == IF Holds(r, c) THEN Sets(c, Row("pending")) ELSE UNCHANGED out

\* The intent is given back; if that fails the next drain recovers it.
Release(r) ==
  LET c == run[r].at IN
  /\ At(r, "release")
  /\ \/ LetsGo(r, c) /\ Continues(r) /\ UNCHANGED faults
     \/ /\ (LetsGo(r, c) \/ UNCHANGED out) /\ Faulty
        /\ run' \in {[run EXCEPT ![r] = [w EXCEPT !.recover = TRUE]] : w \in NextOf(run[r])}
  /\ UNCHANGED <<order, ripe, emitted, crashes>>

Old == {order[i] : i \in 1..ripe}
Pruned == [c \in Claims |-> IF c \in Old THEN Row("pruned") ELSE out[c]]

Prune(r) ==
  /\ At(r, "prune") /\ Goes(r, [run[r] EXCEPT !.pc = "refresh"])
  /\ \/ /\ out' = Pruned /\ order' = SubSeq(order, ripe + 1, Len(order)) /\ ripe' = 0
        /\ UNCHANGED faults
     \/ UNCHANGED <<out, order, ripe>> /\ Faulty
  /\ UNCHANGED <<emitted, crashes>>

Ends(w, wake) == [w EXCEPT !.pc = "idle", !.timer = wake, !.wake = "none"]

\* Mutant: a failed read leaves the timer as it was.
RefreshFailsQuietly(r) ==
  /\ At(r, "refresh")
  /\ \/ Goes(r, IF OneWire THEN Ends(run[r], Asks) ELSE [run[r] EXCEPT !.pc = "answer", !.wake = Asks])
        /\ UNCHANGED faults
     \/ Goes(r, [run[r] EXCEPT !.pc = "idle"]) /\ Faulty
  /\ UNCHANGED <<out, order, ripe, emitted, crashes>>

\* The outbox is read again and its answer arms the timer; a failed read is tried soon.
Refresh(r) ==
  /\ At(r, "refresh")
  /\ \/ Goes(r, IF OneWire THEN Ends(run[r], Asks) ELSE [run[r] EXCEPT !.pc = "answer", !.wake = Asks])
        /\ UNCHANGED faults
     \/ Goes(r, Ends(run[r], "soon")) /\ Faulty
  /\ UNCHANGED <<out, order, ripe, emitted, crashes>>

\* Other transactions may be answered before the read is.
RefreshAnswered(r) ==
  /\ At(r, "answer") /\ Goes(r, Ends(run[r], run[r].wake))
  /\ UNCHANGED <<out, order, ripe, emitted, faults, crashes>>

-----------------------------------------------------------------------------
(* Starting, ending, and the passing of days *)

\* A runtime that starts looks for interrupted deliveries, and drains what is due.
Start(r) ==
  LET w == [Off EXCEPT !.pc = "idle", !.recover = Asks = "soon"] IN
  /\ At(r, "off")
  /\ Goes(r, IF Due(Asks) THEN Drains(w) ELSE [w EXCEPT !.timer = Asks])
  /\ UNCHANGED <<out, order, ripe, emitted, faults, crashes>>

Dies(r) ==
  /\ ~At(r, "off") /\ crashes < MaxCrashes /\ crashes' = crashes + 1
  /\ Goes(r, Off)
  /\ UNCHANGED <<out, order, ripe, emitted, faults>>

Ripen ==
  /\ ripe < Len(order) /\ ripe' = ripe + 1
  /\ UNCHANGED <<out, order, emitted, run, faults, crashes>>

Init ==
  /\ out = [c \in Claims |-> NoRow] /\ order = <<>> /\ ripe = 0
  /\ emitted = [c \in Claims |-> 0] /\ run = [r \in Runtimes |-> Off]
  /\ faults = 0 /\ crashes = 0

DrainStep(r) ==
  \/ Recover(r) \/ Select(r) \/ Claim(r) \/ Emit(r) \/ Deliver(r) \/ Release(r) \/ Prune(r)
  \/ Refresh(r) \/ RefreshAnswered(r)

Next ==
  \/ \E r \in Runtimes :
       \/ DrainStep(r) \/ Fires(r) \/ Start(r) \/ Dies(r)
       \/ \E c \in Claims : Commit(r, c) \/ CommitUnanswered(r, c)
  \/ Ripen

Spec == Init /\ [][Next]_vars

\* Statements are answered, timers fire, days pass, and a runtime that ended is started again.
-----------------------------------------------------------------------------
TypeOK ==
  /\ \A c \in Claims :
       /\ out[c].state \in {"none", "pending", "delivering", "delivered", "pruned"}
       /\ out[c].token \in Runtimes \union {Nobody}
  /\ order \in Seq(Claims) /\ ripe \in 0..Len(order)
  /\ \A i, j \in DOMAIN order : order[i] = order[j] => i = j
  /\ \A r \in Runtimes : /\ run[r].batch \subseteq Claims /\ run[r].at \in Claims \union {Nobody}
                         /\ run[r].timer \in Waking /\ run[r].wake \in Waking

\* An intent is acknowledged, and pruned, only when its event is in the log.
DeliveredIsLogged ==
  \A c \in Claims : out[c].state \in {"delivered", "pruned"} => emitted[c] > 0

\* Runtimes that drain the same outbox repeat an event only for a failure, or because a
\* runtime that starts resets what another one delivers: taking an intent is exclusive.
RepeatsAreCaused ==
  \A c \in Claims : emitted[c] <= 1 + faults + crashes + (Cardinality(Runtimes) - 1)

InFlight(r) == run[r].pc \notin {"off", "idle", "answer"}

\* A pending intent is never left alone: a drain has yet to look at the outbox, a timer is
\* armed, or a runtime is still to be started.
PendingIsCovered ==
  (\E c \in Claims : out[c].state = "pending") =>
    \E r \in Runtimes : InFlight(r) \/ run[r].timer = "soon" \/ run[r].wake = "soon" \/ At(r, "off")

\* An intent in delivery is in the hand of a drain, or a runtime knows that it is to recover
\* what was interrupted, or one is to be started and finds it.
DeliveringIsCovered ==
  \A c \in Claims : out[c].state = "delivering" =>
    \/ run[out[c].token].at = c /\ run[out[c].token].pc \in {"emit", "deliver", "release"}
    \/ \E r \in Runtimes : run[r].recover \/ At(r, "off")

\* Every claim that was committed is audited, and its intent is pruned at last.
EveryClaimIsAudited == <>[](\A c \in Claims : out[c].state \in {"none", "pruned"})
=============================================================================
