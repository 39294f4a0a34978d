------------------------------ MODULE MCEffects ------------------------------
(***************************************************************************)
(* Effects outside and beside the database for TLC: ResourceTransactions   *)
(* on both engines and NotificationIntents.  They share no state here, so  *)
(* a behaviour moves one of them, which `part` names, and leaves the other *)
(* as it started; any interleaving of both stutters into two of these.     *)
(* The properties of ResourceTransactions are checked as they stand there. *)
(***************************************************************************)
EXTENDS ResourceTransactions

CONSTANTS r1, r2, m1, m2,   \* Job workers or runtimes; invocations of mutations
          q1, q2,           \* recipients
          Recipients, Reservation, RetryBase, MaxBackoff, RecoveryScan,
          IntentFaults      \* the constants of NotificationIntents

VARIABLES part, row, attempts, phase, wk, timer, verdicts, confirmed

intentVars == <<row, attempts, phase, wk, timer, verdicts, confirmed>>
intents == <<intentVars, faults>>
resourceVars == <<job, db, resLock, jobLock, tx, canceller, overtaken, commits>>
allVars == <<part, vars, intentVars>>

-----------------------------------------------------------------------------
\* m1 repeats the Job's own operation; m2 names it for another actor.
DigestOf == [a \in {r1, r2, m1, m2} |-> IF a = m2 THEN "other" ELSE "same"]

(* Two attempts of a Job and one mutation beside them, without faults, and   *)
(* the attempts with two faults; both with one fault on SQLite.              *)
FaultyPostgres == INSTANCE ResourceTransactions WITH MaxFaults <- 2
Sqlite == INSTANCE ResourceTransactions WITH Engine <- "sqlite", MaxFaults <- 1
Idles(m) == tx'[m] = tx[m]

(* The runtimes that deliver are those that work on Jobs.                    *)
Intent == INSTANCE NotificationIntents WITH MaxFaults <- IntentFaults

ASSUME IntentAssumption == Intent!TimingAssumption

MCInit ==
  /\ part \in {"postgres", "faulty postgres", "sqlite", "intent"}
  /\ Init /\ Intent!Init

MCNext ==
  \/ part = "postgres" /\ Next /\ Idles(m2) /\ UNCHANGED <<part, intentVars>>
  \/ /\ part = "faulty postgres" /\ FaultyPostgres!Next /\ Idles(m1) /\ Idles(m2)
     /\ UNCHANGED <<part, intentVars>>
  \/ part = "sqlite" /\ Sqlite!Next /\ Idles(m1) /\ UNCHANGED <<part, intentVars>>
  \/ part = "intent" /\ Intent!Next /\ UNCHANGED <<part, resourceVars>>

(* The event loop of a live process goes on, SMTP timeouts end every         *)
(* conversation, time passes, and a runtime that ended is started again.     *)
IntentIsFair ==
  /\ WF_intents(part = "intent" /\ Intent!Tick)
  /\ \A r \in Runtimes :
       /\ WF_intents(part = "intent" /\ Intent!Work(r))
       /\ WF_intents(part = "intent" /\ Intent!Stopped(r))
       /\ WF_intents(part = "intent" /\ Intent!startNotificationIntentWorker(r))

MCSpec == MCInit /\ [][MCNext]_allVars /\ IntentIsFair

-----------------------------------------------------------------------------
(* The properties, each in the instances it speaks about.                    *)

\* A recipient keeps the row of its last attempt at most, a positive reply that was settled
\* is never lost, the receiver decides again only after something went wrong, the worker
\* that sends under the current reservation is alone, and an idle one has its timer.
IntentsAreSafe ==
  part = "intent" =>
    /\ Intent!TypeOK /\ Intent!OneDiagnosticPerRecipient /\ Intent!PositiveReplyIsKept
    /\ Intent!DuplicatesArePaidFor /\ Intent!OneCurrentSender /\ Intent!TimerMatchesPhase

\* What a caller was told of the intent is final, and every accepted recipient ends
\* acknowledged or rejected.
EveryRecipientEnds ==
  /\ [][part = "intent" => Intent!VerdictHolds]_allVars
  /\ part = "intent" => Intent!EveryRecipientEnds
=============================================================================
