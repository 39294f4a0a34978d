------------------------------- MODULE MCFiles -------------------------------
(***************************************************************************)
(* The file storage for TLC: FileIngress, FileUploads, IngressAuditOutbox. *)
(* They have no state in common here, so a behaviour moves one of them in  *)
(* one of its instances, which `part` names, and leaves the others as they *)
(* started; every other interleaving would be a stutter of one of these.   *)
(* The properties of FileUploads are checked as they stand there.          *)
(***************************************************************************)
EXTENDS FileUploads

CONSTANTS r1, r2, r3, s1, s2, \* requests to an endpoint, sweepers
          p1, p2, path1, path2, \* PUTs, and paths of Files
          m1, m2, c1, c2,     \* runtimes and claims
          Plain, Retries, Fair,       \* the constants of FileIngress, in three cases
          Shared, Lossy, Single       \* and those of IngressAuditOutbox

VARIABLES part, crashes,
          receipts, stored, handed, expired, req, sweep,
          out, order, ripe, emitted, run

ingressVars == <<receipts, stored, handed, expired, req, sweep>>
uploadVars == <<uploads, files, urls, objects, prepare, made, put, gate, doomed, lost>>
outboxVars == <<out, order, ripe, emitted, run>>
ingress == <<ingressVars, faults, crashes>>
outbox == <<outboxVars, faults, crashes>>
allVars == <<part, crashes, vars, ingressVars, outboxVars>>

-----------------------------------------------------------------------------
(* Two requests with two parts each; three requests, two sweepers, one part; *)
(* two requests with one part, and fair.                                     *)
PlainIngress ==
  [requests |-> {r1, r2}, sweepers |-> {s1}, parts |-> {1, 2}, faults |-> 1, crashes |-> 0]
RetriedIngress ==
  [requests |-> {r1, r2, r3}, sweepers |-> {s1, s2}, parts |-> {1}, faults |-> 0, crashes |-> 0]
FairIngress ==
  [requests |-> {r1, r2}, sweepers |-> {s1}, parts |-> {1}, faults |-> 1, crashes |-> 1]
Ingress(k) == INSTANCE FileIngress WITH
  Requests <- k.requests, Sweepers <- k.sweepers, Parts <- k.parts,
  MaxFaults <- k.faults, MaxCrashes <- k.crashes, objects <- stored, files <- handed

(* Two PUTs and three uploads, of one path or of two, then with one fault.   *)
OnlyPath1 == prepare.on => prepare.path = path1

(* Two claims and two runtimes; the same where any answer may be lost;       *)
(* one runtime, and fair.                                                    *)
SharedOutbox ==
  [runtimes |-> {m1, m2}, claims |-> {c1, c2}, oneWire |-> TRUE, losesClaims |-> FALSE,
   losesCommits |-> FALSE, faults |-> 1, crashes |-> 0]
LossyOutbox == [SharedOutbox EXCEPT !.oneWire = FALSE, !.losesClaims = TRUE, !.losesCommits = TRUE]
FairOutbox == [SharedOutbox EXCEPT !.runtimes = {m1}, !.faults = 2, !.crashes = 1]
Outbox(k) == INSTANCE IngressAuditOutbox WITH
  Runtimes <- k.runtimes, Claims <- k.claims, OneWire <- k.oneWire, LosesClaims <- k.losesClaims,
  LosesCommits <- k.losesCommits, MaxFaults <- k.faults, MaxCrashes <- k.crashes

ASSUME IngressAssumption ==
  \A k \in {Plain, Retries, Fair} : Ingress(k)!FileIngressAssumption
ASSUME OutboxAssumption ==
  /\ \A k \in {Shared, Lossy, Single} : Outbox(k)!OutboxAssumption
  /\ \A k \in {Shared, Single} : k.oneWire /\ ~k.losesClaims /\ ~k.losesCommits

MCInit ==
  /\ part \in {"ingress", "retries", "fair ingress", "one path", "two paths",
               "outbox", "lossy outbox", "fair outbox"}
  /\ CASE part = "retries"      -> Ingress(Retries)!Init
       [] part = "fair ingress" -> Ingress(Fair)!Init
       [] OTHER                 -> Ingress(Plain)!Init
  /\ Init
  /\ CASE part = "lossy outbox" -> Outbox(Lossy)!Init
       [] part = "fair outbox"  -> Outbox(Single)!Init
       [] OTHER                 -> Outbox(Shared)!Init

IngressMoves == UNCHANGED <<part, uploadVars, outboxVars>>
UploadsMove == UNCHANGED <<part, crashes, ingressVars, outboxVars>>
OutboxMoves == UNCHANGED <<part, ingressVars, uploadVars>>

MCNext ==
  \/ part = "ingress" /\ Ingress(Plain)!Next /\ IngressMoves
  \/ part = "retries" /\ Ingress(Retries)!Next /\ IngressMoves
  \/ part = "fair ingress" /\ Ingress(Fair)!Next /\ IngressMoves
  \/ part = "one path" /\ Next /\ OnlyPath1' /\ UploadsMove
  \/ part = "two paths" /\ Next /\ faults' <= 1 /\ UploadsMove
  \/ part = "outbox" /\ Outbox(Shared)!Next /\ OutboxMoves
  \/ part = "lossy outbox" /\ Outbox(Lossy)!Next /\ OutboxMoves
  \/ part = "fair outbox" /\ Outbox(Single)!Next /\ OutboxMoves

(* Statements and object operations end, leases expire, a sweep starts every *)
(* minute.                                                                   *)
IngressIsFair ==
  /\ \A r \in Fair.requests : WF_ingress(part = "fair ingress" /\ Ingress(Fair)!RequestStep(r))
  /\ \A s \in Fair.sweepers : WF_ingress(part = "fair ingress" /\ Ingress(Fair)!SweepStep(s))
  /\ \A p \in Fair.parts : WF_ingress(part = "fair ingress" /\ Ingress(Fair)!Expire(p))

(* Statements are answered, timers fire, a runtime that ended is started     *)
(* again, days pass.                                                         *)
OutboxIsFair ==
  /\ \A m \in Single.runtimes :
       /\ WF_outbox(part = "fair outbox" /\ Outbox(Single)!DrainStep(m))
       /\ WF_outbox(part = "fair outbox" /\ Outbox(Single)!Fires(m))
       /\ WF_outbox(part = "fair outbox" /\ Outbox(Single)!Start(m))
  /\ WF_outbox(part = "fair outbox" /\ Outbox(Single)!Ripen)

MCSpec == MCInit /\ [][MCNext]_allVars /\ IngressIsFair /\ OutboxIsFair

-----------------------------------------------------------------------------
(* The properties, each in the instances it speaks about.                    *)

FilesAreServed(k) == Ingress(k)!FilesHaveBytes /\ Ingress(k)!AnswersAgree /\ Ingress(k)!BytesAreKnown
IntentsAreCovered(k) == Outbox(k)!PendingIsCovered /\ Outbox(k)!DeliveringIsCovered
EventsAreLogged(k) == Outbox(k)!DeliveredIsLogged /\ Outbox(k)!RepeatsAreCaused

\* No sweep, withdrawal or lost publication takes the bytes of a File, or of a lease;
\* retries of a request are answered with the same Files, which exist; and where nothing
\* failed, stored bytes belong to a File, are found by a sweep or are about to be removed.
\* Bytes uploaded under one path are always somebody's, but for those a failure left behind.
StorageIsConsistent ==
  /\ part = "one path" => BytesAreOwned
  /\ part = "ingress" => Ingress(Plain)!TypeOK /\ FilesAreServed(Plain)
  /\ part = "retries" => FilesAreServed(Retries)
  /\ part = "fair ingress" => FilesAreServed(Fair)

\* An intent is acknowledged, and pruned, only when its event is in the log, which repeats
\* one only for a failure or a start; one that is pending or in delivery is never left alone.
OutboxIsSafe ==
  /\ part = "outbox" => Outbox(Shared)!TypeOK /\ IntentsAreCovered(Shared) /\ EventsAreLogged(Shared)
  /\ part = "lossy outbox" => EventsAreLogged(Lossy)
  /\ part = "fair outbox" => IntentsAreCovered(Single)

\* A receipt that is not completed is retired, every request ends, also one that waits for
\* another's staging, and every claim that was committed is audited and pruned at last.
EverythingEnds ==
  /\ part = "fair ingress" => Ingress(Fair)!ReceiptsEnd /\ Ingress(Fair)!RequestsEnd
  /\ part = "fair outbox" => Outbox(Single)!EveryClaimIsAudited
=============================================================================
