------------------------------ MODULE MCRuntime ------------------------------
(***************************************************************************)
(* What a runtime stands on, for TLC: RuntimeReplacement, TransactionGate, *)
(* FileReplacement and RateLimits.  They have no state in common, so a     *)
(* behaviour moves one of them in one of its instances, which `part`       *)
(* names, and leaves the others as they started; every other interleaving  *)
(* would be a stutter of one of these.  The properties of                  *)
(* RuntimeReplacement are checked as they stand there.                     *)
(***************************************************************************)
EXTENDS RuntimeReplacement

CONSTANTS r0, r1, r2, j1, j2,         \* runtimes and Jobs
          rule1, rule2, addr1, addr2, \* of the rate limits
          Transactions, Operations, Nobody,   \* the constants of TransactionGate
          FileCount, FileFaults,              \* of FileReplacement
          Rules, Keys, Policies, MaxBuckets, IdleMs, MaxTime, MaxCounter,
          Disabled, NoWindow                  \* of RateLimits

VARIABLES part,
          tx, previous, tail, released, aborted, active, waiters, pending, op, asks, began, closing,
          target, temp, backup, original, had, moved, mayExist, pc, at, entries, failures, report,
          failedOps, now, policy, buckets, order, evictions, exact, lost, decision

gateVars ==
  <<tx, previous, tail, released, aborted, active, waiters, pending, op, asks, began, closing>>
filesVars ==
  <<target, temp, backup, original, had, moved, mayExist, pc, at, entries, failures, report,
    failedOps>>
limitsVars == <<now, policy, buckets, order, evictions, exact, lost, decision>>
allVars == <<part, vars, gateVars, filesVars, limitsVars>>

-----------------------------------------------------------------------------
(* One replacement, where handlers outlive their leases and a runtime may    *)
(* lose the dispatch it needs; two in a row without these; one, and fair.    *)
ThreeRuntimes == INSTANCE RuntimeReplacement WITH
  Overruns <- FALSE, Degrades <- FALSE, MaxFaults <- 1
FairRuntime == INSTANCE RuntimeReplacement WITH Overruns <- FALSE, Degrades <- FALSE

Gate == INSTANCE TransactionGate

Files == INSTANCE FileReplacement WITH
  N <- FileCount, MaxFaults <- FileFaults, faults <- failedOps

(* Two addresses under one rule and one under the other; the first rule      *)
(* changes its parameters, the second is switched off and on.                *)
Strict == [limit |-> 1, windowMs |-> 2]
Loose == [limit |-> 2, windowMs |-> 3]
TwoRules == {rule1, rule2}
ThreeKeys == {<<rule1, addr1>>, <<rule1, addr2>>, <<rule2, addr1>>}
ThreePolicies == {[r \in TwoRules |-> IF r = rule1 THEN Strict ELSE Loose],
                  [r \in TwoRules |-> Loose],
                  [r \in TwoRules |-> IF r = rule1 THEN Strict ELSE Disabled]}
Limits == INSTANCE RateLimits

ASSUME GateAssumption == Gate!GateAssumption
ASSUME FilesAssumption == Files!FileReplacementAssumption
ASSUME LimitsAssumption == Limits!RateLimitsAssumption

MCInit ==
  /\ part \in {"runtime", "three runtimes", "fair runtime", "gate", "endless gate", "files", "limits"}
  /\ Init
  /\ Gate!Init
  /\ Files!Init /\ (part # "files" => original = [p \in Files!Files |-> "none"])
  /\ Limits!Init /\ (part # "limits" => policy = CHOOSE p \in Policies : TRUE)

RuntimeMoves == UNCHANGED <<part, gateVars, filesVars, limitsVars>>
OneCandidate == rt'[r2] = rt[r2]

MCNext ==
  \/ part = "runtime" /\ Next /\ OneCandidate /\ RuntimeMoves
  \/ part = "three runtimes" /\ ThreeRuntimes!Next /\ RuntimeMoves
  \/ part = "fair runtime" /\ FairRuntime!Next /\ OneCandidate /\ RuntimeMoves
  \/ part \in {"gate", "endless gate"} /\ Gate!Next /\ UNCHANGED <<part, vars, filesVars, limitsVars>>
  \/ part = "files" /\ Files!Next /\ UNCHANGED <<part, vars, gateVars, limitsVars>>
  \/ part = "limits" /\ Limits!Next /\ UNCHANGED <<part, vars, gateVars, filesVars>>

(* Timers fire, awaited work settles and handlers return; leases expire.     *)
(* Nobody has to enqueue or restart, and nothing has to fail.                *)
RuntimeIsFair ==
  /\ \A r \in {r0, r1} :
       /\ WF_vars(part = "fair runtime" /\ FairRuntime!JobSteps(r))
       /\ WF_vars(part = "fair runtime" /\ FairRuntime!ShutdownSteps(r))
  /\ WF_vars(part = "fair runtime" /\ FairRuntime!RestartSteps("watch"))
  /\ \A j \in {j1, j2} : WF_vars(part = "fair runtime" /\ FairRuntime!LeaseExpires(j))

(* Promises are continued and statements are answered; in one of the parts   *)
(* callbacks end, once what they wait for has.                               *)
GateIsFair ==
  /\ \A t \in Transactions :
       /\ WF_gateVars(part \in {"gate", "endless gate"} /\ Gate!Continue(t))
       /\ WF_gateVars(part = "gate" /\ Gate!Finish(t))
  /\ \A o \in Operations : WF_gateVars(part \in {"gate", "endless gate"} /\ Gate!Answer(o))
  /\ WF_gateVars(part \in {"gate", "endless gate"} /\ Gate!Closed)

MCSpec == MCInit /\ [][MCNext]_allVars /\ RuntimeIsFair /\ GateIsFair

-----------------------------------------------------------------------------
(* The properties, each in the instances it speaks about.                    *)

\* A replacement ends, and after a promotion no Job is left queued or owned by a runtime
\* that is gone.
ReplacementHandsOver ==
  part = "fair runtime" => FairRuntime!RestartsEnd /\ FairRuntime!HandedOver

\* The gate is a lock that is granted in the order of the calls, and isBusy counts each that
\* waits or runs; no statement from outside is sent within a transaction, and nothing new
\* after close; whoever calls is answered, an aborted call although callbacks before it may
\* never end, and close returns.
GateIsALock ==
  /\ Gate!Serial
  /\ [](part = "gate" => Gate!TypeOK /\ Gate!BusyIsExact)
  /\ [][part = "gate" => Gate!OutsideStaysOutside /\ Gate!ClosedIsQuiet]_allVars
  /\ part = "gate" => Gate!CallsSettle
  /\ part = "endless gate" => Gate!CancelledSettle

\* After any crash or failure all files are new, or every original can be found; the report
\* says what is true of them and names every file that is not as it was or left artifacts.
FilesAreRecoverable ==
  part = "files" =>
    Files!TypeOK /\ Files!Recoverable /\ Files!ReportIsTrue /\ Files!LeftoversAreNamed

\* The limiter decides as an unbounded table would, unless the key's window was evicted; what
\* it evicts was recorded before all it keeps, and is counted.
ExactUnlessEvicted ==
  part = "limits" =>
    /\ Limits!TypeOK /\ Limits!ExactUnlessEvicted
    /\ Limits!LeastRecentFirst /\ Limits!LossesAreCounted
=============================================================================
