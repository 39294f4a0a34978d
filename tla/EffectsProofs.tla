---------------------------- MODULE EffectsProofs ----------------------------
(***************************************************************************)
(* Proofs about ResourceTransactions, for any number of Job workers and    *)
(* callers, on both engines and for any number of faults; and about        *)
(* NotificationIntents as MCEffects instantiates it, for any recipients    *)
(* and runtimes, any reservation, back-off and scan period, and any number *)
(* of faults.                                                              *)
(***************************************************************************)
EXTENDS MCEffects, FiniteSetTheorems, WellFoundedInduction, TLAPS


-----------------------------------------------------------------------------
(* The inductive invariant                                                 *)

Ended == {"applied", "committed", "returned"}
Locked == {"entry", "lookup", "callback", "claimCheck", "receipt", "finalCheck",
           "precommit", "commit"}
Outside == {"idle", "handler", "begun", "applied", "committed", "returned", "failed"}

\* Nothing of the operation is in the transaction yet, or all of it is.
Nothing(x) == x.effect = 0 /\ ~x.receipt
Whole(x) == x.effect = 1 /\ x.receipt

\* What is in the transaction of an attempt at each of its steps.
Attempt(r) ==
  LET x == tx[r] IN
  /\ x.pc \in {"idle"} \cup JobPcs
  /\ x.pc # "idle" => x.token \in 1..job.token
  /\ x.pc = "idle" => x.token = NoToken
  /\ x.pc \in Locked => resLock = r
  /\ x.pc \in Locked \ {"entry"} => jobLock = r
  /\ x.pc \in {"handler", "entry", "lookup", "callback"} => Nothing(x)
  /\ x.pc \in {"callback", "claimCheck", "receipt", "finalCheck"} => db.receipt = "none"
  /\ x.pc \in {"claimCheck", "receipt"} => x.effect = 1 /\ ~x.receipt
  /\ x.pc = "finalCheck" => Whole(x)
  /\ x.pc \in {"precommit", "commit"} =>
       \/ Whole(x) /\ db.receipt = "none"
       \/ Nothing(x) /\ db.receipt = JobDigest
  /\ x.pc = "commit" => ClaimHeld(r)
  /\ x.pc \in Ended => db.receipt = JobDigest

\* What is in the transaction of a handler: a scope that failed poisons it.
Scope(c) ==
  LET x == tx[c] IN
  /\ x.pc \in {"idle"} \cup (OuterPcs \ {"commit"})
  /\ x.pc \in {"acquired", "callback", "receipt"} => resLock = c
  /\ x.pc \in {"callback", "receipt"} => db.receipt = "none"
  /\ x.pc \in {"begun", "acquired", "callback"} => Nothing(x)
  /\ x.pc = "receipt" => x.effect = 1 /\ ~x.receipt
  /\ x.pc \in {"provisional", "cleanup"} /\ ~x.aborted =>
       Nothing(x) \/ (Whole(x) /\ resLock = c /\ db.receipt = "none")

Sound(a) ==
  /\ a \in Runtimes => Attempt(a)
  /\ a \in Callers => Scope(a)
  /\ tx[a].pc \in Outside => a \notin {resLock, jobLock}

\* A claim's token is never given twice.
OneClaim ==
  /\ job.status = "running" => job.token >= 1
  /\ \A r, q \in Runtimes : tx[r].token = tx[q].token /\ tx[r].token # NoToken => r = q

\* A cancellation that was queued behind a commit is stored before the handler returns.
OvertakenLoses ==
  overtaken =>
    /\ Engine = "postgres"
    /\ job.status # "succeeded"
    /\ job.status = "running" =>
         /\ canceller = job.token \/ job.cancel
         /\ \A r \in Runtimes : tx[r].pc = "returned" => ~Owns(r)

Commits == JobCommitsUnderItsClaim /\ OuterCommitsInTime

Invariant ==
  /\ TypeOK
  /\ \A a \in Actors : Sound(a)
  /\ EffectsMatchReceipt
  /\ Commits /\ SuccessHasReceipt
  /\ OneClaim /\ OvertakenLoses

-----------------------------------------------------------------------------
(* A step of one actor seen by the others                                  *)

Alike(x, y) ==
  /\ y.pc = x.pc /\ y.token = x.token /\ y.effect = x.effect /\ y.receipt = x.receipt
  /\ x.aborted => y.aborted

SameClaim == job'.status = job.status /\ job'.token = job.token /\ job'.cancel = job.cancel

\* What a step of a leaves to b: its transaction and its locks, the receipt unless a had
\* the resource, and the Job's row unless nobody had locked it.
Keeps(a, b) ==
  /\ Alike(tx[b], tx'[b])
  /\ resLock' = b <=> resLock = b
  /\ jobLock' = b <=> jobLock = b
  /\ db' = db \/ (resLock = a /\ db.receipt = "none")
  /\ SameClaim \/ jobLock = "none"
  /\ job'.token >= job.token

LEMMA OthersStaySound ==
    ASSUME TypeOK, TypeOK', NEW a, NEW b \in Actors, a # b, Sound(b), Keeps(a, b)
    PROVE  Sound(b)'
<1> USE ActorAssumption
<1>0. b # "none" /\ JobDigest \in {"none"} \cup {Digest[d] : d \in Actors} \cup {JobDigest}
  BY DEF Actors
<1>1. ASSUME b \in Runtimes PROVE Attempt(b)'
  <2>1. /\ tx[b] \in TxStates /\ tx'[b] \in TxStates
        /\ job \in JobStates /\ job' \in JobStates
    BY DEF TypeOK
  <2>2. Attempt(b) /\ JobDigest # "none"
    BY <1>1 DEF Sound, Actors
  <2>3. tx[b].pc \in Locked => db'.receipt = db.receipt
    BY <2>2 DEF Keeps, Attempt
  <2>4. db.receipt = JobDigest => db'.receipt = JobDigest
    BY <2>2 DEF Keeps
  <2>5. tx[b].pc = "commit" => ClaimHeld(b)'
    BY <2>1, <2>2, <1>0 DEF Keeps, Attempt, ClaimHeld, Owns, SameClaim, Alike, Locked
  <2>6. tx[b].pc # "idle" => tx'[b].token \in 1..job'.token
    BY <2>1, <2>2 DEF Keeps, Attempt, Alike, TxStates, JobStates
  <2> QED
    BY <2>1, <2>2, <2>3, <2>4, <2>5, <2>6
    DEF Keeps, Attempt, Alike, Locked, Ended, Nothing, Whole
<1>2. ASSUME b \in Callers PROVE Scope(b)'
  <2>1. Scope(b)
    BY <1>2 DEF Sound
  <2>2. resLock = b => db'.receipt = db.receipt
    BY DEF Keeps
  <2> QED
    BY <2>1, <2>2 DEF Keeps, Scope, Alike, Nothing, Whole
<1>3. tx'[b].pc \in Outside => b \notin {resLock', jobLock'}
  BY DEF Keeps, Alike, Sound
<1> QED BY <1>1, <1>2, <1>3 DEF Sound

-----------------------------------------------------------------------------
(* Steps inside a transaction                                              *)

\* A step takes a free lock or gives its own back; or it leaves the lock.
LockStep(l, m, a) == m = l \/ (l \in {"none", a} /\ m \in {"none", a})

LEMMA ReleaseIsLockStep ==
    ASSUME NEW a, Release(a)
    PROVE  /\ LockStep(resLock, resLock', a) /\ LockStep(jobLock, jobLock', a)
           /\ resLock' # a \/ a = "none"
           /\ jobLock' # a \/ a = "none"
BY DEF Release, Unlocked, LockStep

LEMMA TakeIsLockStep ==
    ASSUME NEW a, TakeResource(a)
    PROVE  /\ LockStep(resLock, resLock', a) /\ LockStep(jobLock, jobLock', a)
           /\ resLock' = a
BY DEF TakeResource, Free, LockStep

\* A step of a that moves only its invocation, to y, and its locks keeps everything that
\* is not about a; it does not return and does not change its claim.
LEMMA InsideStep ==
    ASSUME Invariant, NEW a \in Actors, NEW y \in TxStates,
           tx' = [tx EXCEPT ![a] = y],
           LockStep(resLock, resLock', a), LockStep(jobLock, jobLock', a),
           UNCHANGED <<job, db, canceller, overtaken, commits>>, faults' \in Nat,
           y.token \in {tx[a].token, NoToken}, y.pc # "returned",
           TypeOK' => Sound(a)'
    PROVE  Invariant'
<1> USE ActorAssumption
<1>0. "none" \notin Actors
  OBVIOUS
<1>1. TypeOK'
  BY <1>0 DEF Invariant, TypeOK, LockStep
<1>2. tx'[a] = y /\ \A b \in Actors : b # a => tx'[b] = tx[b]
  BY DEF Invariant, TypeOK
<1>3. ASSUME NEW b \in Actors, b # a PROVE Sound(b)'
  <2>1. Keeps(a, b)
    BY <1>0, <1>2, <1>3 DEF Keeps, Alike, LockStep, SameClaim, Invariant, TypeOK, JobStates
  <2> QED BY <2>1, <1>1, <1>3, OthersStaySound DEF Invariant
<1>4. OneClaim'
  BY <1>2 DEF Invariant, OneClaim, Actors
<1>5. OvertakenLoses'
  <2>1. ASSUME NEW r \in Runtimes, tx'[r].pc = "returned" PROVE tx'[r] = tx[r]
    BY <1>2, <2>1 DEF Actors
  <2> QED BY <2>1 DEF Invariant, OvertakenLoses, Owns
<1>6. EffectsMatchReceipt' /\ Commits' /\ SuccessHasReceipt'
  BY DEF Invariant, EffectsMatchReceipt, Commits, JobCommitsUnderItsClaim,
         OuterCommitsInTime, SuccessHasReceipt
<1> QED BY <1>1, <1>1, <1>3, <1>4, <1>5, <1>6 DEF Invariant

\* What Invariant says of one actor.
LEMMA InvariantOf ==
    ASSUME Invariant, NEW a \in Actors
    PROVE  /\ TypeOK /\ tx[a] \in TxStates /\ Sound(a)
           /\ job \in JobStates /\ job.token \in Nat /\ db \in DbStates /\ faults \in Nat
           /\ a # "none"
BY ActorAssumption DEF Invariant, TypeOK, JobStates

\* A failed scope and a Job that failed hold nothing.
LEMMA FailKeeps ==
    ASSUME Invariant, NEW r \in Runtimes, tx[r].pc # "idle", Fail(r)
    PROVE  Invariant'
<1> USE ActorAssumption
<1> DEFINE y == [tx[r] EXCEPT !.pc = "failed", !.effect = 0, !.receipt = FALSE]
<1>0. r \in Actors
  BY DEF Actors
<1>1. tx[r] \in TxStates /\ Sound(r) /\ r # "none" /\ TypeOK /\ faults \in Nat
  BY <1>0, InvariantOf
<1>2. y \in TxStates /\ y.pc = "failed" /\ y.token = tx[r].token
  BY <1>1 DEF TxStates, JobPcs
<1>3. tx' = [tx EXCEPT ![r] = y]
  BY <1>0, <1>1 DEF Fail, TypeOK
<1>4. tx'[r] = y
  BY <1>0, <1>1, <1>3 DEF TypeOK
<1>5. /\ LockStep(resLock, resLock', r) /\ LockStep(jobLock, jobLock', r)
      /\ resLock' # r /\ jobLock' # r
  BY <1>1, ReleaseIsLockStep DEF Fail
<1>6. UNCHANGED <<job, db, canceller, overtaken, commits, faults>>
  BY DEF Fail
<1> HIDE DEF y
<1>7. Attempt(r)'
  BY <1>1, <1>2, <1>4, <1>6 DEF Sound, Attempt, Locked, Ended, JobPcs
<1>8. Sound(r)'
  BY <1>5, <1>7 DEF Sound
<1> QED BY <1>0, <1>1, <1>2, <1>3, <1>5, <1>6, <1>8, InsideStep

\* A step that only goes on, inside the transaction of an attempt.
LEMMA JobStepKeeps ==
    ASSUME Invariant, NEW r \in Runtimes, NEW pc \in JobPcs \ {"returned"}, Step(r, pc),
           tx[r].pc # "idle", (tx'[r] = [tx[r] EXCEPT !.pc = pc]) => Sound(r)'
    PROVE  Invariant'
<1> DEFINE y == [tx[r] EXCEPT !.pc = pc]
<1>0. r \in Actors
  BY DEF Actors
<1>1. tx[r] \in TxStates /\ r # "none" /\ TypeOK /\ faults \in Nat
  BY <1>0, InvariantOf
<1>2. y \in TxStates /\ y.pc = pc /\ y.token = tx[r].token
  BY <1>1 DEF TxStates
<1>3. tx' = [tx EXCEPT ![r] = y]
  BY <1>0, <1>1 DEF Step, Goto, TypeOK
<1>4. tx'[r] = y
  BY <1>0, <1>1, <1>3 DEF TypeOK
<1>5. UNCHANGED <<job, db, resLock, jobLock, canceller, overtaken, commits, faults>>
  BY DEF Step
<1>6. LockStep(resLock, resLock', r) /\ LockStep(jobLock, jobLock', r)
  BY <1>5 DEF LockStep
<1>7. Sound(r)'
  BY <1>4
<1> HIDE DEF y
<1> QED BY <1>0, <1>1, <1>2, <1>3, <1>5, <1>6, <1>7, InsideStep

LEMMA EnterKeeps ==
    ASSUME Invariant, NEW r \in Runtimes, Enter(r)
    PROVE  Invariant'
<1> DEFINE y == [tx[r] EXCEPT !.pc = "entry"]
<1>0. r \in Actors
  BY DEF Actors
<1>1. tx[r] \in TxStates /\ Sound(r) /\ r # "none" /\ TypeOK /\ faults \in Nat
  BY <1>0, InvariantOf
<1>2. CASE Fail(r)
  BY <1>2, FailKeeps DEF Enter
<1>3. CASE TakeResource(r) /\ Goto(r, "entry")
           /\ UNCHANGED <<job, db, canceller, overtaken, commits, faults>>
  <2>1. y \in TxStates /\ y.pc = "entry" /\ y.token = tx[r].token
        /\ y.effect = tx[r].effect /\ y.receipt = tx[r].receipt
    BY <1>1 DEF TxStates, JobPcs
  <2>2. tx' = [tx EXCEPT ![r] = y] /\ tx'[r] = y
    BY <1>0, <1>1, <1>3 DEF Goto, TypeOK
  <2>3. LockStep(resLock, resLock', r) /\ LockStep(jobLock, jobLock', r) /\ resLock' = r
    BY <1>3, TakeIsLockStep
  <2> HIDE DEF y
  <2>4. Attempt(r)'
    BY <1>1, <1>3, <2>1, <2>2, <2>3 DEF Enter, Sound, Attempt, Locked, Ended, JobPcs, Nothing
  <2>5. Sound(r)'
    BY <2>1, <2>2, <2>4, ActorAssumption DEF Sound, Outside
  <2> QED BY <1>0, <1>1, <1>3, <2>1, <2>2, <2>3, <2>5, InsideStep
<1> QED BY <1>2, <1>3 DEF Enter

LEMMA EntryCheckKeeps ==
    ASSUME Invariant, NEW r \in Runtimes, EntryCheck(r)
    PROVE  Invariant'
<1> DEFINE y == [tx[r] EXCEPT !.pc = "lookup"]
<1>0. r \in Actors
  BY DEF Actors
<1>1. tx[r] \in TxStates /\ Sound(r) /\ r # "none" /\ TypeOK /\ faults \in Nat
  BY <1>0, InvariantOf
<1>2. CASE Fail(r)
  BY <1>2, FailKeeps DEF EntryCheck
<1>3. CASE Free(jobLock, r) /\ jobLock' = r /\ Goto(r, "lookup")
           /\ UNCHANGED <<job, db, resLock, canceller, overtaken, commits, faults>>
  <2>1. y \in TxStates /\ y.pc = "lookup" /\ y.token = tx[r].token
        /\ y.effect = tx[r].effect /\ y.receipt = tx[r].receipt
    BY <1>1 DEF TxStates, JobPcs
  <2>2. tx' = [tx EXCEPT ![r] = y] /\ tx'[r] = y
    BY <1>0, <1>1, <1>3 DEF Goto, TypeOK
  <2>3. LockStep(resLock, resLock', r) /\ LockStep(jobLock, jobLock', r)
    BY <1>3 DEF LockStep, Free
  <2> HIDE DEF y
  <2>4. Attempt(r)'
    BY <1>1, <1>3, <2>1, <2>2, <2>3
    DEF EntryCheck, Sound, Attempt, Locked, Ended, JobPcs, Nothing
  <2>5. Sound(r)'
    BY <2>1, <2>2, <2>4, ActorAssumption DEF Sound, Outside
  <2> QED BY <1>0, <1>1, <1>3, <2>1, <2>2, <2>3, <2>5, InsideStep
<1> QED BY <1>2, <1>3 DEF EntryCheck

LEMMA LookupKeeps ==
    ASSUME Invariant, NEW r \in Runtimes, Lookup(r)
    PROVE  Invariant'
<1>0. r \in Actors /\ Digest[r] = JobDigest
  BY ActorAssumption DEF Actors
<1>1. tx[r] \in TxStates /\ Sound(r) /\ r # "none" /\ TypeOK
  BY <1>0, InvariantOf
<1>2. CASE Fail(r)
  BY <1>2, FailKeeps DEF Lookup
<1>3. CASE db.receipt = "none" /\ Step(r, "callback")
  <2>1. ASSUME tx'[r] = [tx[r] EXCEPT !.pc = "callback"] PROVE Sound(r)'
    BY <1>1, <1>3, <2>1, ActorAssumption
    DEF Lookup, Step, Sound, Attempt, Locked, Ended, Nothing, Outside, JobPcs, TxStates
  <2> QED BY <1>3, <2>1, JobStepKeeps DEF Lookup, JobPcs
<1>4. CASE db.receipt = Digest[r] /\ Step(r, "precommit")
  <2>1. ASSUME tx'[r] = [tx[r] EXCEPT !.pc = "precommit"] PROVE Sound(r)'
    BY <1>0, <1>1, <1>4, <2>1, ActorAssumption
    DEF Lookup, Step, Sound, Attempt, Locked, Ended, Nothing, Outside, JobPcs, TxStates
  <2> QED BY <1>4, <2>1, JobStepKeeps DEF Lookup, JobPcs
<1> QED BY <1>2, <1>3, <1>4 DEF Lookup

LEMMA CallbackKeeps ==
    ASSUME Invariant, NEW r \in Runtimes, Callback(r)
    PROVE  Invariant'
<1> DEFINE y == [tx[r] EXCEPT !.pc = "claimCheck", !.effect = 1]
<1>0. r \in Actors
  BY DEF Actors
<1>1. tx[r] \in TxStates /\ Sound(r) /\ r # "none" /\ TypeOK /\ faults \in Nat
  BY <1>0, InvariantOf
<1>2. CASE Fail(r)
  BY <1>2, FailKeeps DEF Callback
<1>3. CASE /\ tx' = [tx EXCEPT ![r].pc = "claimCheck", ![r].effect = 1]
           /\ UNCHANGED <<job, db, resLock, jobLock, canceller, overtaken, commits, faults>>
  <2>1. y \in TxStates /\ y.pc = "claimCheck" /\ y.token = tx[r].token
        /\ y.effect = 1 /\ y.receipt = tx[r].receipt
    BY <1>1 DEF TxStates, JobPcs
  <2>2. tx' = [tx EXCEPT ![r] = y]
    BY <1>0, <1>1, <1>3 DEF TypeOK
  <2>3. tx'[r] = y /\ LockStep(resLock, resLock', r) /\ LockStep(jobLock, jobLock', r)
    BY <1>0, <1>1, <1>3, <2>2 DEF TypeOK, LockStep
  <2> HIDE DEF y
  <2>4. Attempt(r)'
    BY <1>1, <1>3, <2>1, <2>3 DEF Callback, Sound, Attempt, Locked, Ended, JobPcs, Nothing
  <2>5. Sound(r)'
    BY <2>1, <2>3, <2>4, ActorAssumption DEF Sound, Outside
  <2> QED BY <1>0, <1>1, <1>3, <2>1, <2>2, <2>3, <2>5, InsideStep
<1> QED BY <1>2, <1>3 DEF Callback

LEMMA ClaimCheckKeeps ==
    ASSUME Invariant, NEW r \in Runtimes,
           \/ ClaimCheck(r, "claimCheck", "receipt")
           \/ ClaimCheck(r, "finalCheck", "precommit")
    PROVE  Invariant'
<1>0. r \in Actors
  BY DEF Actors
<1>1. tx[r] \in TxStates /\ Sound(r) /\ r # "none" /\ TypeOK
  BY <1>0, InvariantOf
<1>2. CASE Fail(r)
  BY <1>2, FailKeeps DEF ClaimCheck
<1>3. CASE tx[r].pc = "claimCheck" /\ Step(r, "receipt")
  <2>1. ASSUME tx'[r] = [tx[r] EXCEPT !.pc = "receipt"] PROVE Sound(r)'
    BY <1>1, <1>3, <2>1, ActorAssumption
    DEF Step, Sound, Attempt, Locked, Ended, Nothing, Outside, JobPcs, TxStates
  <2> QED BY <1>3, <2>1, JobStepKeeps DEF JobPcs
<1>4. CASE tx[r].pc = "finalCheck" /\ Step(r, "precommit")
  <2>1. ASSUME tx'[r] = [tx[r] EXCEPT !.pc = "precommit"] PROVE Sound(r)'
    BY <1>1, <1>4, <2>1, ActorAssumption
    DEF Step, Sound, Attempt, Locked, Ended, Whole, Nothing, Outside, JobPcs, TxStates
  <2> QED BY <1>4, <2>1, JobStepKeeps DEF JobPcs
<1> QED BY <1>2, <1>3, <1>4 DEF ClaimCheck

LEMMA InsertReceiptKeeps ==
    ASSUME Invariant, NEW r \in Runtimes, InsertReceipt(r)
    PROVE  Invariant'
<1> DEFINE y == [tx[r] EXCEPT !.pc = "finalCheck", !.receipt = TRUE]
<1>0. r \in Actors
  BY DEF Actors
<1>1. tx[r] \in TxStates /\ Sound(r) /\ r # "none" /\ TypeOK /\ faults \in Nat
  BY <1>0, InvariantOf
<1>2. CASE Fail(r)
  BY <1>2, FailKeeps DEF InsertReceipt
<1>3. CASE /\ tx' = [tx EXCEPT ![r].pc = "finalCheck", ![r].receipt = TRUE]
           /\ UNCHANGED <<job, db, resLock, jobLock, canceller, overtaken, commits, faults>>
  <2>1. y \in TxStates /\ y.pc = "finalCheck" /\ y.token = tx[r].token
        /\ y.effect = tx[r].effect /\ y.receipt
    BY <1>1 DEF TxStates, JobPcs
  <2>2. tx' = [tx EXCEPT ![r] = y]
    BY <1>0, <1>1, <1>3 DEF TypeOK
  <2>3. tx'[r] = y /\ LockStep(resLock, resLock', r) /\ LockStep(jobLock, jobLock', r)
    BY <1>0, <1>1, <1>3, <2>2 DEF TypeOK, LockStep
  <2> HIDE DEF y
  <2>4. Attempt(r)'
    BY <1>1, <1>3, <2>1, <2>3
    DEF InsertReceipt, Sound, Attempt, Locked, Ended, JobPcs, Whole
  <2>5. Sound(r)'
    BY <2>1, <2>3, <2>4, ActorAssumption DEF Sound, Outside
  <2> QED BY <1>0, <1>1, <1>3, <2>1, <2>2, <2>3, <2>5, InsideStep
<1> QED BY <1>2, <1>3 DEF InsertReceipt

LEMMA AbortKeeps ==
    ASSUME Invariant, NEW r \in Runtimes, Abort(r)
    PROVE  Invariant'
<1> DEFINE y == [tx[r] EXCEPT !.aborted = TRUE]
<1>0. r \in Actors /\ r \notin Callers
  BY ActorAssumption DEF Actors
<1>1. tx[r] \in TxStates /\ Sound(r) /\ r # "none" /\ TypeOK /\ faults \in Nat
  BY <1>0, InvariantOf
<1>2. y \in TxStates /\ Alike(tx[r], y) /\ y.pc # "returned" /\ y.token = tx[r].token
  BY <1>1 DEF Abort, TxStates, Alike
<1>3. tx' = [tx EXCEPT ![r] = y] /\ tx'[r] = y
  BY <1>0, <1>1 DEF Abort, TypeOK
<1>4. UNCHANGED <<job, db, resLock, jobLock, canceller, overtaken, commits, faults>>
  BY DEF Abort
<1>5. LockStep(resLock, resLock', r) /\ LockStep(jobLock, jobLock', r)
  BY <1>4 DEF LockStep
<1> HIDE DEF y
<1>6. Sound(r)'
  BY <1>0, <1>1, <1>2, <1>3, <1>4 DEF Sound, Attempt, Alike, Nothing, Whole, ClaimHeld, Owns
<1> QED BY <1>0, <1>1, <1>2, <1>3, <1>4, <1>5, <1>6, InsideStep

LEMMA CommitFailsKeeps ==
    ASSUME Invariant, NEW r \in Runtimes, CommitFails(r)
    PROVE  Invariant'
<1> DEFINE y == [tx[r] EXCEPT !.pc = "failed"]
<1>0. r \in Actors /\ r \notin Callers
  BY ActorAssumption DEF Actors
<1>1. tx[r] \in TxStates /\ Sound(r) /\ r # "none" /\ TypeOK /\ faults \in Nat
  BY <1>0, InvariantOf
<1>2. y \in TxStates /\ y.pc = "failed" /\ y.token = tx[r].token
  BY <1>1 DEF TxStates, JobPcs
<1>3. tx' = [tx EXCEPT ![r] = y] /\ tx'[r] = y
  BY <1>0, <1>1 DEF CommitFails, TypeOK
<1>4. /\ LockStep(resLock, resLock', r) /\ LockStep(jobLock, jobLock', r)
      /\ resLock' # r /\ jobLock' # r
  BY <1>1, ReleaseIsLockStep DEF CommitFails
<1>5. UNCHANGED <<job, db, canceller, overtaken, commits>> /\ faults' \in Nat
  BY <1>1 DEF CommitFails
<1> HIDE DEF y
<1>6. Attempt(r)'
  BY <1>0, <1>1, <1>2, <1>3, <1>5 DEF CommitFails, Sound, Attempt, Locked, Ended, JobPcs
<1>7. Sound(r)'
  BY <1>0, <1>4, <1>6 DEF Sound
<1> QED BY <1>0, <1>1, <1>2, <1>3, <1>4, <1>5, <1>7, InsideStep

\* A process that ends, or a transaction that is rolled back, leaves nothing.
LEMMA GoneKeeps ==
    ASSUME Invariant, NEW a \in Actors, Release(a), tx' = [tx EXCEPT ![a] = Idle],
           UNCHANGED <<job, db, canceller, overtaken, commits>>, faults' \in Nat
    PROVE  Invariant'
<1>1. tx[a] \in TxStates /\ Sound(a) /\ a # "none" /\ TypeOK
  BY InvariantOf
<1>2. Idle \in TxStates /\ Idle.pc = "idle" /\ Idle.token = NoToken
  BY DEF Idle, TxStates, NoToken
<1>3. tx'[a] = Idle
  BY <1>1 DEF TypeOK
<1>4. /\ LockStep(resLock, resLock', a) /\ LockStep(jobLock, jobLock', a)
      /\ resLock' # a /\ jobLock' # a
  BY <1>1, ReleaseIsLockStep
<1>5. Sound(a)'
  BY <1>2, <1>3, <1>4 DEF Sound, Attempt, Scope, Locked, Ended
<1> QED BY <1>2, <1>3, <1>4, <1>5, InsideStep

LEMMA CommitReplyKeeps ==
    ASSUME Invariant, NEW a \in Actors, CommitReply(a)
    PROVE  Invariant'
<1>1. tx[a] \in TxStates /\ Sound(a) /\ a # "none" /\ TypeOK /\ faults \in Nat
  BY InvariantOf
<1>2. /\ UNCHANGED <<job, db, resLock, jobLock, canceller, overtaken, commits, faults>>
      /\ tx[a].pc = "applied" /\ resLock # a /\ jobLock # a
  BY <1>1 DEF CommitReply, Sound, Outside
<1>3. CASE a \in Callers
  <2>1. tx' = [tx EXCEPT ![a] = Idle]
    BY <1>3, ActorAssumption DEF CommitReply
  <2>2. Release(a)
    BY <1>2 DEF Release, Unlocked
  <2> QED BY <1>1, <1>2, <2>1, <2>2, GoneKeeps
<1>4. CASE a \in Runtimes
  <2> DEFINE y == [tx[a] EXCEPT !.pc = "committed"]
  <2>1. y \in TxStates /\ y.pc = "committed" /\ y.token = tx[a].token
    BY <1>1 DEF TxStates, JobPcs
  <2>2. tx' = [tx EXCEPT ![a] = y]
    BY <1>1, <1>4 DEF CommitReply, TypeOK
  <2>3. tx'[a] = y /\ LockStep(resLock, resLock', a) /\ LockStep(jobLock, jobLock', a)
    BY <1>1, <1>2, <2>2 DEF TypeOK, LockStep
  <2> HIDE DEF y
  <2>4. Attempt(a)'
    BY <1>1, <1>2, <1>4, <2>1, <2>3 DEF Sound, Attempt, Locked, Ended, JobPcs
  <2>5. Sound(a)'
    BY <1>2, <1>4, <2>4, ActorAssumption DEF Sound
  <2> QED BY <1>1, <1>2, <2>1, <2>2, <2>3, <2>5, InsideStep
<1> QED BY <1>3, <1>4 DEF Actors

-----------------------------------------------------------------------------
(* Steps inside the transaction of a handler                               *)

\* A step of a scope to y.
LEMMA OuterStepKeeps ==
    ASSUME Invariant, NEW c \in Callers, NEW y \in TxStates,
           tx' = [tx EXCEPT ![c] = y], y.token \in {tx[c].token, NoToken},
           LockStep(resLock, resLock', c), LockStep(jobLock, jobLock', c),
           UNCHANGED <<job, db, canceller, overtaken, commits, faults>>,
           y.pc \in OuterPcs \ {"commit", "applied"},
           y.pc = "begun" => resLock' # c /\ jobLock' # c,
           tx'[c] = y => Scope(c)'
    PROVE  Invariant'
<1>0. c \in Actors /\ c \notin Runtimes
  BY ActorAssumption DEF Actors
<1>1. tx[c] \in TxStates /\ c # "none" /\ TypeOK /\ faults \in Nat
  BY <1>0, InvariantOf
<1>2. tx'[c] = y
  BY <1>0, <1>1 DEF TypeOK
<1>3. Sound(c)'
  BY <1>0, <1>2 DEF Sound, Outside, OuterPcs
<1> QED BY <1>0, <1>1, <1>3, InsideStep DEF OuterPcs

\* A scope that goes on without a change of its locks, or that fails.
LEMMA OuterGoesOn ==
    ASSUME Invariant, NEW c \in Callers, NEW pc \in OuterPcs \ {"begun", "commit", "applied"},
           Step(c, pc), tx'[c] = [tx[c] EXCEPT !.pc = pc] => Scope(c)'
    PROVE  Invariant'
<1> DEFINE y == [tx[c] EXCEPT !.pc = pc]
<1>0. c \in Actors
  BY DEF Actors
<1>1. tx[c] \in TxStates /\ TypeOK
  BY <1>0, InvariantOf
<1>2. y \in TxStates /\ y.pc = pc /\ y.token = tx[c].token
  BY <1>1 DEF TxStates
<1>3. tx' = [tx EXCEPT ![c] = y]
  BY <1>0, <1>1 DEF Step, Goto, TypeOK
<1>4. LockStep(resLock, resLock', c) /\ LockStep(jobLock, jobLock', c)
  BY DEF LockStep, Step
<1>5. UNCHANGED <<job, db, canceller, overtaken, commits, faults>>
  BY DEF Step
<1>6. tx'[c] = y => Scope(c)'
  OBVIOUS
<1> HIDE DEF y
<1> QED BY <1>2, <1>3, <1>4, <1>5, <1>6, OuterStepKeeps

LEMMA PoisonKeeps ==
    ASSUME Invariant, NEW c \in Callers, Poison(c)
    PROVE  Invariant'
<1> DEFINE y == [tx[c] EXCEPT !.pc = "provisional", !.aborted = TRUE]
<1>0. c \in Actors
  BY DEF Actors
<1>1. tx[c] \in TxStates /\ TypeOK
  BY <1>0, InvariantOf
<1>2. y \in TxStates /\ y.pc = "provisional" /\ y.token = tx[c].token /\ y.aborted
  BY <1>1 DEF TxStates, OuterPcs
<1>3. tx' = [tx EXCEPT ![c] = y]
  BY <1>0, <1>1 DEF Poison, TypeOK
<1>4. LockStep(resLock, resLock', c) /\ LockStep(jobLock, jobLock', c)
  BY DEF LockStep, Poison
<1>5. UNCHANGED <<job, db, canceller, overtaken, commits, faults>>
  BY DEF Poison
<1> HIDE DEF y
<1>6. tx'[c] = y => Scope(c)'
  BY <1>2 DEF Scope, OuterPcs
<1> QED BY <1>2, <1>3, <1>4, <1>5, <1>6, OuterStepKeeps DEF OuterPcs

LEMMA BeginOuterKeeps ==
    ASSUME Invariant, NEW c \in Callers, BeginOuter(c)
    PROVE  Invariant'
<1> DEFINE y == [Idle EXCEPT !.pc = "begun", !.left = OuterTicks]
<1>0. c \in Actors
  BY DEF Actors
<1>1. tx[c] \in TxStates /\ TypeOK /\ Sound(c)
  BY <1>0, InvariantOf
<1>2. y \in TxStates /\ y.pc = "begun" /\ y.token = NoToken /\ y.effect = 0 /\ ~y.receipt
  BY TickAssumption DEF TxStates, OuterPcs, Idle, NoToken
<1>3. tx' = [tx EXCEPT ![c] = y]
  BY DEF BeginOuter
<1>4. LockStep(resLock, resLock', c) /\ LockStep(jobLock, jobLock', c)
      /\ resLock' # c /\ jobLock' # c
  BY <1>1 DEF LockStep, BeginOuter, Sound, Outside
<1>5. UNCHANGED <<job, db, canceller, overtaken, commits, faults>>
  BY DEF BeginOuter
<1> HIDE DEF y
<1>6. tx'[c] = y => Scope(c)'
  BY <1>2 DEF Scope, OuterPcs, Nothing
<1> QED BY <1>2, <1>3, <1>4, <1>5, <1>6, OuterStepKeeps DEF OuterPcs

LEMMA AcquireOuterKeeps ==
    ASSUME Invariant, NEW c \in Callers, AcquireOuter(c)
    PROVE  Invariant'
<1>0. c \in Actors
  BY DEF Actors
<1>1. tx[c] \in TxStates /\ TypeOK /\ Sound(c) /\ Scope(c)
  BY <1>0, InvariantOf DEF Sound
<1>2. CASE TakeResource(c) /\ Goto(c, "acquired")
           /\ UNCHANGED <<job, db, canceller, overtaken, commits, faults>>
  <2> DEFINE y == [tx[c] EXCEPT !.pc = "acquired"]
  <2>1. y \in TxStates /\ y.pc = "acquired" /\ y.token = tx[c].token
        /\ y.effect = tx[c].effect /\ y.receipt = tx[c].receipt
    BY <1>1 DEF TxStates, OuterPcs
  <2>2. tx' = [tx EXCEPT ![c] = y]
    BY <1>0, <1>1, <1>2 DEF Goto, TypeOK
  <2>3. LockStep(resLock, resLock', c) /\ LockStep(jobLock, jobLock', c) /\ resLock' = c
    BY <1>2, TakeIsLockStep
  <2> HIDE DEF y
  <2>4. tx'[c] = y => Scope(c)'
    BY <1>1, <2>1, <2>3 DEF AcquireOuter, Scope, OuterPcs, Nothing
  <2> QED BY <1>2, <2>1, <2>2, <2>3, <2>4, OuterStepKeeps DEF OuterPcs
<1>3. CASE Step(c, "provisional")
  <2>1. tx'[c] = [tx[c] EXCEPT !.pc = "provisional"] => Scope(c)'
    BY <1>1, <1>3 DEF AcquireOuter, Scope, OuterPcs, Nothing, Step, TxStates
  <2> QED BY <1>3, <2>1, OuterGoesOn DEF OuterPcs
<1>4. CASE Poison(c)
  BY <1>4, PoisonKeeps
<1> QED BY <1>2, <1>3, <1>4 DEF AcquireOuter, Refused

LEMMA LookupOuterKeeps ==
    ASSUME Invariant, NEW c \in Callers, LookupOuter(c)
    PROVE  Invariant'
<1>0. c \in Actors
  BY DEF Actors
<1>1. tx[c] \in TxStates /\ TypeOK /\ Sound(c) /\ Scope(c)
  BY <1>0, InvariantOf DEF Sound
<1>2. CASE db.receipt = "none" /\ Step(c, "callback")
  <2>1. tx'[c] = [tx[c] EXCEPT !.pc = "callback"] => Scope(c)'
    BY <1>1, <1>2 DEF LookupOuter, Scope, OuterPcs, Nothing, Step, TxStates
  <2> QED BY <1>2, <2>1, OuterGoesOn DEF OuterPcs
<1>3. CASE Step(c, "provisional")
  <2>1. tx'[c] = [tx[c] EXCEPT !.pc = "provisional"] => Scope(c)'
    BY <1>1, <1>3 DEF LookupOuter, Scope, OuterPcs, Nothing, Step, TxStates
  <2> QED BY <1>3, <2>1, OuterGoesOn DEF OuterPcs
<1> QED BY <1>2, <1>3, PoisonKeeps DEF LookupOuter

\* The callback has written all it writes, or it throws and poisons the transaction.
LEMMA CallbackOuterKeeps ==
    ASSUME Invariant, NEW c \in Callers, CallbackOuter(c)
    PROVE  Invariant'
<1>0. c \in Actors
  BY DEF Actors
<1>1. tx[c] \in TxStates /\ TypeOK /\ Sound(c) /\ Scope(c)
  BY <1>0, InvariantOf DEF Sound
<1>2. UNCHANGED <<job, db, resLock, jobLock, canceller, overtaken, commits, faults>>
  BY DEF CallbackOuter
<1>3. LockStep(resLock, resLock', c) /\ LockStep(jobLock, jobLock', c)
  BY <1>2 DEF LockStep
<1>4. CASE tx' = [tx EXCEPT ![c].pc = "receipt", ![c].effect = 1]
  <2> DEFINE y == [tx[c] EXCEPT !.pc = "receipt", !.effect = 1]
  <2>1. y \in TxStates /\ y.pc = "receipt" /\ y.token = tx[c].token
        /\ y.effect = 1 /\ y.receipt = tx[c].receipt
    BY <1>1 DEF TxStates, OuterPcs
  <2>2. tx' = [tx EXCEPT ![c] = y]
    BY <1>0, <1>1, <1>4 DEF TypeOK
  <2> HIDE DEF y
  <2>3. tx'[c] = y => Scope(c)'
    BY <1>1, <1>2, <2>1 DEF CallbackOuter, Scope, OuterPcs, Nothing
  <2> QED BY <1>2, <1>3, <2>1, <2>2, <2>3, OuterStepKeeps DEF OuterPcs
<1>5. ASSUME NEW e \in {0, 1},
             tx' = [tx EXCEPT ![c].pc = "provisional", ![c].effect = e, ![c].aborted = TRUE]
      PROVE  Invariant'
  <2> DEFINE y == [tx[c] EXCEPT !.pc = "provisional", !.effect = e, !.aborted = TRUE]
  <2>1. y \in TxStates /\ y.pc = "provisional" /\ y.token = tx[c].token /\ y.aborted
    BY <1>1 DEF TxStates, OuterPcs
  <2>2. tx' = [tx EXCEPT ![c] = y]
    BY <1>0, <1>1, <1>5 DEF TypeOK
  <2> HIDE DEF y
  <2>3. tx'[c] = y => Scope(c)'
    BY <2>1 DEF Scope, OuterPcs
  <2> QED BY <1>2, <1>3, <2>1, <2>2, <2>3, OuterStepKeeps DEF OuterPcs
<1> QED BY <1>4, <1>5 DEF CallbackOuter

LEMMA InsertReceiptOuterKeeps ==
    ASSUME Invariant, NEW c \in Callers, InsertReceiptOuter(c)
    PROVE  Invariant'
<1>0. c \in Actors
  BY DEF Actors
<1>1. tx[c] \in TxStates /\ TypeOK /\ Sound(c) /\ Scope(c)
  BY <1>0, InvariantOf DEF Sound
<1>2. CASE tx' = [tx EXCEPT ![c].pc = "provisional", ![c].receipt = TRUE]
           /\ UNCHANGED <<job, db, resLock, jobLock, canceller, overtaken, commits, faults>>
  <2> DEFINE y == [tx[c] EXCEPT !.pc = "provisional", !.receipt = TRUE]
  <2>1. y \in TxStates /\ y.pc = "provisional" /\ y.token = tx[c].token
        /\ y.effect = tx[c].effect /\ y.receipt
    BY <1>1 DEF TxStates, OuterPcs
  <2>2. tx' = [tx EXCEPT ![c] = y]
    BY <1>0, <1>1, <1>2 DEF TypeOK
  <2>3. LockStep(resLock, resLock', c) /\ LockStep(jobLock, jobLock', c)
    BY <1>2 DEF LockStep
  <2> HIDE DEF y
  <2>4. tx'[c] = y => Scope(c)'
    BY <1>1, <1>2, <2>1 DEF InsertReceiptOuter, Scope, OuterPcs, Whole
  <2> QED BY <1>2, <2>1, <2>2, <2>3, <2>4, OuterStepKeeps DEF OuterPcs
<1> QED BY <1>2, PoisonKeeps DEF InsertReceiptOuter

LEMMA EndHandlerKeeps ==
    ASSUME Invariant, NEW c \in Callers, EndHandler(c)
    PROVE  Invariant'
<1>0. c \in Actors
  BY DEF Actors
<1>1. tx[c] \in TxStates /\ TypeOK /\ Sound(c) /\ Scope(c) /\ faults \in Nat
  BY <1>0, InvariantOf DEF Sound
<1>2. CASE Step(c, "cleanup")
  <2>1. tx'[c] = [tx[c] EXCEPT !.pc = "cleanup"] => Scope(c)'
    BY <1>1, <1>2 DEF EndHandler, Scope, OuterPcs, Nothing, Whole, Step, TxStates
  <2> QED BY <1>2, <2>1, OuterGoesOn DEF OuterPcs
<1>3. CASE RollbackOuter(c)
  BY <1>0, <1>1, <1>3, GoneKeeps DEF RollbackOuter
<1> QED BY <1>2, <1>3 DEF EndHandler

-----------------------------------------------------------------------------
(* COMMIT                                                                  *)

\* What may be committed: an attempt under its claim, a handler in time.
Ready(a) ==
  /\ a \in Runtimes => tx[a].pc \in {"precommit", "commit"} /\ ClaimHeld(a)
  /\ a \in Callers => tx[a].pc = "cleanup" /\ Live(a)

\* The receipt that a commit leaves, and the resource it was written under.
LEMMA AppliedReceipt ==
    ASSUME Invariant, NEW a \in Actors, Ready(a), Apply(a)
    PROVE  /\ db' \in DbStates /\ EffectsMatchReceipt'
           /\ db' = db \/ (resLock = a /\ db.receipt = "none")
           /\ a \in Runtimes => db'.receipt = JobDigest
           /\ SuccessHasReceipt => (job.status = "succeeded" => db'.receipt = JobDigest)
<1> USE ActorAssumption
<1>1. tx[a] \in TxStates /\ Sound(a) /\ db \in DbStates
  BY InvariantOf
<1>2. /\ Digest[a] # "none" /\ JobDigest # "none"
      /\ a \in Runtimes => Digest[a] = JobDigest
  BY DEF Actors
<1>3. db' = [effects |-> db.effects + tx[a].effect,
             receipt |-> IF tx[a].receipt THEN Digest[a] ELSE db.receipt]
  BY DEF Apply
<1>4. \/ Whole(tx[a]) /\ db.receipt = "none" /\ resLock = a
      \/ Nothing(tx[a]) /\ (a \in Runtimes => db.receipt = JobDigest)
  BY <1>1 DEF Ready, Sound, Attempt, Scope, Live, Locked, Actors
<1>5. EffectsMatchReceipt
  BY DEF Invariant
<1>6. CASE Nothing(tx[a]) /\ (a \in Runtimes => db.receipt = JobDigest)
  <2>1. db' = db
    BY <1>1, <1>3, <1>6 DEF Nothing, DbStates
  <2> QED BY <1>1, <1>5, <1>6, <2>1 DEF EffectsMatchReceipt, SuccessHasReceipt
<1>7. CASE Whole(tx[a]) /\ db.receipt = "none" /\ resLock = a
  <2>1. db' = [effects |-> 1, receipt |-> Digest[a]]
    BY <1>1, <1>3, <1>5, <1>7 DEF Whole, DbStates, EffectsMatchReceipt
  <2>2. db' \in DbStates /\ EffectsMatchReceipt'
    BY <1>2, <2>1 DEF DbStates, EffectsMatchReceipt
  <2>3. SuccessHasReceipt /\ job.status = "succeeded" => db'.receipt = JobDigest
    BY <1>2, <1>7, <2>1 DEF SuccessHasReceipt, Actors
  <2> QED BY <1>2, <1>7, <2>1, <2>2, <2>3
<1> QED BY <1>4, <1>6, <1>7

LEMMA ApplyKeeps ==
    ASSUME Invariant, NEW a \in Actors, Ready(a), Apply(a),
           NEW y \in TxStates, tx' = [tx EXCEPT ![a] = y],
           \/ y.pc = "applied" /\ y.token = tx[a].token
           \/ y = Idle,
           UNCHANGED <<job, canceller>>, faults' \in Nat
    PROVE  Invariant'
<1> USE ActorAssumption
<1>1. tx[a] \in TxStates /\ Sound(a) /\ a # "none" /\ TypeOK /\ job \in JobStates
      /\ job.token \in Nat
  BY InvariantOf
<1>2. tx'[a] = y /\ \A b \in Actors : b # a => tx'[b] = tx[b]
  BY <1>1 DEF TypeOK
<1>3. y.pc \in {"applied", "idle"} /\ (y.pc = "idle" => y.token = NoToken)
      /\ (y.pc = "applied" => y.token = tx[a].token)
      /\ y.token \in {tx[a].token, NoToken}
  BY DEF Idle
<1>4. /\ LockStep(resLock, resLock', a) /\ LockStep(jobLock, jobLock', a)
      /\ resLock' # a /\ jobLock' # a
  BY <1>1, ReleaseIsLockStep DEF Apply
<1>5. /\ db' \in DbStates /\ EffectsMatchReceipt'
      /\ db' = db \/ (resLock = a /\ db.receipt = "none")
      /\ a \in Runtimes => db'.receipt = JobDigest
      /\ SuccessHasReceipt => (job.status = "succeeded" => db'.receipt = JobDigest)
  BY AppliedReceipt
<1>6. a \in Runtimes => Owns(a) /\ ~job.cancel /\ job.status = "running"
                        /\ job.token = tx[a].token
  BY DEF Ready, ClaimHeld, Owns
<1>7. Commits' /\ commits' \subseteq [by : Actors, claim : BOOLEAN, intime : BOOLEAN,
                                      intact : BOOLEAN]
  <2> DEFINE c == [by |-> a, claim |-> a \in Runtimes => Owns(a) /\ ~job.cancel,
                   intime |-> tx[a].left > 0, intact |-> ~tx[a].aborted]
  <2>1. commits' = commits \cup {c}
    BY DEF Apply
  <2>2. c \in [by : Actors, claim : BOOLEAN, intime : BOOLEAN, intact : BOOLEAN]
    OBVIOUS
  <2>3. c.by = a /\ (a \in Runtimes => c.claim)
    BY <1>6
  <2>4. a \in Callers => c.intime /\ c.intact
    BY DEF Ready, Live
  <2> HIDE DEF c
  <2>5. Commits'
    BY <2>1, <2>3, <2>4
    DEF Invariant, Commits, JobCommitsUnderItsClaim, OuterCommitsInTime
  <2> QED BY <2>1, <2>2, <2>5, <1>1 DEF TypeOK
<1>8. overtaken' \in BOOLEAN /\ TypeOK'
  <2>1. overtaken' \in BOOLEAN
    BY <1>1 DEF Apply, TypeOK
  <2> QED BY <1>1, <1>4, <1>5, <1>7, <2>1 DEF TypeOK, LockStep
<1>9. ASSUME NEW b \in Actors, b # a PROVE Sound(b)'
  <2>1. b # "none"
    OBVIOUS
  <2>2. Keeps(a, b)
    BY <1>1, <1>2, <1>4, <1>5, <1>9, <2>1 DEF Keeps, Alike, LockStep, SameClaim
  <2> QED BY <1>1, <1>8, <1>9, <2>2, OthersStaySound DEF Invariant
<1>10. Sound(a)'
  BY <1>1, <1>2, <1>3, <1>4, <1>5, <1>6
  DEF Sound, Attempt, Scope, Locked, Ended, JobPcs, OuterPcs, Ready, NoToken
<1>11. OneClaim'
  BY <1>2, <1>3 DEF Invariant, OneClaim, Actors
<1>12. SuccessHasReceipt'
  BY <1>5 DEF Invariant, SuccessHasReceipt
<1>13. OvertakenLoses'
  <2>1. ASSUME NEW r \in Runtimes, tx'[r].pc = "returned" PROVE r # a /\ tx'[r] = tx[r]
    BY <1>2, <1>3, <2>1 DEF Actors
  <2>2. CASE a \notin Runtimes
    <3>1. overtaken' = overtaken
      BY <2>2 DEF Apply
    <3> QED BY <2>1, <3>1 DEF Invariant, OvertakenLoses, Owns
  <2>3. CASE a \in Runtimes
    <3>1. ASSUME NEW r \in Runtimes, tx'[r].pc = "returned" PROVE ~Owns(r)'
      BY <1>6, <2>1, <2>3, <3>1 DEF Invariant, OneClaim, Owns, NoToken
    <3> QED BY <1>6, <2>3, <3>1 DEF OvertakenLoses, Apply
  <2> QED BY <2>2, <2>3 DEF Actors
<1> QED BY <1>5, <1>7, <1>8, <1>9, <1>10, <1>11, <1>12, <1>13 DEF Invariant

\* beforeCommit: the attempt goes on to COMMIT with its claim, or has committed already.
LEMMA PrecommitKeeps ==
    ASSUME Invariant, NEW r \in Runtimes, Precommit(r)
    PROVE  Invariant'
<1>0. r \in Actors /\ r \notin Callers
  BY ActorAssumption DEF Actors
<1>1. tx[r] \in TxStates /\ Sound(r) /\ r # "none" /\ TypeOK /\ faults \in Nat
  BY <1>0, InvariantOf
<1>2. CASE Fail(r)
  BY <1>2, FailKeeps DEF Precommit
<1>3. CASE ClaimHeld(r) /\ Step(r, "commit")
  <2>1. ASSUME tx'[r] = [tx[r] EXCEPT !.pc = "commit"] PROVE Sound(r)'
    <3>1. ClaimHeld(r)'
      BY <1>1, <1>3, <2>1 DEF ClaimHeld, Owns, Step, TxStates
    <3> QED
      BY <1>0, <1>1, <1>3, <2>1, <3>1
      DEF Precommit, Step, Sound, Attempt, Locked, Ended, Whole, Nothing, Outside, JobPcs,
          TxStates
  <2> QED BY <1>3, <2>1, JobStepKeeps DEF Precommit, JobPcs
<1>4. CASE ClaimHeld(r) /\ Apply(r) /\ Goto(r, "applied") /\ UNCHANGED <<job, canceller, faults>>
  <2> DEFINE y == [tx[r] EXCEPT !.pc = "applied"]
  <2>1. y \in TxStates /\ y.pc = "applied" /\ y.token = tx[r].token
    BY <1>1 DEF TxStates, JobPcs
  <2>2. tx' = [tx EXCEPT ![r] = y]
    BY <1>0, <1>1, <1>4 DEF Goto, TypeOK
  <2> HIDE DEF y
  <2>3. Ready(r)
    BY <1>0, <1>4 DEF Ready, Precommit
  <2> QED BY <1>0, <1>1, <1>4, <2>1, <2>2, <2>3, ApplyKeeps
<1> QED BY <1>2, <1>3, <1>4 DEF Precommit

LEMMA ApplyJobCommitKeeps ==
    ASSUME Invariant, NEW r \in Runtimes, ApplyJobCommit(r)
    PROVE  Invariant'
<1> DEFINE y == [tx[r] EXCEPT !.pc = "applied"]
<1>0. r \in Actors /\ r \notin Callers
  BY ActorAssumption DEF Actors
<1>1. tx[r] \in TxStates /\ Sound(r) /\ TypeOK /\ faults \in Nat
  BY <1>0, InvariantOf
<1>2. y \in TxStates /\ y.pc = "applied" /\ y.token = tx[r].token
  BY <1>1 DEF TxStates, JobPcs
<1>3. tx' = [tx EXCEPT ![r] = y]
  BY <1>0, <1>1 DEF ApplyJobCommit, Goto, TypeOK
<1> HIDE DEF y
<1>4. Ready(r)
  BY <1>0, <1>1 DEF Ready, ApplyJobCommit, Sound, Attempt
<1> QED BY <1>0, <1>1, <1>2, <1>3, <1>4, ApplyKeeps DEF ApplyJobCommit

LEMMA CommitOuterKeeps ==
    ASSUME Invariant, NEW c \in Callers, CommitOuter(c)
    PROVE  Invariant'
<1> DEFINE y == [tx[c] EXCEPT !.pc = "applied"]
<1>0. c \in Actors /\ c \notin Runtimes
  BY ActorAssumption DEF Actors
<1>1. tx[c] \in TxStates /\ TypeOK /\ faults \in Nat
  BY <1>0, InvariantOf
<1>2. CASE RollbackOuter(c)
  BY <1>0, <1>1, <1>2, GoneKeeps DEF RollbackOuter
<1>3. CASE Live(c) /\ Apply(c) /\ Goto(c, "applied") /\ UNCHANGED <<job, canceller, faults>>
  <2>1. y \in TxStates /\ y.pc = "applied" /\ y.token = tx[c].token
    BY <1>1 DEF TxStates, OuterPcs
  <2>2. tx' = [tx EXCEPT ![c] = y]
    BY <1>0, <1>1, <1>3 DEF Goto, TypeOK
  <2> HIDE DEF y
  <2>3. Ready(c)
    BY <1>0, <1>3 DEF Ready, CommitOuter
  <2> QED BY <1>0, <1>1, <1>3, <2>1, <2>2, <2>3, ApplyKeeps
<1> QED BY <1>2, <1>3 DEF CommitOuter

LEMMA CrashKeeps ==
    ASSUME Invariant, NEW a \in Actors, Crash(a)
    PROVE  Invariant'
<1>1. tx[a] \in TxStates /\ Sound(a) /\ TypeOK /\ faults' \in Nat
  BY InvariantOf DEF Crash
<1>2. UNCHANGED <<job, canceller>> /\ tx' = [tx EXCEPT ![a] = Idle] /\ Idle \in TxStates
  BY DEF Crash, Idle, TxStates, NoToken
<1>3. CASE UNCHANGED <<db, overtaken, commits>> /\ Release(a)
  BY <1>1, <1>2, <1>3, GoneKeeps
<1>4. CASE tx[a].pc = "commit" /\ Apply(a)
  <2>1. Ready(a)
    BY <1>1, <1>4 DEF Ready, Sound, Attempt, Scope, OuterPcs
  <2> QED BY <1>1, <1>2, <1>4, <2>1, ApplyKeeps
<1> QED BY <1>3, <1>4 DEF Crash

-----------------------------------------------------------------------------
(* The Job's row                                                           *)

LEMMA ClaimKeeps ==
    ASSUME Invariant, NEW r \in Runtimes, Claim(r)
    PROVE  Invariant'
<1> DEFINE y == [Idle EXCEPT !.pc = "handler", !.token = job.token + 1, !.left = LeaseTicks]
           j == [job EXCEPT !.status = "running", !.token = @ + 1, !.left = LeaseTicks]
<1> USE ActorAssumption
<1>0. r \in Actors /\ r \notin Callers
  BY DEF Actors
<1>1. tx[r] \in TxStates /\ Sound(r) /\ r # "none" /\ TypeOK /\ job \in JobStates
      /\ job.token \in Nat
  BY <1>0, InvariantOf
<1>2. /\ y \in TxStates /\ y.pc = "handler" /\ y.token = job.token + 1 /\ Nothing(y)
      /\ j \in JobStates /\ j.status = "running" /\ j.token = job.token + 1
  <2>1. PICK k \in Nat : k = job.token + 1
    BY <1>1
  <2>2. y = [Idle EXCEPT !.pc = "handler", !.token = k, !.left = LeaseTicks]
    BY <2>1
  <2>3. j = [job EXCEPT !.status = "running", !.token = k, !.left = LeaseTicks]
    BY <2>1
  <2> HIDE DEF y, j
  <2>4. y \in TxStates /\ y.pc = "handler" /\ y.token = k /\ Nothing(y)
    BY <2>2, TickAssumption DEF TxStates, JobPcs, Idle, Nothing
  <2>5. j \in JobStates /\ j.status = "running" /\ j.token = k
    BY <1>1, <2>3, TickAssumption DEF JobStates
  <2> QED BY <2>1, <2>4, <2>5
<1>3. tx' = [tx EXCEPT ![r] = y] /\ job' = j /\ jobLock = "none" /\ tx[r].pc = "idle"
      /\ UNCHANGED <<db, resLock, jobLock, canceller, commits, faults>> /\ overtaken' = FALSE
  BY DEF Claim
<1> HIDE DEF y, j
<1>4. tx'[r] = y /\ \A b \in Actors : b # r => tx'[b] = tx[b]
  BY <1>0, <1>1, <1>3 DEF TypeOK
<1>5. TypeOK'
  BY <1>1, <1>2, <1>3 DEF TypeOK
<1>6. ASSUME NEW b \in Actors, b # r PROVE Sound(b)'
  <2>1. Keeps(r, b)
    BY <1>1, <1>2, <1>3, <1>4, <1>6 DEF Keeps, Alike
  <2> QED BY <1>1, <1>5, <1>6, <2>1, OthersStaySound DEF Invariant
<1>7. Attempt(r)'
  BY <1>1, <1>2, <1>3, <1>4 DEF Attempt, Locked, Ended, JobPcs
<1>8. Sound(r)'
  BY <1>0, <1>1, <1>3, <1>7 DEF Sound, Outside
<1>9. OneClaim'
  <2>1. ASSUME NEW q \in Runtimes, q # r PROVE tx'[q] = tx[q] /\ tx[q].token # y.token
    <3>1. q \in Actors
      BY DEF Actors
    <3>2. Sound(q) /\ tx[q] \in TxStates
      BY <3>1, InvariantOf
    <3>3. tx[q].token = 0 \/ tx[q].token \in 1..job.token
      BY <3>2 DEF Sound, Attempt, NoToken
    <3> QED BY <1>1, <1>2, <1>4, <2>1, <3>1, <3>3
  <2> QED BY <1>1, <1>2, <1>3, <1>4, <2>1 DEF Invariant, OneClaim
<1>10. EffectsMatchReceipt' /\ Commits' /\ SuccessHasReceipt' /\ OvertakenLoses'
  BY <1>2, <1>3 DEF Invariant, EffectsMatchReceipt, Commits, JobCommitsUnderItsClaim,
                    OuterCommitsInTime, SuccessHasReceipt, OvertakenLoses
<1> QED BY <1>5, <1>6, <1>8, <1>9, <1>10 DEF Invariant

\* Once it has been asked for, a cancellation that was stored is not overlooked.
LEMMA RereadKeeps ==
    ASSUME Invariant, NEW r \in Runtimes, Reread(r)
    PROVE  Invariant'
<1> USE ActorAssumption
<1>0. r \in Actors /\ r \notin Callers
  BY DEF Actors
<1>1. tx[r] \in TxStates /\ Sound(r) /\ r # "none" /\ TypeOK /\ job \in JobStates
      /\ job.token \in Nat
  BY <1>0, InvariantOf
<1>2. PICK pc \in {"returned", "failed"} :
        /\ Goto(r, pc)
        /\ Engine = "postgres" /\ pc = "returned" => canceller = NoToken /\ ~(Owns(r) /\ job.cancel)
  BY EngineAssumption DEF Reread
<1> DEFINE y == [tx[r] EXCEPT !.pc = pc]
<1>3. y \in TxStates /\ y.pc = pc /\ y.token = tx[r].token
  BY <1>1 DEF TxStates, JobPcs
<1>4. tx' = [tx EXCEPT ![r] = y]
  BY <1>0, <1>1, <1>2 DEF Goto, TypeOK
<1>5. tx'[r] = y /\ \A b \in Actors : b # r => tx'[b] = tx[b]
  BY <1>0, <1>1, <1>4 DEF TypeOK
<1>6. tx[r].pc = "committed"
      /\ UNCHANGED <<job, db, resLock, jobLock, canceller, overtaken, commits, faults>>
  BY DEF Reread
<1> HIDE DEF y
<1>7. TypeOK'
  BY <1>1, <1>3, <1>4, <1>6 DEF TypeOK
<1>8. ASSUME NEW b \in Actors, b # r PROVE Sound(b)'
  <2>1. Keeps(r, b)
    BY <1>1, <1>5, <1>6, <1>8 DEF Keeps, Alike, SameClaim
  <2> QED BY <1>1, <1>7, <1>8, <2>1, OthersStaySound DEF Invariant
<1>9. Attempt(r)'
  BY <1>0, <1>1, <1>3, <1>5, <1>6 DEF Sound, Attempt, Locked, Ended, JobPcs
<1>10. Sound(r)'
  BY <1>0, <1>1, <1>6, <1>9 DEF Sound, Outside
<1>11. OneClaim'
  BY <1>3, <1>5, <1>6 DEF Invariant, OneClaim, Actors
<1>12. OvertakenLoses'
  <2>1. ASSUME overtaken, job.status = "running", NEW q \in Runtimes, tx'[q].pc = "returned"
        PROVE  ~Owns(q)'
    <3>1. CASE q # r
      <4>1. tx'[q] = tx[q]
        BY <1>5, <3>1 DEF Actors
      <4> QED BY <1>6, <2>1, <4>1 DEF Invariant, OvertakenLoses, Owns
    <3>2. CASE q = r
      <4>1. Engine = "postgres" /\ (canceller = job.token \/ job.cancel) /\ job.token >= 1
        BY <2>1 DEF Invariant, OvertakenLoses, OneClaim
      <4>2. ~Owns(r)
        BY <1>1, <1>2, <1>3, <1>5, <2>1, <3>2, <4>1 DEF NoToken
      <4> QED BY <1>3, <1>5, <1>6, <3>2, <4>2 DEF Owns
    <3> QED BY <3>1, <3>2
  <2> QED BY <1>6, <2>1 DEF Invariant, OvertakenLoses
<1>13. EffectsMatchReceipt' /\ Commits' /\ SuccessHasReceipt'
  BY <1>6 DEF Invariant, EffectsMatchReceipt, Commits, JobCommitsUnderItsClaim,
              OuterCommitsInTime, SuccessHasReceipt
<1> QED BY <1>7, <1>8, <1>10, <1>11, <1>12, <1>13 DEF Invariant

\* A Job that succeeds has the receipt, and no cancellation was stored behind its commit.
LEMMA SettleKeeps ==
    ASSUME Invariant, NEW r \in Runtimes, Settle(r)
    PROVE  Invariant'
<1> USE ActorAssumption
<1>0. r \in Actors /\ r \notin Callers
  BY DEF Actors
<1>1. tx[r] \in TxStates /\ Sound(r) /\ r # "none" /\ TypeOK /\ job \in JobStates
      /\ job.token \in Nat
  BY <1>0, InvariantOf
<1>2. PICK s \in {"succeeded", "cancelled", "queued"} :
        /\ s = "succeeded" => tx[r].pc = "returned"
        /\ \/ job' = job /\ ~Owns(r)
           \/ job' = [job EXCEPT !.left = 0, !.cancel = FALSE, !.status = s] /\ Owns(r)
  BY DEF Settle
<1>3. /\ job' \in JobStates /\ job'.token = job.token
      /\ \/ job' = job /\ ~Owns(r)
         \/ job'.status = s /\ Owns(r)
  <2>1. CASE job' = job /\ ~Owns(r)
    BY <1>1, <2>1
  <2>2. CASE job' = [job EXCEPT !.left = 0, !.cancel = FALSE, !.status = s] /\ Owns(r)
    <3>1. job' \in JobStates
      BY <1>1, <2>2 DEF JobStates
    <3>2. job'.token = job.token /\ job'.status = s
      BY <1>1, <2>2 DEF JobStates
    <3> QED BY <2>2, <3>1, <3>2
  <2> QED BY <1>2, <2>1, <2>2
<1>4. /\ jobLock = "none" /\ tx[r].pc \in {"returned", "failed"}
      /\ UNCHANGED <<db, resLock, jobLock, canceller, overtaken, commits, faults>>
      /\ tx' = [tx EXCEPT ![r] = Idle]
  BY DEF Settle
<1>5. Idle \in TxStates /\ Idle.pc = "idle" /\ Idle.token = NoToken
  BY DEF Idle, TxStates, NoToken
<1>6. tx'[r] = Idle /\ \A b \in Actors : b # r => tx'[b] = tx[b]
  BY <1>0, <1>1, <1>4 DEF TypeOK
<1>7. TypeOK'
  BY <1>1, <1>3, <1>4, <1>5 DEF TypeOK
<1>8. ASSUME NEW b \in Actors, b # r PROVE Sound(b)'
  <2>1. Keeps(r, b)
    BY <1>1, <1>3, <1>4, <1>6, <1>8 DEF Keeps, Alike
  <2> QED BY <1>1, <1>7, <1>8, <2>1, OthersStaySound DEF Invariant
<1>9. Sound(r)'
  BY <1>0, <1>1, <1>4, <1>5, <1>6 DEF Sound, Attempt, Locked, Ended, Outside
<1>10. OneClaim'
  BY <1>2, <1>3, <1>5, <1>6 DEF Invariant, OneClaim, Actors
<1>11. SuccessHasReceipt'
  BY <1>1, <1>2, <1>3, <1>4 DEF Invariant, SuccessHasReceipt, Sound, Attempt, Ended
<1>12. OvertakenLoses'
  <2>1. ASSUME NEW q \in Runtimes, tx'[q].pc = "returned" PROVE tx'[q] = tx[q]
    BY <1>5, <1>6, <2>1 DEF Actors
  <2>2. CASE job' = job
    BY <1>4, <2>1, <2>2 DEF Invariant, OvertakenLoses, Owns
  <2>3. CASE job'.status = s /\ Owns(r)
    <3>1. overtaken => tx[r].pc # "returned"
      BY <2>3 DEF Invariant, OvertakenLoses, Owns
    <3> QED BY <1>2, <1>4, <2>3, <3>1 DEF Invariant, OvertakenLoses
  <2> QED BY <1>3, <2>2, <2>3
<1>13. EffectsMatchReceipt' /\ Commits'
  BY <1>4 DEF Invariant, EffectsMatchReceipt, Commits, JobCommitsUnderItsClaim,
              OuterCommitsInTime
<1> QED BY <1>7, <1>8, <1>9, <1>10, <1>11, <1>12, <1>13 DEF Invariant

\* Steps of nobody's transaction: the row of the Job changes only when nobody has locked it,
\* and no transaction moves.
LEMMA NobodysStep ==
    ASSUME Invariant, TypeOK', SameClaim \/ jobLock = "none",
           UNCHANGED <<db, resLock, jobLock, overtaken, commits>>,
           \A b \in Actors : Alike(tx[b], tx'[b]),
           job'.token = job.token,
           job'.status = "succeeded" => job.status = "succeeded",
           job'.status = "running" => job.status = "running",
           overtaken /\ job'.status = "running" => canceller' = job.token \/ job'.cancel
    PROVE  Invariant'
<1> USE ActorAssumption
<1>1. TypeOK /\ job.token \in Nat
  BY DEF Invariant, TypeOK, JobStates
<1>2. ASSUME NEW b \in Actors PROVE Sound(b)'
  <2>1. b # "none" /\ Sound(b)
    BY DEF Invariant
  <2>2. Keeps("none", b)
    BY <1>1, <2>1 DEF Keeps
  <2> QED BY <1>1, <2>1, <2>2, OthersStaySound
<1>3. \A r \in Runtimes : tx'[r].token = tx[r].token /\ tx'[r].pc = tx[r].pc
  BY DEF Alike, Actors
<1>4. OneClaim'
  BY <1>3 DEF Invariant, OneClaim
<1>5. OvertakenLoses'
  BY <1>3 DEF Invariant, OvertakenLoses, Owns
<1>6. EffectsMatchReceipt' /\ Commits' /\ SuccessHasReceipt'
  BY DEF Invariant, EffectsMatchReceipt, Commits, JobCommitsUnderItsClaim,
         OuterCommitsInTime, SuccessHasReceipt
<1> QED BY <1>2, <1>4, <1>5, <1>6 DEF Invariant

LEMMA CancelKeeps ==
    ASSUME Invariant, RequestCancel \/ GrantCancel \/ RecoverLease
    PROVE  Invariant'
<1>1. TypeOK /\ job \in JobStates /\ \A b \in Actors : Alike(tx[b], tx[b])
  BY DEF Invariant, TypeOK, Alike
<1>2. CASE RequestCancel
  <2>1. TypeOK' /\ UNCHANGED <<job, db, resLock, jobLock, tx, overtaken, commits>>
    BY <1>1, <1>2 DEF RequestCancel, TypeOK, JobStates
  <2>2. overtaken => (job'.status = "running" => canceller' = job.token \/ job'.cancel)
    BY <1>2 DEF RequestCancel
  <2> QED BY <1>1, <2>1, <2>2, NobodysStep DEF SameClaim
<1>3. CASE GrantCancel
  <2>1. job' \in JobStates /\ job'.token = job.token /\ job'.status = job.status
        /\ (job.cancel => job'.cancel)
        /\ (job.status = "running" /\ job.token = canceller => job'.cancel)
    BY <1>1, <1>3 DEF GrantCancel, JobStates
  <2>2. TypeOK' /\ UNCHANGED <<db, resLock, jobLock, tx, overtaken, commits>> /\ jobLock = "none"
    BY <1>1, <1>3, <2>1 DEF GrantCancel, TypeOK, NoToken
  <2>3. overtaken => (job'.status = "running" => canceller' = job.token \/ job'.cancel)
    BY <2>1 DEF Invariant, OvertakenLoses
  <2> QED BY <1>1, <2>1, <2>2, <2>3, NobodysStep
<1>4. CASE RecoverLease
  <2>1. PICK s \in {"cancelled", "queued"} : job' = [job EXCEPT !.status = s, !.cancel = FALSE]
    BY <1>4 DEF RecoverLease
  <2>2. job' \in JobStates /\ job'.token = job.token /\ job'.status = s
    BY <1>1, <2>1 DEF JobStates
  <2>3. TypeOK' /\ UNCHANGED <<db, resLock, jobLock, tx, overtaken, commits>> /\ jobLock = "none"
    BY <1>1, <1>4, <2>2 DEF RecoverLease, TypeOK
  <2> QED BY <1>1, <2>2, <2>3, NobodysStep
<1> QED BY <1>2, <1>3, <1>4

LEMMA TickKeeps ==
    ASSUME Invariant, Tick
    PROVE  Invariant'
<1>1. TypeOK /\ job \in JobStates
  BY DEF Invariant, TypeOK
<1>2. job' \in JobStates /\ SameClaim
  BY <1>1 DEF Tick, JobStates, SameClaim
<1>3. ASSUME NEW b \in Actors PROVE Passed(b) \in TxStates /\ Alike(tx[b], Passed(b))
  <2>1. PICK m \in Nat, p \in BOOLEAN :
          Passed(b) = [tx[b] EXCEPT !.left = m, !.aborted = p] /\ (tx[b].aborted => p)
    <3>1. tx[b] \in TxStates
      BY <1>1 DEF TypeOK
    <3>2. (IF tx[b].left > 0 THEN tx[b].left - 1 ELSE 0) \in Nat
      BY <3>1 DEF TxStates
    <3> QED BY <3>1, <3>2 DEF Passed, TxStates
  <2>2. tx[b] \in TxStates
    BY <1>1 DEF TypeOK
  <2> QED BY <2>1, <2>2 DEF TxStates, Alike
<1>4. \A b \in Actors : tx'[b] = Passed(b)
  BY DEF Tick
<1>5. tx' \in [Actors -> TxStates]
  BY <1>3 DEF Tick
<1>6. TypeOK' /\ UNCHANGED <<db, resLock, jobLock, canceller, overtaken, commits>>
  BY <1>1, <1>2, <1>5 DEF Tick, TypeOK
<1>7. overtaken => (job'.status = "running" => canceller' = job.token \/ job'.cancel)
  BY <1>2, <1>6 DEF Invariant, OvertakenLoses, SameClaim
<1> QED BY <1>2, <1>3, <1>4, <1>6, <1>7, NobodysStep DEF SameClaim

-----------------------------------------------------------------------------
(* The theorems                                                            *)

LEMMA InitIsSound ==
    ASSUME Init
    PROVE  Invariant
<1> USE ActorAssumption
<1>1. Idle \in TxStates /\ Idle.pc = "idle" /\ Idle.token = NoToken
  BY DEF Idle, TxStates, NoToken
<1>2. \A a \in Actors : tx[a] = Idle
  BY DEF Init
<1>3. TypeOK
  BY <1>1 DEF Init, TypeOK, JobStates, DbStates, NoToken
<1>4. \A a \in Actors : Sound(a)
  BY <1>1, <1>2 DEF Init, Sound, Attempt, Scope, Locked, Ended
<1>5. OneClaim
  BY <1>1, <1>2 DEF Init, OneClaim, Actors
<1>6. EffectsMatchReceipt /\ Commits /\ SuccessHasReceipt /\ OvertakenLoses
  BY DEF Init, EffectsMatchReceipt, Commits, JobCommitsUnderItsClaim,
         OuterCommitsInTime, SuccessHasReceipt, OvertakenLoses
<1> QED BY <1>3, <1>4, <1>5, <1>6 DEF Invariant

LEMMA StutterKeeps ==
    ASSUME Invariant, UNCHANGED vars
    PROVE  Invariant'
<1>1. TypeOK' /\ UNCHANGED <<job, db, resLock, jobLock, canceller, overtaken, commits>>
  BY DEF vars, Invariant, TypeOK
<1>2. SameClaim /\ \A b \in Actors : Alike(tx[b], tx'[b])
  BY DEF vars, SameClaim, Alike
<1>3. overtaken => (job'.status = "running" => canceller' = job.token \/ job'.cancel)
  BY <1>1 DEF Invariant, OvertakenLoses
<1> QED BY <1>1, <1>2, <1>3, NobodysStep DEF SameClaim

LEMMA NextKeeps ==
    ASSUME Invariant, [Next]_vars
    PROVE  Invariant'
<1>1. CASE Tick \/ RequestCancel \/ GrantCancel \/ RecoverLease
  BY <1>1, TickKeeps, CancelKeeps
<1>2. ASSUME NEW r \in Runtimes, JobStep(r) PROVE Invariant'
  BY <1>2, ClaimKeeps, EnterKeeps, EntryCheckKeeps, LookupKeeps, CallbackKeeps,
     ClaimCheckKeeps, InsertReceiptKeeps, PrecommitKeeps, ApplyJobCommitKeeps,
     RereadKeeps, SettleKeeps
  DEF JobStep
<1>3. ASSUME NEW r \in Runtimes, CommitFails(r) \/ Abort(r) PROVE Invariant'
  BY <1>3, CommitFailsKeeps, AbortKeeps
<1>4. ASSUME NEW c \in Callers, OuterStep(c) PROVE Invariant'
  BY <1>4, BeginOuterKeeps, AcquireOuterKeeps, LookupOuterKeeps, CallbackOuterKeeps,
     InsertReceiptOuterKeeps, EndHandlerKeeps, CommitOuterKeeps
  DEF OuterStep
<1>5. ASSUME NEW a \in Actors, CommitReply(a) \/ Crash(a) PROVE Invariant'
  BY <1>5, CommitReplyKeeps, CrashKeeps
<1> QED BY <1>1, <1>2, <1>3, <1>4, <1>5, StutterKeeps DEF Next

LEMMA SpecIsSound == Spec => []Invariant
<1> QED BY InitIsSound, NextKeeps, PTL DEF Spec

\* Over every interleaving of attempts, replays, lost COMMIT replies, crashes and competing
\* handlers the operation takes effect at most once, with its receipt; and no transaction
\* that ended keeps a lock.
THEOREM TheOperationRunsOnce == Spec => []EffectsMatchReceipts
<1>1. ASSUME Invariant PROVE EffectsMatchReceipts
  BY <1>1 DEF Invariant, EffectsMatchReceipts, LocksHaveOwners, Sound, Outside
<1> QED BY <1>1, SpecIsSound, PTL

\* What a Job commits it commits under its claim, what a handler commits it commits in time;
\* a Job that succeeded has its effect, and a cancellation queued behind its commit is not
\* lost.
THEOREM CommitsAreAlwaysEntitled == Spec => []CommitsAreEntitled
<1>1. ASSUME Invariant PROVE CommitsAreEntitled
  BY <1>1 DEF Invariant, Commits, CommitsAreEntitled, QueuedCancelWins, OvertakenLoses
<1> QED BY <1>1, SpecIsSound, PTL

\* While an attempt is at COMMIT its claim cannot be taken from it: the row of the Job is
\* locked, and every other change of it waits.
CommitHoldsClaim ==
  \A r \in Runtimes : tx[r].pc = "commit" => ClaimHeld(r) /\ jobLock = r

THEOREM ClaimOutlivesCommit == Spec => []CommitHoldsClaim
<1>1. ASSUME Invariant PROVE CommitHoldsClaim
  BY <1>1 DEF Invariant, Sound, Attempt, Locked, Actors, CommitHoldsClaim
<1> QED BY <1>1, SpecIsSound, PTL

-----------------------------------------------------------------------------
(* Notification intents: the inductive invariant                           *)

\* An idle worker holds nothing; one that attempts holds a number its recipient has had.
WorkerHolds(r) ==
  /\ wk[r].pc \in Intent!Attempting =>
       wk[r].to \in Recipients /\ wk[r].seq \in 1..row[wk[r].to].count
  /\ wk[r].pc = "arm" => wk[r].wait <= RecoveryScan
  /\ phase[r] = "down" => wk[r].pc = "idle"

\* A number is reserved once: no two workers attempt under the same one.
NumbersAreUnique ==
  \A r, s \in Runtimes :
    (/\ r # s /\ wk[r].pc \in Intent!Attempting /\ wk[s].pc \in Intent!Attempting
     /\ wk[r].to = wk[s].to) => wk[r].seq # wk[s].seq

\* A row is reserved for its last attempt, whose diagnostic is the only one, and is
\* finished before the recipient waits again.
RowMatchesAttempts(q) ==
  /\ row[q].state \in {"absent", "accepted"} => row[q].count = 0 /\ attempts[q] = {}
  /\ row[q].state = "submitting" =>
       /\ row[q].token = row[q].count
       /\ attempts[q] = {[seq |-> row[q].count, outcome |-> "submitting"]}
  /\ \A a \in attempts[q] : a.seq = row[q].count
  /\ \A a, b \in attempts[q] : a = b
  /\ row[q].state \in Intent!Waiting => \A a \in attempts[q] : a.outcome # "submitting"

\* The worker that attempts under the current reservation of q.
Holds(r, q) ==
  wk[r].pc \in Intent!Attempting /\ wk[r].to = q /\ Intent!Current(r)

\* The workers whose message may still reach the receiver.
Sending(q) == {r \in Runtimes : wk[r].pc \in {"submit", "sending"} /\ wk[r].to = q}

\* What else leads to another verdict without a fault, while r holds the reservation: its
\* expiry, which a fault delayed; an attempt that has not begun, or that will be retried; a
\* stop that was counted, and after which the conversation may be given up.
OwedBy(r, q) ==
  (IF row[q].wait = 0 THEN 1 ELSE 0)
  + (IF wk[r].pc \in {"check", "unknown"} THEN 1 ELSE 0)
  + (IF ~Intent!Up(r) /\ wk[r].pc \in {"sending", "accepted"} THEN 1 ELSE 0)

\* The reservation of q is held by r, and if by nobody it will expire.
Owed(q, n) ==
  \/ row[q].state \in Intent!Final /\ n = 0
  \/ row[q].state \in {"absent"} \cup Intent!Waiting /\ n = 1
  \/ row[q].state = "submitting" /\ n = 1 /\ \A r \in Runtimes : ~Holds(r, q)
  \/ row[q].state = "submitting" /\ \E r \in Runtimes : Holds(r, q) /\ n = OwedBy(r, q)

\* The verdicts on q, with those that may still come without a fault, are paid for.
VerdictsArePaid(q) ==
  \E n \in 0..3 : Owed(q, n) /\ verdicts[q] + Cardinality(Sending(q)) + n <= 1 + faults

IntentInvariant ==
  /\ Intent!TypeOK
  /\ \A r \in Runtimes : WorkerHolds(r)
  /\ NumbersAreUnique
  /\ \A q \in Recipients : RowMatchesAttempts(q)
  /\ Intent!PositiveReplyIsKept
  /\ Intent!TimerMatchesPhase
  /\ \A q \in Recipients : VerdictsArePaid(q)

Workers == [pc : Intent!Pcs, to : Recipients \cup {"none"}, seq : Nat, wait : Nat]
Rows == [state : {"absent"} \cup Intent!Pending \cup Intent!Final,
         count : Nat, token : Nat, wait : Nat]

\* FiniteSets as NotificationIntents sees it.
LEMMA SameCardinality ==
  /\ \A S : Intent!IsFiniteSet(S) <=> IsFiniteSet(S)
  /\ \A S : Intent!Cardinality(S) = Cardinality(S)
BY DEF Intent!IsFiniteSet, IsFiniteSet, Intent!Cardinality, Cardinality

LEMMA PowersOfTwo == \A n \in 0..7 : 2^n \in Nat
<1>1. 2^0 \in Nat /\ 2^1 \in Nat /\ 2^2 \in Nat /\ 2^3 \in Nat
  OBVIOUS
<1>2. 2^4 \in Nat /\ 2^5 \in Nat /\ 2^6 \in Nat /\ 2^7 \in Nat
  OBVIOUS
<1>3. SUFFICES ASSUME NEW n \in 0..7 PROVE 2^n \in Nat
  OBVIOUS
<1>4. n = 0 \/ n = 1 \/ n = 2 \/ n = 3 \/ n = 4 \/ n = 5 \/ n = 6 \/ n = 7
  OBVIOUS
<1>5. CASE n = 0 BY <1>1, <1>5
<1>6. CASE n = 1 BY <1>1, <1>6
<1>7. CASE n = 2 BY <1>1, <1>7
<1>8. CASE n = 3 BY <1>1, <1>8
<1>9. CASE n = 4 BY <1>2, <1>9
<1>10. CASE n = 5 BY <1>2, <1>10
<1>11. CASE n = 6 BY <1>2, <1>11
<1>12. CASE n = 7 BY <1>2, <1>12
<1> QED BY <1>4, <1>5, <1>6, <1>7, <1>8, <1>9, <1>10, <1>11, <1>12

\* The back-off is a number of ticks, whatever the number of attempts.
LEMMA RetryDelayIsNat ==
  ASSUME NEW n \in Nat PROVE Intent!notificationRetryDelay(n) \in Nat
<1>1. RetryBase \in Nat /\ MaxBackoff \in Nat
  BY IntentAssumption DEF Intent!TimingAssumption
<1> DEFINE k == Intent!Lower((IF n > 1 THEN n ELSE 1) - 1, 7)
<1>2. k \in 0..7
  BY DEF Intent!Lower
<1> HIDE DEF k
<1>3. 2^k \in Nat
  BY <1>2, PowersOfTwo
<1> DEFINE d == 2^k
<1>4. d \in Nat
  BY <1>3
<1> HIDE DEF d
<1>5. RetryBase * d \in Nat
  BY <1>1, <1>4
<1>6. Intent!Lower(RetryBase * d, MaxBackoff) \in Nat
  BY <1>1, <1>5 DEF Intent!Lower
<1> QED BY <1>6 DEF d, k, Intent!notificationRetryDelay

LEMMA MinOfNats ==
  ASSUME NEW S \in SUBSET Nat, S # {} PROVE Intent!Min(S) \in S
<1> DEFINE before == {ss \in Nat \X Nat : ss[1] < ss[2]}
<1>1. IsWellFoundedOn(before, Nat)
  BY NatLessThanWellFounded DEF OpToRel
<1>2. \A x, y \in Nat : y < x => <<y, x>> \in before
  OBVIOUS
<1> HIDE DEF before
<1>3. \E x \in S : \A y \in S : ~(<<y, x>> \in before)
  BY <1>1, WFMin
<1>4. \A x, y \in S : ~(<<y, x>> \in before) => x <= y
  BY <1>2
<1>5. \E x \in S : \A y \in S : x <= y
  BY <1>3, <1>4
<1> QED BY <1>5 DEF Intent!Min

LEMMA AtAStep ==
  ASSUME NEW pc \in Intent!Pcs
  PROVE  /\ Intent!At(pc) \in Workers
         /\ Intent!At(pc).pc = pc /\ Intent!At(pc).wait = 0
BY DEF Intent!At, Intent!Idle, Intent!None, Workers

LEMMA IdleAndLoopHead ==
  ASSUME NEW r \in Runtimes
  PROVE  /\ Intent!Idle \in Workers /\ Intent!Idle.pc = "idle"
         /\ Intent!LoopHead(r) \in Workers
         /\ Intent!LoopHead(r).pc = IF Intent!Up(r) THEN "recover" ELSE "idle"
<1>1. "idle" \in Intent!Pcs /\ "recover" \in Intent!Pcs
  BY DEF Intent!Pcs
<1>2. Intent!Idle \in Workers /\ Intent!Idle.pc = "idle"
  BY <1>1 DEF Intent!Idle, Intent!None, Workers
<1> QED BY <1>1, <1>2, AtAStep DEF Intent!LoopHead

\* The workers that may still send to q, when one worker moves on.
LEMMA SendingMoves ==
  ASSUME NEW q, NEW r \in Runtimes, NEW w \in Workers,
         wk \in [Runtimes -> Workers], wk' = [wk EXCEPT ![r] = w]
  PROVE  /\ Cardinality(Sending(q)) \in Nat
         /\ Sending(q)' = IF w.pc \in {"submit", "sending"} /\ w.to = q
                          THEN Sending(q) \cup {r} ELSE Sending(q) \ {r}
         /\ Cardinality(Sending(q) \cup {r}) =
              Cardinality(Sending(q)) + (IF r \in Sending(q) THEN 0 ELSE 1)
         /\ Cardinality(Sending(q) \ {r}) =
              Cardinality(Sending(q)) - (IF r \in Sending(q) THEN 1 ELSE 0)
<1>1. IsFiniteSet(Sending(q))
  BY IntentAssumption, SameCardinality, FS_Subset DEF Intent!TimingAssumption, Sending
<1>2. Cardinality(Sending(q)) \in Nat
  BY <1>1, FS_CardinalityType
<1>3. Sending(q)' = IF w.pc \in {"submit", "sending"} /\ w.to = q
                    THEN Sending(q) \cup {r} ELSE Sending(q) \ {r}
  BY DEF Sending
<1>4. Cardinality(Sending(q) \cup {r}) =
        IF r \in Sending(q) THEN Cardinality(Sending(q)) ELSE Cardinality(Sending(q)) + 1
  BY <1>1, FS_AddElement
<1>5. Cardinality(Sending(q) \ {r}) =
        IF r \in Sending(q) THEN Cardinality(Sending(q)) - 1 ELSE Cardinality(Sending(q))
  BY <1>1, FS_RemoveElement
<1> QED BY <1>2, <1>3, <1>4, <1>5

\* One worker at most attempts under the current reservation.
LEMMA OneHolder ==
  ASSUME IntentInvariant, NEW q \in Recipients, NEW r \in Runtimes, NEW s \in Runtimes,
         Holds(r, q), Holds(s, q)
  PROVE  r = s
BY DEF IntentInvariant, NumbersAreUnique, Holds, Intent!Current

\* What is owed, read off the worker that holds the reservation.
LEMMA OwedByHolder ==
  ASSUME IntentInvariant, NEW q \in Recipients, NEW r \in Runtimes, Holds(r, q),
         NEW n, Owed(q, n)
  PROVE  row[q].state = "submitting" /\ n = OwedBy(r, q)
<1>1. row[q].state = "submitting"
  BY DEF Holds, Intent!Current
<1>2. PICK s \in Runtimes : Holds(s, q) /\ n = OwedBy(s, q)
  BY <1>1 DEF Owed, Intent!Final, Intent!Waiting
<1>3. s = r
  BY <1>2, OneHolder
<1> QED BY <1>1, <1>2, <1>3

\* Whether x still sends to q.
Sends(x, q) == IF x.pc \in {"submit", "sending"} /\ x.to = q THEN 1 ELSE 0

LEMMA SendingCounts ==
  ASSUME wk \in [Runtimes -> Workers], NEW q, NEW r \in Runtimes, NEW w \in Workers,
         wk' = [wk EXCEPT ![r] = w]
  PROVE  /\ Cardinality(Sending(q)) \in Nat /\ Cardinality(Sending(q)') \in Int
         /\ Cardinality(Sending(q)') = Cardinality(Sending(q)) + Sends(w, q) - Sends(wk[r], q)
         /\ Sends(w, q) \in {0, 1} /\ Sends(wk[r], q) \in {0, 1}
<1> DEFINE c == Cardinality(Sending(q))
<1> DEFINE d == Cardinality(Sending(q)')
<1>2. c \in Nat /\ d \in Int /\ d = c + Sends(w, q) - Sends(wk[r], q)
  <2>1. Sends(wk[r], q) = IF r \in Sending(q) THEN 1 ELSE 0
    BY DEF Sends, Sending
  <2>2. CASE w.pc \in {"submit", "sending"} /\ w.to = q
    <3>1. Sending(q)' = Sending(q) \cup {r}
      BY <2>2, SendingMoves
    <3>2. d = c + (IF r \in Sending(q) THEN 0 ELSE 1) /\ c \in Nat
      BY <3>1, SendingMoves
    <3> QED BY <2>1, <2>2, <3>2 DEF Sends
  <2>3. CASE ~(w.pc \in {"submit", "sending"} /\ w.to = q)
    <3>1. Sending(q)' = Sending(q) \ {r}
      BY <2>3, SendingMoves
    <3>2. d = c - (IF r \in Sending(q) THEN 1 ELSE 0) /\ c \in Nat
      BY <3>1, SendingMoves
    <3> QED BY <2>1, <2>3, <3>2 DEF Sends
  <2> QED BY <2>2, <2>3
<1>3. Sends(w, q) \in {0, 1} /\ Sends(wk[r], q) \in {0, 1}
  BY DEF Sends
<1> QED BY <1>2, <1>3

LEMMA OwedByRange ==
  ASSUME NEW r, NEW q PROVE OwedBy(r, q) \in 0..3
BY DEF OwedBy

\* A worker keeps the attempt it makes, or ends it.
Continues(r, w) ==
  w.pc \in Intent!Attempting =>
    wk[r].pc \in Intent!Attempting /\ w.to = wk[r].to /\ w.seq = wk[r].seq

\* Faults of a step pay for what it costs: a verdict, an attempt that does not settle its
\* recipient, a stop during a conversation.
Affordable(r, w, q) ==
  /\ ~Holds(r, q) =>
       verdicts'[q] + Sends(w, q) <= verdicts[q] + Sends(wk[r], q) + (faults' - faults)
  /\ Holds(r, q) /\ w.pc \in Intent!Attempting =>
       verdicts'[q] + Sends(w, q) + OwedBy(r, q)'
         <= verdicts[q] + Sends(wk[r], q) + OwedBy(r, q) + (faults' - faults)
  /\ Holds(r, q) /\ w.pc \notin Intent!Attempting =>
       verdicts'[q] + 1 <= verdicts[q] + Sends(wk[r], q) + OwedBy(r, q) + (faults' - faults)

\* Verdicts remain paid for when one worker moves on and the row stays.
LEMMA WorkerMoves ==
  ASSUME IntentInvariant, NEW r \in Runtimes, NEW w \in Workers, NEW q \in Recipients,
         wk' = [wk EXCEPT ![r] = w], row'[q] = row[q],
         \A s \in Runtimes \ {r} : phase'[s] = phase[s],
         verdicts'[q] \in Nat, faults' \in Nat,
         Continues(r, w), Affordable(r, w, q)
  PROVE  VerdictsArePaid(q)'
<1> DEFINE c == Cardinality(Sending(q))
<1> DEFINE d == Cardinality(Sending(q)')
<1>1. wk \in [Runtimes -> Workers] /\ verdicts[q] \in Nat /\ faults \in Nat
  BY DEF IntentInvariant, Intent!TypeOK, Workers
<1>2. c \in Nat /\ d \in Int /\ d = c + Sends(w, q) - Sends(wk[r], q)
  BY <1>1, SendingCounts
<1>3. PICK n \in 0..3 : Owed(q, n) /\ verdicts[q] + c + n <= 1 + faults
  BY DEF IntentInvariant, VerdictsArePaid
<1>4. wk'[r] = w /\ \A s \in Runtimes \ {r} : wk'[s] = wk[s]
  BY <1>1
<1>5. \A s \in Runtimes \ {r} :
        /\ Holds(s, q)' <=> Holds(s, q)
        /\ OwedBy(s, q)' = OwedBy(s, q)
  BY <1>4 DEF Holds, Intent!Current, OwedBy, Intent!Up
<1>6. Holds(r, q)' <=> Holds(r, q) /\ w.pc \in Intent!Attempting
  BY <1>4 DEF Holds, Intent!Current, Continues
<1>7. Sends(w, q) \in {0, 1} /\ Sends(wk[r], q) \in {0, 1}
  BY DEF Sends
<1>8. \A s \in Runtimes : OwedBy(s, q) \in 0..3 /\ OwedBy(s, q)' \in 0..3
  BY OwedByRange DEF OwedBy
<1> HIDE DEF c, d
<1>9. SUFFICES \E m \in 0..3 : Owed(q, m)' /\ verdicts'[q] + d + m <= 1 + faults'
  BY DEF VerdictsArePaid, d
<1>10. CASE ~Holds(r, q)
  <2>1. Owed(q, n)'
    BY <1>3, <1>5, <1>6, <1>10 DEF Owed
  <2>2. verdicts'[q] + d + n <= 1 + faults'
    BY <1>1, <1>2, <1>3, <1>7, <1>10 DEF Affordable
  <2> QED BY <2>1, <2>2
<1>11. CASE Holds(r, q) /\ w.pc \in Intent!Attempting
  <2>1. row[q].state = "submitting" /\ n = OwedBy(r, q)
    BY <1>3, <1>11, OwedByHolder
  <2>2. PICK m \in 0..3 : m = OwedBy(r, q)'
    BY <1>8
  <2>3. Owed(q, m)'
    BY <1>6, <1>11, <2>1, <2>2 DEF Owed
  <2>4. verdicts'[q] + d + m <= 1 + faults'
    BY <1>1, <1>2, <1>3, <1>7, <1>8, <1>11, <2>1, <2>2 DEF Affordable
  <2> QED BY <2>3, <2>4
<1>12. CASE Holds(r, q) /\ w.pc \notin Intent!Attempting
  <2>1. row[q].state = "submitting" /\ n = OwedBy(r, q)
    BY <1>3, <1>12, OwedByHolder
  <2>2. \A s \in Runtimes \ {r} : ~Holds(s, q)
    BY <1>12, OneHolder
  <2>3. \A s \in Runtimes : ~Holds(s, q)'
    BY <1>5, <1>6, <1>12, <2>2
  <2>4. Owed(q, 1)'
    BY <2>1, <2>3 DEF Owed
  <2>5. Sends(w, q) = 0
    BY <1>12 DEF Sends, Intent!Attempting
  <2>6. verdicts'[q] + d + 1 <= 1 + faults'
    BY <1>1, <1>2, <1>3, <1>7, <1>12, <2>1, <2>5 DEF Affordable
  <2> QED BY <2>4, <2>6
<1> QED BY <1>10, <1>11, <1>12

\* A step of one worker that leaves the store alone keeps the invariant.
LEMMA ControlStep ==
  ASSUME IntentInvariant, NEW r \in Runtimes, NEW w \in Workers,
         wk' = [wk EXCEPT ![r] = w], UNCHANGED <<row, attempts, confirmed>>,
         phase' \in [Runtimes -> {"down", "up", "stopping"}],
         timer' \in [Runtimes -> Nat \cup {Intent!NoTimer}],
         \A s \in Runtimes \ {r} : phase'[s] = phase[s] /\ timer'[s] = timer[s],
         verdicts' \in [Recipients -> Nat], faults' \in Nat,
         w.pc = "arm" => w.wait <= RecoveryScan,
         phase'[r] = "down" => w.pc = "idle",
         (phase'[r] = "up" /\ w.pc = "idle") => timer'[r] \in 0..RecoveryScan,
         phase'[r] # "up" => timer'[r] = Intent!NoTimer,
         Continues(r, w), \A q \in Recipients : Affordable(r, w, q)
  PROVE  IntentInvariant'
<1>1. wk \in [Runtimes -> Workers]
  BY DEF IntentInvariant, Intent!TypeOK, Workers
<1>2. wk' \in [Runtimes -> Workers] /\ wk'[r] = w /\ \A s \in Runtimes \ {r} : wk'[s] = wk[s]
  BY <1>1
<1>3. Intent!TypeOK'
  BY <1>2 DEF IntentInvariant, Intent!TypeOK, Workers
<1>4. \A s \in Runtimes : WorkerHolds(s)'
  <2>1. WorkerHolds(r)'
    BY <1>2 DEF IntentInvariant, WorkerHolds, Continues
  <2>2. ASSUME NEW s \in Runtimes \ {r} PROVE WorkerHolds(s)'
    BY <1>2, <2>2 DEF IntentInvariant, WorkerHolds
  <2> QED BY <2>1, <2>2
<1>5. NumbersAreUnique'
  <2>1. \A s \in Runtimes : Continues(s, wk'[s])
    BY <1>2 DEF Continues
  <2> QED BY <2>1 DEF IntentInvariant, NumbersAreUnique, Continues
<1>6. \A q \in Recipients : RowMatchesAttempts(q)'
  BY DEF IntentInvariant, RowMatchesAttempts
<1>7. Intent!PositiveReplyIsKept'
  BY DEF IntentInvariant, Intent!PositiveReplyIsKept
<1>8. Intent!TimerMatchesPhase'
  BY <1>2 DEF IntentInvariant, Intent!TimerMatchesPhase, Intent!Up
<1>9. \A q \in Recipients : VerdictsArePaid(q)'
  <2>1. TAKE q \in Recipients
  <2>2. verdicts'[q] \in Nat
    OBVIOUS
  <2> QED BY <2>2, WorkerMoves
<1> QED BY <1>3, <1>4, <1>5, <1>6, <1>7, <1>8, <1>9 DEF IntentInvariant

\* A step that also leaves the timers and the phases alone.
LEMMA QuietStep ==
  ASSUME IntentInvariant, NEW r \in Runtimes, NEW w \in Workers,
         wk' = [wk EXCEPT ![r] = w], UNCHANGED <<row, attempts, confirmed, phase, timer>>,
         verdicts' \in [Recipients -> Nat], faults' \in Nat,
         w.pc = "arm" => w.wait <= RecoveryScan,
         w.pc = "idle" => phase[r] # "up", phase[r] = "down" => wk[r].pc = "idle" /\ w.pc = "idle",
         Continues(r, w), \A q \in Recipients : Affordable(r, w, q)
  PROVE  IntentInvariant'
<1>1. /\ phase \in [Runtimes -> {"down", "up", "stopping"}]
      /\ timer \in [Runtimes -> Nat \cup {Intent!NoTimer}]
      /\ phase[r] # "up" => timer[r] = Intent!NoTimer
  BY DEF IntentInvariant, Intent!TypeOK, Intent!TimerMatchesPhase, Intent!Up
<1> QED BY <1>1, ControlStep

LEMMA IntentFacts ==
  ASSUME IntentInvariant, NEW r \in Runtimes
  PROVE  /\ wk \in [Runtimes -> Workers] /\ row \in [Recipients -> Rows]
         /\ verdicts \in [Recipients -> Nat] /\ faults \in Nat
         /\ phase \in [Runtimes -> {"down", "up", "stopping"}]
         /\ timer \in [Runtimes -> Nat \cup {Intent!NoTimer}]
         /\ phase[r] = "down" => wk[r].pc = "idle"
         /\ phase[r] # "up" => timer[r] = Intent!NoTimer
         /\ phase[r] = "up" /\ wk[r].pc = "idle" => timer[r] \in 0..RecoveryScan
         /\ wk[r].pc \in Intent!Attempting =>
              wk[r].to \in Recipients /\ wk[r].seq \in 1..row[wk[r].to].count
BY DEF IntentInvariant, Intent!TypeOK, Workers, Rows, WorkerHolds, Intent!TimerMatchesPhase,
       Intent!Up

\* The next step of an attempt.
LEMMA AttemptMoves ==
  ASSUME IntentInvariant, NEW r \in Runtimes, NEW pc \in Intent!Attempting,
         wk[r].pc \in Intent!Attempting
  PROVE  /\ [wk[r] EXCEPT !.pc = pc] \in Workers
         /\ [wk[r] EXCEPT !.pc = pc].pc = pc /\ [wk[r] EXCEPT !.pc = pc].to = wk[r].to
         /\ Continues(r, [wk[r] EXCEPT !.pc = pc])
<1>1. wk[r] \in Workers
  BY IntentFacts
<1>2. pc \in Intent!Pcs
  BY DEF Intent!Attempting, Intent!Pcs
<1> QED BY <1>1, <1>2 DEF Workers, Continues

\* A worker at the head of the loop of its passes makes no attempt.
LEMMA LoopHeadStep ==
  ASSUME NEW r \in Runtimes
  PROVE  /\ Intent!LoopHead(r) \in Workers /\ Continues(r, Intent!LoopHead(r))
         /\ Intent!LoopHead(r).pc \in {"recover", "idle"}
         /\ Intent!LoopHead(r).pc = "idle" => phase[r] # "up"
         /\ phase[r] # "up" => Intent!LoopHead(r).pc = "idle"
BY IdleAndLoopHead DEF Continues, Intent!Up, Intent!Attempting

LEMMA ChecksAreSafe ==
  ASSUME IntentInvariant, NEW r \in Runtimes, Intent!reservationIsCurrent(r)
  PROVE  IntentInvariant'
<1>0. /\ wk[r].pc = "check" /\ phase[r] # "down"
      /\ verdicts \in [Recipients -> Nat] /\ faults \in Nat /\ wk \in [Runtimes -> Workers]
  BY IntentFacts DEF Intent!reservationIsCurrent
<1>1. CASE Intent!Current(r)
  <2> DEFINE w == [wk[r] EXCEPT !.pc = "submit"]
  <2>1. wk' = [wk EXCEPT ![r] = w]
    BY <1>1 DEF Intent!reservationIsCurrent, Intent!Goto
  <2>2. w \in Workers /\ w.pc = "submit" /\ w.to = wk[r].to /\ Continues(r, w)
    BY <1>0, AttemptMoves DEF Intent!Attempting
  <2> HIDE DEF w
  <2>3. \A q \in Recipients : Affordable(r, w, q)
    BY <1>0, <1>1, <2>1, <2>2
       DEF Affordable, Sends, OwedBy, Holds, Intent!reservationIsCurrent, Intent!Attempting,
           Intent!Up
  <2> QED BY <1>0, <2>1, <2>2, <2>3, QuietStep DEF Intent!reservationIsCurrent
<1>2. CASE ~Intent!Current(r)
  <2>1. wk' = [wk EXCEPT ![r] = Intent!LoopHead(r)]
    BY <1>2 DEF Intent!reservationIsCurrent, Intent!Goto
  <2>2. \A q \in Recipients : Affordable(r, Intent!LoopHead(r), q)
    BY <1>0, <1>2, LoopHeadStep DEF Affordable, Sends, Holds, Intent!reservationIsCurrent
  <2> QED BY <1>0, <2>1, <2>2, LoopHeadStep, QuietStep DEF Intent!reservationIsCurrent
<1> QED BY <1>1, <1>2

LEMMA SubmissionsAreSafe ==
  ASSUME IntentInvariant, NEW r \in Runtimes, Intent!Submit(r)
  PROVE  IntentInvariant'
<1>0. /\ wk[r].pc = "submit" /\ phase[r] # "down"
      /\ verdicts \in [Recipients -> Nat] /\ faults \in Nat /\ wk \in [Runtimes -> Workers]
  BY IntentFacts DEF Intent!Submit
<1>1. CASE Intent!Up(r)
  <2> DEFINE w == [wk[r] EXCEPT !.pc = "sending"]
  <2>1. wk' = [wk EXCEPT ![r] = w]
    BY <1>1 DEF Intent!Submit, Intent!Goto
  <2>2. w \in Workers /\ w.pc = "sending" /\ w.to = wk[r].to /\ Continues(r, w)
    BY <1>0, AttemptMoves DEF Intent!Attempting
  <2> HIDE DEF w
  <2>3. \A q \in Recipients : Affordable(r, w, q)
    BY <1>0, <1>1, <2>1, <2>2
       DEF Affordable, Sends, OwedBy, Holds, Intent!Submit, Intent!Attempting, Intent!Up
  <2> QED BY <1>0, <2>1, <2>2, <2>3, QuietStep DEF Intent!Submit
<1>2. CASE ~Intent!Up(r)
  <2>1. wk' = [wk EXCEPT ![r] = Intent!LoopHead(r)]
    BY <1>2 DEF Intent!Submit, Intent!Goto
  <2>2. \A q \in Recipients : Affordable(r, Intent!LoopHead(r), q)
    BY <1>0, LoopHeadStep DEF Affordable, Sends, Holds, Intent!Submit, OwedBy, Intent!Attempting
  <2> QED BY <1>0, <2>1, <2>2, LoopHeadStep, QuietStep DEF Intent!Submit
<1> QED BY <1>1, <1>2

LEMMA AcceptancesAreSafe ==
  ASSUME IntentInvariant, NEW r \in Runtimes, Intent!Accept(r)
  PROVE  IntentInvariant'
<1>0. /\ wk[r].pc = "sending" /\ wk[r].to \in Recipients /\ phase[r] # "down"
      /\ verdicts \in [Recipients -> Nat] /\ faults \in Nat /\ wk \in [Runtimes -> Workers]
  BY IntentFacts DEF Intent!Accept, Intent!Attempting
<1> DEFINE w == [wk[r] EXCEPT !.pc = "accepted"]
<1>1. wk' = [wk EXCEPT ![r] = w]
  BY DEF Intent!Accept, Intent!Goto
<1>2. w \in Workers /\ w.pc = "accepted" /\ w.to = wk[r].to /\ Continues(r, w)
  BY <1>0, AttemptMoves DEF Intent!Attempting
<1> HIDE DEF w
<1>3. PICK v \in Nat : v = verdicts[wk[r].to] + 1
  BY <1>0
<1>4. verdicts' = [verdicts EXCEPT ![wk[r].to] = v]
  BY <1>3 DEF Intent!Accept
<1>5. \A q \in Recipients : Affordable(r, w, q)
  BY <1>0, <1>1, <1>2, <1>3, <1>4
     DEF Affordable, Sends, OwedBy, Holds, Intent!Accept, Intent!Attempting, Intent!Up
<1> QED BY <1>0, <1>1, <1>2, <1>4, <1>5, QuietStep DEF Intent!Accept

LEMMA PositiveRepliesAreSafe ==
  ASSUME IntentInvariant, NEW r \in Runtimes, Intent!PositiveReply(r)
  PROVE  IntentInvariant'
<1>0. /\ wk[r].pc = "accepted" /\ phase[r] # "down"
      /\ verdicts \in [Recipients -> Nat] /\ faults \in Nat /\ wk \in [Runtimes -> Workers]
  BY IntentFacts DEF Intent!PositiveReply
<1> DEFINE w == [wk[r] EXCEPT !.pc = "acknowledged"]
<1>1. wk' = [wk EXCEPT ![r] = w]
  BY DEF Intent!PositiveReply, Intent!Goto
<1>2. w \in Workers /\ w.pc = "acknowledged" /\ w.to = wk[r].to /\ Continues(r, w)
  BY <1>0, AttemptMoves DEF Intent!Attempting
<1> HIDE DEF w
<1>3. \A q \in Recipients : Affordable(r, w, q)
  BY <1>0, <1>1, <1>2
     DEF Affordable, Sends, OwedBy, Holds, Intent!PositiveReply, Intent!Attempting, Intent!Up
<1> QED BY <1>0, <1>1, <1>2, <1>3, QuietStep DEF Intent!PositiveReply

LEMMA NegativeRepliesAreSafe ==
  ASSUME IntentInvariant, NEW r \in Runtimes, Intent!NegativeReply(r)
  PROVE  IntentInvariant'
<1>0. /\ wk[r].pc = "sending" /\ wk[r].to \in Recipients /\ phase[r] # "down"
      /\ verdicts \in [Recipients -> Nat] /\ faults \in Nat /\ wk \in [Runtimes -> Workers]
  BY IntentFacts DEF Intent!NegativeReply, Intent!Attempting
<1>3. PICK v \in Nat : v = verdicts[wk[r].to] + 1
  BY <1>0
<1>4. verdicts' = [verdicts EXCEPT ![wk[r].to] = v]
  BY <1>3 DEF Intent!NegativeReply
<1>5. CASE Intent!Up(r)
  <2> DEFINE w == [wk[r] EXCEPT !.pc = "rejected"]
  <2>1. wk' = [wk EXCEPT ![r] = w]
    BY <1>5 DEF Intent!NegativeReply, Intent!Goto
  <2>2. w \in Workers /\ w.pc = "rejected" /\ w.to = wk[r].to /\ Continues(r, w)
    BY <1>0, AttemptMoves DEF Intent!Attempting
  <2> HIDE DEF w
  <2>3. \A q \in Recipients : Affordable(r, w, q)
    BY <1>0, <1>3, <1>4, <2>1, <2>2
       DEF Affordable, Sends, OwedBy, Holds, Intent!NegativeReply, Intent!Attempting, Intent!Up
  <2> QED BY <1>0, <1>4, <2>1, <2>2, <2>3, QuietStep DEF Intent!NegativeReply
<1>6. CASE ~Intent!Up(r)
  <2>1. wk' = [wk EXCEPT ![r] = Intent!LoopHead(r)]
    BY <1>6 DEF Intent!NegativeReply, Intent!Goto
  <2>2. \A q \in Recipients : Affordable(r, Intent!LoopHead(r), q)
    BY <1>0, <1>3, <1>4, <1>6, LoopHeadStep
       DEF Affordable, Sends, Holds, Intent!NegativeReply, OwedBy, Intent!Attempting
  <2> QED BY <1>0, <1>4, <2>1, <2>2, LoopHeadStep, QuietStep DEF Intent!NegativeReply
<1> QED BY <1>5, <1>6

LEMMA AbortsAreSafe ==
  ASSUME IntentInvariant, NEW r \in Runtimes, Intent!SendAborted(r)
  PROVE  IntentInvariant'
<1>0. /\ wk[r].pc \in {"sending", "accepted"} /\ ~Intent!Up(r) /\ phase[r] # "down"
      /\ verdicts \in [Recipients -> Nat] /\ faults \in Nat /\ wk \in [Runtimes -> Workers]
  BY IntentFacts DEF Intent!SendAborted
<1>1. wk' = [wk EXCEPT ![r] = Intent!LoopHead(r)]
  BY DEF Intent!SendAborted, Intent!Goto
<1>2. \A q \in Recipients : Affordable(r, Intent!LoopHead(r), q)
  BY <1>0, LoopHeadStep DEF Affordable, Sends, Holds, Intent!SendAborted, OwedBy, Intent!Attempting
<1> QED BY <1>0, <1>1, <1>2, LoopHeadStep, QuietStep DEF Intent!SendAborted

LEMMA UncertaintiesAreSafe ==
  ASSUME IntentInvariant, NEW r \in Runtimes, Intent!Uncertain(r)
  PROVE  IntentInvariant'
<1>0. /\ wk[r].pc \in {"sending", "accepted"} /\ Intent!Up(r) /\ phase[r] # "down"
      /\ verdicts \in [Recipients -> Nat] /\ faults \in Nat /\ faults' = faults + 1
      /\ wk \in [Runtimes -> Workers]
  BY IntentFacts DEF Intent!Uncertain
<1> DEFINE w == [wk[r] EXCEPT !.pc = "unknown"]
<1>1. wk' = [wk EXCEPT ![r] = w]
  BY DEF Intent!Uncertain, Intent!Goto
<1>2. w \in Workers /\ w.pc = "unknown" /\ w.to = wk[r].to /\ Continues(r, w)
  BY <1>0, AttemptMoves DEF Intent!Attempting
<1> HIDE DEF w
<1>3. \A q \in Recipients : Affordable(r, w, q)
  BY <1>0, <1>1, <1>2
     DEF Affordable, Sends, OwedBy, Holds, Intent!Uncertain, Intent!Attempting, Intent!Up
<1>4. /\ UNCHANGED <<row, attempts, confirmed, phase, timer>>
      /\ verdicts' \in [Recipients -> Nat] /\ faults' \in Nat
  BY <1>0 DEF Intent!Uncertain
<1> QED BY <1>0, <1>1, <1>2, <1>3, <1>4, QuietStep

\* What costs nothing: a step of a worker that makes no attempt.
LEMMA RestingStep ==
  ASSUME NEW r \in Runtimes, NEW w \in Workers, NEW q \in Recipients,
         wk[r].pc \notin Intent!Attempting, w.pc \notin Intent!Attempting,
         verdicts[q] \in Nat, verdicts' = verdicts, faults \in Nat, faults' \in Nat,
         faults' >= faults
  PROVE  Affordable(r, w, q)
BY DEF Affordable, Sends, Holds, Intent!Attempting

LEMMA EmptyPassesAreSafe ==
  ASSUME IntentInvariant, NEW r \in Runtimes, Intent!ReserveNothing(r)
  PROVE  IntentInvariant'
<1>0. /\ wk[r].pc = "reserve" /\ phase[r] # "down"
      /\ verdicts \in [Recipients -> Nat] /\ faults \in Nat
  BY IntentFacts DEF Intent!ReserveNothing
<1> DEFINE w == Intent!At(IF Intent!Up(r) THEN "wake" ELSE "idle")
<1>1. wk' = [wk EXCEPT ![r] = w]
  BY DEF Intent!ReserveNothing, Intent!Goto
<1>2. w \in Workers /\ w.pc \in {"wake", "idle"} /\ (w.pc = "idle" => phase[r] # "up")
  BY AtAStep DEF Intent!Pcs, Intent!Up
<1> HIDE DEF w
<1>3. Continues(r, w)
  BY <1>2 DEF Continues, Intent!Attempting
<1>4. verdicts' = verdicts /\ faults' = faults
  BY DEF Intent!ReserveNothing
<1>5. \A q \in Recipients : Affordable(r, w, q)
  BY <1>0, <1>2, <1>4, RestingStep DEF Intent!Attempting
<1> QED BY <1>0, <1>1, <1>2, <1>3, <1>4, <1>5, QuietStep DEF Intent!ReserveNothing

\* The wake that is looked up is no later than the next scan.
LEMMA WakesAreSafe ==
  ASSUME IntentInvariant, NEW r \in Runtimes, Intent!nextWakeAt(r)
  PROVE  IntentInvariant'
<1> DEFINE waits == {row[q].wait : q \in {p \in Recipients : row[p].state \in Intent!Pending}}
<1>0. /\ wk[r].pc = "wake" /\ phase[r] # "down" /\ row \in [Recipients -> Rows]
      /\ verdicts \in [Recipients -> Nat] /\ faults \in Nat
  BY IntentFacts DEF Intent!nextWakeAt
<1> DEFINE t == IF waits = {} THEN RecoveryScan ELSE Intent!Lower(Intent!Min(waits), RecoveryScan)
<1>1. waits \in SUBSET Nat /\ RecoveryScan \in Nat
  BY <1>0, IntentAssumption DEF Rows, Intent!TimingAssumption
<1> DEFINE w == [Intent!At("arm") EXCEPT !.wait = t]
<1>2. wk' = [wk EXCEPT ![r] = w]
  BY DEF Intent!nextWakeAt, Intent!Goto
<1> HIDE DEF waits
<1>3. t \in Nat /\ t <= RecoveryScan
  <2>1. CASE waits = {}
    BY <1>1, <2>1
  <2>2. CASE waits # {}
    <3>1. PICK m \in Nat : m = Intent!Min(waits)
      BY <1>1, <2>2, MinOfNats
    <3>2. Intent!Lower(m, RecoveryScan) \in Nat /\ Intent!Lower(m, RecoveryScan) <= RecoveryScan
      BY <1>1 DEF Intent!Lower
    <3> QED BY <2>2, <3>1, <3>2
  <2> QED BY <2>1, <2>2
<1> HIDE DEF t
<1>4. w \in Workers /\ w.pc = "arm" /\ w.wait = t
  BY <1>3, AtAStep DEF Intent!Pcs, Workers
<1> HIDE DEF w
<1>5. Continues(r, w)
  BY <1>4 DEF Continues, Intent!Attempting
<1>6. verdicts' = verdicts /\ faults' = faults
  BY DEF Intent!nextWakeAt
<1>7. \A q \in Recipients : Affordable(r, w, q)
  BY <1>0, <1>4, <1>6, RestingStep DEF Intent!Attempting
<1> QED BY <1>0, <1>2, <1>3, <1>4, <1>5, <1>6, <1>7, QuietStep DEF Intent!nextWakeAt

LEMMA ArmingIsSafe ==
  ASSUME IntentInvariant, NEW r \in Runtimes, Intent!Arm(r)
  PROVE  IntentInvariant'
<1>0. /\ wk[r].pc = "arm" /\ phase[r] # "down" /\ wk[r] \in Workers
      /\ verdicts \in [Recipients -> Nat] /\ faults \in Nat
      /\ phase \in [Runtimes -> {"down", "up", "stopping"}]
      /\ timer \in [Runtimes -> Nat \cup {Intent!NoTimer}]
  BY IntentFacts DEF Intent!Arm
<1>1. wk[r].wait \in 0..RecoveryScan
  BY <1>0, IntentAssumption
     DEF IntentInvariant, WorkerHolds, Workers, Intent!TimingAssumption
<1> DEFINE t == IF Intent!Up(r) THEN wk[r].wait ELSE Intent!NoTimer
<1>2. timer' = [timer EXCEPT ![r] = t] /\ wk' = [wk EXCEPT ![r] = Intent!Idle]
  BY DEF Intent!Arm, Intent!Goto
<1>3. /\ t \in Nat \cup {Intent!NoTimer}
      /\ phase[r] = "up" => t \in 0..RecoveryScan
      /\ phase[r] # "up" => t = Intent!NoTimer
  BY <1>1 DEF Intent!Up
<1> HIDE DEF t
<1>4. UNCHANGED <<row, attempts, confirmed, phase, verdicts, faults>>
  BY DEF Intent!Arm
<1>5. Intent!Idle \in Workers /\ Intent!Idle.pc = "idle" /\ Continues(r, Intent!Idle)
  BY IdleAndLoopHead DEF Continues, Intent!Attempting
<1>6. \A q \in Recipients : Affordable(r, Intent!Idle, q)
  BY <1>0, <1>4, <1>5, RestingStep DEF Intent!Attempting
<1>7. /\ timer' \in [Runtimes -> Nat \cup {Intent!NoTimer}] /\ timer'[r] = t
      /\ \A s \in Runtimes \ {r} : timer'[s] = timer[s]
  BY <1>0, <1>2, <1>3
<1> QED BY <1>0, <1>2, <1>3, <1>4, <1>5, <1>6, <1>7, ControlStep

LEMMA FiringIsSafe ==
  ASSUME IntentInvariant, NEW r \in Runtimes, Intent!Fire(r)
  PROVE  IntentInvariant'
<1>0. /\ timer[r] = 0 /\ phase[r] = "up" /\ wk[r] \in Workers
      /\ verdicts \in [Recipients -> Nat] /\ faults \in Nat
      /\ phase \in [Runtimes -> {"down", "up", "stopping"}]
      /\ timer \in [Runtimes -> Nat \cup {Intent!NoTimer}]
  BY IntentFacts DEF Intent!Fire, Intent!NoTimer
<1>1. UNCHANGED <<row, attempts, confirmed, phase, verdicts, faults>>
  BY DEF Intent!Fire
<1>2. /\ timer' \in [Runtimes -> Nat \cup {Intent!NoTimer}]
      /\ \A s \in Runtimes \ {r} : timer'[s] = timer[s]
  BY <1>0 DEF Intent!Fire
<1>3. CASE wk[r].pc = "idle"
  <2>1. wk' = [wk EXCEPT ![r] = Intent!At("recover")]
    BY <1>0, <1>3 DEF Intent!Fire, Intent!Goto, Intent!Up
  <2>2. /\ Intent!At("recover") \in Workers /\ Intent!At("recover").pc = "recover"
        /\ Continues(r, Intent!At("recover"))
    BY AtAStep DEF Intent!Pcs, Continues, Intent!Attempting
  <2>3. \A q \in Recipients : Affordable(r, Intent!At("recover"), q)
    BY <1>0, <1>1, <1>3, <2>2, RestingStep DEF Intent!Attempting
  <2> QED BY <1>0, <1>1, <1>2, <2>1, <2>2, <2>3, ControlStep
<1>4. CASE wk[r].pc # "idle"
  <2>1. wk' = [wk EXCEPT ![r] = wk[r]]
    BY <1>0, <1>4 DEF Intent!Fire, Intent!Goto, Intent!Up
  <2>2. wk' = wk /\ Continues(r, wk[r])
    BY <2>1, IntentFacts DEF Continues
  <2>3. \A q \in Recipients : Affordable(r, wk[r], q)
    BY <1>0, <1>1, <2>2, OwedByRange
       DEF Affordable, Sends, OwedBy, Holds, Intent!Up, Intent!Attempting
  <2>4. wk[r].pc = "arm" => wk[r].wait <= RecoveryScan
    BY DEF IntentInvariant, WorkerHolds
  <2> QED BY <1>0, <1>1, <1>2, <1>4, <2>1, <2>2, <2>3, <2>4, ControlStep
<1> QED BY <1>3, <1>4

\* The error of a failed statement ends the worker; a fault pays for its attempt.
LEMMA AbandonedStep ==
  ASSUME IntentInvariant, NEW r \in Runtimes, Intent!Abandon(r),
         UNCHANGED <<row, attempts, confirmed, phase, verdicts>>, faults' = faults + 1
  PROVE  IntentInvariant'
<1>0. /\ verdicts \in [Recipients -> Nat] /\ faults \in Nat /\ faults' \in Nat
      /\ phase \in [Runtimes -> {"down", "up", "stopping"}]
      /\ timer \in [Runtimes -> Nat \cup {Intent!NoTimer}] /\ RecoveryScan \in Nat
  BY IntentFacts, IntentAssumption DEF Intent!TimingAssumption
<1>1. wk' = [wk EXCEPT ![r] = Intent!Idle]
  BY DEF Intent!Abandon, Intent!Goto
<1>2. /\ timer' \in [Runtimes -> Nat \cup {Intent!NoTimer}]
      /\ \A s \in Runtimes \ {r} : timer'[s] = timer[s]
      /\ phase[r] = "up" => timer'[r] \in 0..RecoveryScan
      /\ phase[r] # "up" => timer'[r] = Intent!NoTimer
  BY <1>0 DEF Intent!Abandon, Intent!ScanTimer, Intent!Up
<1>3. Intent!Idle \in Workers /\ Intent!Idle.pc = "idle" /\ Continues(r, Intent!Idle)
  BY IdleAndLoopHead DEF Continues, Intent!Attempting
<1>4. ASSUME NEW q \in Recipients PROVE Affordable(r, Intent!Idle, q)
  <2>1. verdicts[q] \in Nat /\ verdicts'[q] = verdicts[q]
    BY <1>0
  <2> QED BY <1>0, <1>3, <2>1, OwedByRange DEF Affordable, Sends, Intent!Attempting
<1> QED BY <1>0, <1>1, <1>2, <1>3, <1>4, ControlStep

LEMMA StartIsSafe ==
  ASSUME IntentInvariant, NEW r \in Runtimes, Intent!startNotificationIntentWorker(r)
  PROVE  IntentInvariant'
<1>0. /\ wk[r].pc = "idle" /\ phase[r] = "down"
      /\ verdicts \in [Recipients -> Nat] /\ faults \in Nat
      /\ phase \in [Runtimes -> {"down", "up", "stopping"}]
      /\ timer \in [Runtimes -> Nat \cup {Intent!NoTimer}]
  BY IntentFacts DEF Intent!startNotificationIntentWorker
<1>1. wk' = [wk EXCEPT ![r] = Intent!At("recover")]
  BY DEF Intent!startNotificationIntentWorker, Intent!Goto
<1>2. /\ Intent!At("recover") \in Workers /\ Intent!At("recover").pc = "recover"
      /\ Continues(r, Intent!At("recover"))
  BY AtAStep DEF Intent!Pcs, Continues, Intent!Attempting
<1>3. UNCHANGED <<row, attempts, confirmed, timer, verdicts, faults>>
  BY DEF Intent!startNotificationIntentWorker
<1>4. /\ phase' \in [Runtimes -> {"down", "up", "stopping"}] /\ phase'[r] = "up"
      /\ \A s \in Runtimes \ {r} : phase'[s] = phase[s]
  BY <1>0 DEF Intent!startNotificationIntentWorker
<1>5. \A q \in Recipients : Affordable(r, Intent!At("recover"), q)
  BY <1>0, <1>2, <1>3, RestingStep DEF Intent!Attempting
<1> QED BY <1>0, <1>1, <1>2, <1>3, <1>4, <1>5, ControlStep

LEMMA StopIsSafe ==
  ASSUME IntentInvariant, NEW r \in Runtimes, Intent!stopNotificationIntentWorker(r)
  PROVE  IntentInvariant'
<1>0. /\ phase[r] = "up" /\ wk \in [Runtimes -> Workers] /\ wk[r] \in Workers
      /\ verdicts \in [Recipients -> Nat] /\ faults \in Nat /\ faults' = faults + 1
      /\ faults' \in Nat /\ phase \in [Runtimes -> {"down", "up", "stopping"}]
      /\ timer \in [Runtimes -> Nat \cup {Intent!NoTimer}]
  BY IntentFacts DEF Intent!stopNotificationIntentWorker
<1>1. wk' = wk /\ wk' = [wk EXCEPT ![r] = wk[r]]
  BY <1>0 DEF Intent!stopNotificationIntentWorker
<1>2. Continues(r, wk[r]) /\ (wk[r].pc = "arm" => wk[r].wait <= RecoveryScan)
  BY DEF IntentInvariant, WorkerHolds, Continues
<1>3. UNCHANGED <<row, attempts, confirmed, verdicts>>
  BY DEF Intent!stopNotificationIntentWorker
<1>4. /\ phase' \in [Runtimes -> {"down", "up", "stopping"}] /\ phase'[r] = "stopping"
      /\ timer' \in [Runtimes -> Nat \cup {Intent!NoTimer}] /\ timer'[r] = Intent!NoTimer
      /\ \A s \in Runtimes \ {r} : phase'[s] = phase[s] /\ timer'[s] = timer[s]
  BY <1>0 DEF Intent!stopNotificationIntentWorker
<1>5. ASSUME NEW q \in Recipients PROVE Affordable(r, wk[r], q)
  <2>1. OwedBy(r, q)' <= OwedBy(r, q) + 1
    BY <1>0, <1>1, <1>3, <1>4 DEF OwedBy, Intent!Up
  <2>2. OwedBy(r, q) \in 0..3 /\ OwedBy(r, q)' \in 0..3
    BY OwedByRange DEF OwedBy
  <2>3. Sends(wk[r], q) \in {0, 1} /\ verdicts[q] \in Nat /\ verdicts'[q] = verdicts[q]
    BY <1>0, <1>3 DEF Sends
  <2> QED BY <1>0, <2>1, <2>2, <2>3 DEF Affordable, Holds
<1> QED BY <1>0, <1>1, <1>2, <1>3, <1>4, <1>5, ControlStep

LEMMA StoppingIsSafe ==
  ASSUME IntentInvariant, NEW r \in Runtimes, Intent!Stopped(r)
  PROVE  IntentInvariant'
<1>0. /\ phase[r] = "stopping" /\ wk[r].pc = "idle"
      /\ wk \in [Runtimes -> Workers] /\ wk[r] \in Workers
      /\ verdicts \in [Recipients -> Nat] /\ faults \in Nat /\ timer[r] = Intent!NoTimer
      /\ phase \in [Runtimes -> {"down", "up", "stopping"}]
      /\ timer \in [Runtimes -> Nat \cup {Intent!NoTimer}]
  BY IntentFacts DEF Intent!Stopped
<1>1. wk' = [wk EXCEPT ![r] = wk[r]] /\ Continues(r, wk[r])
  BY <1>0 DEF Intent!Stopped, Continues
<1>2. UNCHANGED <<row, attempts, confirmed, verdicts, timer, faults>>
  BY DEF Intent!Stopped
<1>3. /\ phase' \in [Runtimes -> {"down", "up", "stopping"}] /\ phase'[r] = "down"
      /\ \A s \in Runtimes \ {r} : phase'[s] = phase[s]
  BY <1>0 DEF Intent!Stopped
<1>4. \A q \in Recipients : Affordable(r, wk[r], q)
  BY <1>0, <1>2, RestingStep DEF Intent!Attempting
<1> QED BY <1>0, <1>1, <1>2, <1>3, <1>4, ControlStep

LEMMA CrashIsSafe ==
  ASSUME IntentInvariant, NEW r \in Runtimes, Intent!Crash(r)
  PROVE  IntentInvariant'
<1>0. /\ verdicts \in [Recipients -> Nat] /\ faults \in Nat /\ faults' = faults + 1
      /\ faults' \in Nat /\ phase \in [Runtimes -> {"down", "up", "stopping"}]
      /\ timer \in [Runtimes -> Nat \cup {Intent!NoTimer}]
  BY IntentFacts DEF Intent!Crash
<1>1. wk' = [wk EXCEPT ![r] = Intent!Idle]
  BY DEF Intent!Crash
<1>2. Intent!Idle \in Workers /\ Intent!Idle.pc = "idle" /\ Continues(r, Intent!Idle)
  BY IdleAndLoopHead DEF Continues, Intent!Attempting
<1>3. UNCHANGED <<row, attempts, confirmed, verdicts>>
  BY DEF Intent!Crash
<1>4. /\ phase' \in [Runtimes -> {"down", "up", "stopping"}] /\ phase'[r] = "down"
      /\ timer' \in [Runtimes -> Nat \cup {Intent!NoTimer}] /\ timer'[r] = Intent!NoTimer
      /\ \A s \in Runtimes \ {r} : phase'[s] = phase[s] /\ timer'[s] = timer[s]
  BY <1>0 DEF Intent!Crash
<1>5. ASSUME NEW q \in Recipients PROVE Affordable(r, Intent!Idle, q)
  <2>1. verdicts[q] \in Nat /\ verdicts'[q] = verdicts[q]
    BY <1>0, <1>3
  <2> QED BY <1>0, <1>2, <2>1, OwedByRange DEF Affordable, Sends, Intent!Attempting
<1> QED BY <1>0, <1>1, <1>2, <1>3, <1>4, <1>5, ControlStep

\* A step of one worker that changes the store keeps the invariant when it keeps the rows.
LEMMA StoreStep ==
  ASSUME IntentInvariant, NEW r \in Runtimes, NEW w \in Workers,
         wk' = [wk EXCEPT ![r] = w], UNCHANGED <<phase, verdicts>>, faults' \in Nat,
         row' \in [Recipients -> Rows],
         attempts' \in [Recipients -> SUBSET [seq : Nat, outcome : Intent!Outcomes]],
         confirmed' \in SUBSET Recipients,
         timer' \in [Runtimes -> Nat \cup {Intent!NoTimer}],
         \A s \in Runtimes \ {r} : timer'[s] = timer[s],
         \A q \in Recipients : row'[q].count >= row[q].count,
         \/ w.pc \notin Intent!Attempting
         \/ wk[r].pc \in Intent!Attempting /\ w.to = wk[r].to /\ w.seq = wk[r].seq
         \/ w.to \in Recipients /\ w.seq = row'[w.to].count /\ w.seq > row[w.to].count,
         w.pc # "arm", phase[r] # "down",
         phase[r] = "up" /\ w.pc = "idle" => timer'[r] \in 0..RecoveryScan,
         phase[r] # "up" => timer'[r] = Intent!NoTimer,
         \A q \in Recipients : RowMatchesAttempts(q)',
         \A q \in confirmed' : row'[q].state = "acknowledged",
         \A q \in Recipients : VerdictsArePaid(q)'
  PROVE  IntentInvariant'
<1>0. wk \in [Runtimes -> Workers] /\ row \in [Recipients -> Rows]
  BY IntentFacts
<1>1. wk' \in [Runtimes -> Workers] /\ wk'[r] = w /\ \A s \in Runtimes \ {r} : wk'[s] = wk[s]
  BY <1>0
<1>2. Intent!TypeOK'
  BY <1>1 DEF IntentInvariant, Intent!TypeOK, Workers, Rows
<1>3. \A q \in Recipients : row[q].count \in Nat /\ row'[q].count \in Nat
  BY <1>0 DEF Rows
<1>4. \A s \in Runtimes : WorkerHolds(s)'
  <2>1. WorkerHolds(r)'
    <3>1. CASE w.pc \notin Intent!Attempting
      BY <1>1, <3>1 DEF WorkerHolds
    <3>2. CASE wk[r].pc \in Intent!Attempting /\ w.to = wk[r].to /\ w.seq = wk[r].seq
      <4>1. w.to \in Recipients /\ w.seq \in 1..row[w.to].count
        BY <3>2 DEF IntentInvariant, WorkerHolds
      <4>2. w.seq \in 1..row'[w.to].count
        BY <1>3, <4>1
      <4> QED BY <1>1, <4>1, <4>2 DEF WorkerHolds
    <3>3. CASE w.to \in Recipients /\ w.seq = row'[w.to].count /\ w.seq > row[w.to].count
      <4>1. w.seq \in 1..row'[w.to].count
        BY <1>3, <3>3
      <4> QED BY <1>1, <3>3, <4>1 DEF WorkerHolds
    <3> QED BY <3>1, <3>2, <3>3
  <2>2. ASSUME NEW s \in Runtimes \ {r} PROVE WorkerHolds(s)'
    <3>1. WorkerHolds(s) /\ wk'[s] = wk[s]
      BY <1>1 DEF IntentInvariant
    <3>2. ASSUME wk[s].pc \in Intent!Attempting PROVE wk[s].seq \in 1..row'[wk[s].to].count
      BY <1>3, <3>1, <3>2 DEF WorkerHolds
    <3> QED BY <3>1, <3>2 DEF WorkerHolds
  <2> QED BY <2>1, <2>2
<1>5. NumbersAreUnique'
  <2>1. \A s \in Runtimes \ {r} : wk'[s].pc \in Intent!Attempting =>
          wk'[s].to \in Recipients /\ wk'[s].seq <= row[wk'[s].to].count /\ wk'[s].seq \in Nat
    BY <1>0, <1>1, <1>3 DEF IntentInvariant, WorkerHolds
  <2>2. ASSUME NEW s \in Runtimes \ {r}, wk'[s].pc \in Intent!Attempting,
               w.pc \in Intent!Attempting, wk'[s].to = w.to
        PROVE  wk'[s].seq # w.seq
    <3>1. CASE wk[r].pc \in Intent!Attempting /\ w.to = wk[r].to /\ w.seq = wk[r].seq
      BY <1>1, <2>2, <3>1 DEF IntentInvariant, NumbersAreUnique
    <3>2. CASE w.to \in Recipients /\ w.seq = row'[w.to].count /\ w.seq > row[w.to].count
      BY <1>3, <2>1, <2>2, <3>2
    <3> QED BY <2>2, <3>1, <3>2
  <2>3. \A s, t \in Runtimes \ {r} :
          (/\ s # t /\ wk'[s].pc \in Intent!Attempting /\ wk'[t].pc \in Intent!Attempting
           /\ wk'[s].to = wk'[t].to) => wk'[s].seq # wk'[t].seq
    BY <1>1 DEF IntentInvariant, NumbersAreUnique
  <2> QED BY <1>1, <2>2, <2>3 DEF NumbersAreUnique
<1>6. Intent!PositiveReplyIsKept'
  BY DEF Intent!PositiveReplyIsKept
<1>7. Intent!TimerMatchesPhase'
  BY <1>1 DEF IntentInvariant, Intent!TimerMatchesPhase, Intent!Up
<1> QED BY <1>2, <1>4, <1>5, <1>6, <1>7 DEF IntentInvariant

LEMMA PaidSum ==
  ASSUME NEW v \in Nat, NEW c \in Nat, NEW d \in Int, NEW m \in 0..3, NEW n \in 0..3,
         NEW f \in Nat, NEW g \in Nat, d <= c, m <= n, f <= g, v + c + n <= 1 + f
  PROVE  v + d + m <= 1 + g
OBVIOUS

\* Verdicts remain paid for when the row changes and is owed no more than before.
LEMMA RowMoves ==
  ASSUME IntentInvariant, NEW r \in Runtimes, NEW w \in Workers, NEW q \in Recipients,
         wk' = [wk EXCEPT ![r] = w], Sends(w, q) <= Sends(wk[r], q),
         verdicts'[q] = verdicts[q], faults' \in Nat, faults' >= faults,
         NEW m \in 0..3, Owed(q, m)',
         \A n \in 0..3 : Owed(q, n) => m <= n
  PROVE  VerdictsArePaid(q)'
<1> DEFINE c == Cardinality(Sending(q))
<1> DEFINE d == Cardinality(Sending(q)')
<1>1. wk \in [Runtimes -> Workers] /\ verdicts[q] \in Nat /\ faults \in Nat
  BY IntentFacts
<1>2. c \in Nat /\ d \in Int /\ d <= c
  <2>1. PICK x, y \in {0, 1} : x = Sends(w, q) /\ y = Sends(wk[r], q)
    BY <1>1, SendingCounts
  <2>2. c \in Nat /\ d \in Int /\ d = c + x - y
    BY <1>1, <2>1, SendingCounts
  <2>3. x <= y
    BY <2>1
  <2> HIDE DEF c, d
  <2> QED BY <2>1, <2>2, <2>3
<1>3. PICK n \in 0..3 : Owed(q, n) /\ verdicts[q] + c + n <= 1 + faults
  BY DEF IntentInvariant, VerdictsArePaid
<1>4. m <= n /\ faults <= faults'
  BY <1>1, <1>3
<1> HIDE DEF c, d
<1>5. /\ verdicts[q] + c + n <= 1 + faults /\ verdicts'[q] = verdicts[q]
      /\ faults' \in Nat /\ m \in 0..3 /\ n \in 0..3
  BY <1>3
<1>6. verdicts'[q] + d + m <= 1 + faults'
  BY <1>1, <1>2, <1>4, <1>5, PaidSum
<1> QED BY <1>6 DEF VerdictsArePaid, d

\* Verdicts on other recipients remain paid for.
LEMMA RowStays ==
  ASSUME IntentInvariant, NEW r \in Runtimes, NEW w \in Workers, NEW q \in Recipients,
         wk' = [wk EXCEPT ![r] = w], row'[q] = row[q], phase' = phase,
         ~(wk[r].pc \in Intent!Attempting /\ wk[r].to = q),
         ~(w.pc \in Intent!Attempting /\ w.to = q),
         verdicts'[q] = verdicts[q], faults' \in Nat, faults' >= faults
  PROVE  VerdictsArePaid(q)'
<1>1. wk \in [Runtimes -> Workers] /\ faults \in Nat
  BY IntentFacts
<1>2. PICK n \in 0..3 : Owed(q, n)
  BY DEF IntentInvariant, VerdictsArePaid
<1>3. wk'[r] = w /\ \A s \in Runtimes \ {r} : wk'[s] = wk[s]
  BY <1>1
<1>4. Sends(w, q) <= Sends(wk[r], q)
  BY DEF Sends, Intent!Attempting
<1>5. \A s \in Runtimes : Holds(s, q)' <=> Holds(s, q)
  BY <1>3 DEF Holds, Intent!Current
<1>6. \A s \in Runtimes : Holds(s, q) => OwedBy(s, q)' = OwedBy(s, q)
  BY <1>3 DEF Holds, OwedBy, Intent!Up
<1>7. ASSUME NEW m \in 0..3, Owed(q, m) PROVE VerdictsArePaid(q)'
  <2>1. Owed(q, m)'
    BY <1>5, <1>6, <1>7 DEF Owed
  <2>2. ASSUME NEW k \in 0..3, Owed(q, k) PROVE k = m
    BY <1>7, <2>2, OwedByHolder DEF Owed, Intent!Final, Intent!Waiting
  <2>3. \A k \in 0..3 : Owed(q, k) => m <= k
    BY <2>2
  <2> QED BY <1>4, <2>1, <2>3, RowMoves
<1> QED BY <1>2, <1>7

LEMMA StoreFacts ==
  ASSUME IntentInvariant, NEW q \in Recipients
  PROVE  /\ row[q] \in Rows /\ RowMatchesAttempts(q)
         /\ attempts \in [Recipients -> SUBSET [seq : Nat, outcome : Intent!Outcomes]]
         /\ confirmed \in SUBSET Recipients
         /\ q \in confirmed => row[q].state = "acknowledged"
BY DEF IntentInvariant, Intent!TypeOK, Rows, Intent!PositiveReplyIsKept

\* An outcome is written into the attempt it belongs to, and into no other.
LEMMA OutcomeIsWritten ==
  ASSUME NEW q, attempts[q] \in SUBSET [seq : Nat, outcome : Intent!Outcomes],
         NEW n \in Nat, NEW outcome \in Intent!Outcomes, NEW k,
         \A a \in attempts[q] : a.seq = k, \A a, b \in attempts[q] : a = b
  PROVE  /\ Intent!Completed(q, n, outcome) \in SUBSET [seq : Nat, outcome : Intent!Outcomes]
         /\ \A a \in Intent!Completed(q, n, outcome) : a.seq = k
         /\ \A a, b \in Intent!Completed(q, n, outcome) : a = b
<1> DEFINE f(a) == IF a.seq = n /\ (outcome = "acknowledged" \/ a.outcome = "submitting")
                   THEN [a EXCEPT !.outcome = outcome] ELSE a
<1>1. \A a \in attempts[q] : f(a) \in [seq : Nat, outcome : Intent!Outcomes] /\ f(a).seq = a.seq
  OBVIOUS
<1>2. Intent!Completed(q, n, outcome) = {f(a) : a \in attempts[q]}
  BY DEF Intent!Completed
<1> HIDE DEF f
<1> QED BY <1>1, <1>2

\* The attempt a row is reserved for gets an outcome that is final for it.
LEMMA ReservedAttemptEnds ==
  ASSUME NEW q, NEW n \in Nat, NEW outcome \in {"acknowledged", "rejected", "unknown"},
         attempts[q] = {[seq |-> n, outcome |-> "submitting"]}
  PROVE  Intent!Completed(q, n, outcome) = {[seq |-> n, outcome |-> outcome]}
BY DEF Intent!Completed

\* An expired reservation is taken back, whether or not somebody still holds it.
LEMMA RecoveryIsSafe ==
  ASSUME IntentInvariant, NEW r \in Runtimes, Intent!recoverExpiredReservations(r)
  PROVE  IntentInvariant'
<1> DEFINE w == Intent!At("reserve")
<1>0. /\ wk[r].pc = "recover" /\ phase[r] # "down" /\ row \in [Recipients -> Rows]
      /\ verdicts \in [Recipients -> Nat] /\ faults \in Nat
      /\ timer \in [Runtimes -> Nat \cup {Intent!NoTimer}]
      /\ phase[r] # "up" => timer[r] = Intent!NoTimer
      /\ attempts \in [Recipients -> SUBSET [seq : Nat, outcome : Intent!Outcomes]]
  BY IntentFacts DEF Intent!recoverExpiredReservations, IntentInvariant, Intent!TypeOK
<1>1. wk' = [wk EXCEPT ![r] = w]
  BY DEF Intent!recoverExpiredReservations, Intent!Goto
<1>2. w \in Workers /\ w.pc = "reserve"
  BY AtAStep DEF Intent!Pcs
<1> HIDE DEF w
<1>3. UNCHANGED <<phase, timer, verdicts, confirmed, faults>>
  BY DEF Intent!recoverExpiredReservations
<1>4. ASSUME NEW q \in Recipients, Intent!Expired(q)
      PROVE  /\ row'[q] \in Rows /\ row'[q].count = row[q].count /\ RowMatchesAttempts(q)'
             /\ attempts'[q] \in SUBSET [seq : Nat, outcome : Intent!Outcomes]
             /\ row[q].state # "acknowledged" /\ VerdictsArePaid(q)'
  <2>1. /\ row[q] \in Rows /\ row[q].state = "submitting" /\ row[q].wait = 0
        /\ row[q].token = row[q].count /\ row[q].count \in Nat
        /\ attempts[q] = {[seq |-> row[q].count, outcome |-> "submitting"]}
    BY <1>4, StoreFacts DEF Intent!Expired, RowMatchesAttempts, Rows
  <2>2. attempts'[q] = {[seq |-> row[q].count, outcome |-> "unknown"]}
    BY <1>4, <2>1, ReservedAttemptEnds DEF Intent!recoverExpiredReservations
  <2>3. row'[q] = Intent!Retry(q, row[q].count)
    BY <1>4 DEF Intent!recoverExpiredReservations
  <2>4. /\ row'[q] \in Rows /\ row'[q].state = "retry-wait" /\ row'[q].count = row[q].count
    BY <2>1, <2>3, RetryDelayIsNat
       DEF Intent!Retry, Rows, Intent!Pending, Intent!Waiting, Intent!None
  <2>5. RowMatchesAttempts(q)'
    BY <2>2, <2>4 DEF RowMatchesAttempts
  <2>6. attempts'[q] \in SUBSET [seq : Nat, outcome : Intent!Outcomes]
    BY <2>1, <2>2 DEF Intent!Outcomes
  <2>7. PICK m \in 0..3 : m = 1 /\ Owed(q, m)'
    BY <2>4 DEF Owed, Intent!Waiting
  <2>8. \A n \in 0..3 : Owed(q, n) => 1 <= n
    <3>1. TAKE n \in 0..3
    <3>2. HAVE Owed(q, n)
    <3>3. n = 1 \/ \E s \in Runtimes : n = OwedBy(s, q)
      BY <2>1, <3>2 DEF Owed, Intent!Final, Intent!Waiting
    <3>4. \A s \in Runtimes : OwedBy(s, q) >= 1
      BY <2>1 DEF OwedBy
    <3> QED BY <3>3, <3>4
  <2>9. Sends(w, q) <= Sends(wk[r], q)
    BY <1>0, <1>2 DEF Sends
  <2>10. \A n \in 0..3 : Owed(q, n) => m <= n
    BY <2>7, <2>8
  <2>11. verdicts'[q] = verdicts[q] /\ faults' \in Nat /\ faults' >= faults
    BY <1>0, <1>3
  <2>12. VerdictsArePaid(q)'
    BY <1>1, <1>2, <2>7, <2>9, <2>10, <2>11, RowMoves
  <2> QED BY <2>1, <2>4, <2>5, <2>6, <2>12
<1>5. ASSUME NEW q \in Recipients, ~Intent!Expired(q)
      PROVE  /\ row'[q] = row[q] /\ attempts'[q] = attempts[q]
             /\ RowMatchesAttempts(q)' /\ VerdictsArePaid(q)'
  <2>1. row'[q] = row[q] /\ attempts'[q] = attempts[q]
    BY <1>5 DEF Intent!recoverExpiredReservations
  <2>2. RowMatchesAttempts(q)'
    BY <2>1, StoreFacts DEF RowMatchesAttempts
  <2>3. /\ wk[r].pc \notin Intent!Attempting /\ w.pc \notin Intent!Attempting
        /\ verdicts'[q] = verdicts[q] /\ faults' \in Nat /\ faults' >= faults /\ phase' = phase
    BY <1>0, <1>2, <1>3 DEF Intent!Attempting
  <2>4. VerdictsArePaid(q)'
    BY <1>1, <1>2, <2>1, <2>3, RowStays
  <2> QED BY <2>1, <2>2, <2>4
<1>6. /\ row' \in [Recipients -> Rows]
      /\ attempts' \in [Recipients -> SUBSET [seq : Nat, outcome : Intent!Outcomes]]
      /\ \A q \in Recipients : row'[q].count >= row[q].count
  <2>1. /\ row' = [q \in Recipients |-> row'[q]]
        /\ attempts' = [q \in Recipients |-> attempts'[q]]
    BY DEF Intent!recoverExpiredReservations
  <2>2. \A q \in Recipients : row'[q] \in Rows /\ row'[q].count = row[q].count /\ row[q].count \in Nat
    BY <1>0, <1>4, <1>5 DEF Rows
  <2>3. \A q \in Recipients : attempts'[q] \in SUBSET [seq : Nat, outcome : Intent!Outcomes]
    BY <1>0, <1>4, <1>5
  <2> QED BY <2>1, <2>2, <2>3
<1>7. /\ \A q \in Recipients : RowMatchesAttempts(q)' /\ VerdictsArePaid(q)'
      /\ \A q \in confirmed' : row'[q].state = "acknowledged"
      /\ confirmed' \in SUBSET Recipients
  BY <1>3, <1>4, <1>5, StoreFacts
     DEF IntentInvariant, Intent!TypeOK, Intent!PositiveReplyIsKept
<1> QED BY <1>0, <1>1, <1>2, <1>3, <1>6, <1>7, StoreStep DEF Intent!Attempting

Diagnostics == SUBSET [seq : Nat, outcome : Intent!Outcomes]

\* The statements of a reservation: a new number, its diagnostic alone, and no other holder.
LEMMA RowIsReserved ==
  ASSUME IntentInvariant, NEW q \in Recipients, Intent!ReserveRow(q)
  PROVE  /\ row[q].state \in Intent!Waiting /\ row[q].count + 1 \in Nat
         /\ row'[q].state = "submitting" /\ row'[q].count = row[q].count + 1
         /\ row'[q].token = row[q].count + 1 /\ row'[q].wait > 0 /\ row'[q].wait \in Nat
         /\ row' \in [Recipients -> Rows] /\ attempts' \in [Recipients -> Diagnostics]
         /\ \A p \in Recipients \ {q} : row'[p] = row[p] /\ attempts'[p] = attempts[p]
         /\ \A p \in Recipients : row'[p].count >= row[p].count /\ RowMatchesAttempts(p)'
<1> DEFINE n == row[q].count + 1
<1> DEFINE x == [state |-> "submitting", count |-> n, token |-> n, wait |-> Reservation]
<1>1. /\ row[q].state \in Intent!Waiting /\ row \in [Recipients -> Rows]
      /\ attempts \in [Recipients -> Diagnostics] /\ row[q].count \in Nat /\ n \in Nat
  BY StoreFacts
     DEF Intent!ReserveRow, Intent!Due, Rows, IntentInvariant, Intent!TypeOK, Diagnostics
<1>2. row' = [row EXCEPT ![q] = x]
  BY DEF Intent!ReserveRow
<1>3. attempts'[q] = {[seq |-> n, outcome |-> "submitting"]}
  <2>1. \A a \in attempts[q] : a.outcome # "submitting"
    BY <1>1, StoreFacts DEF RowMatchesAttempts
  <2> QED BY <1>1, <2>1 DEF Intent!ReserveRow
<1>4. /\ x \in Rows /\ x.state = "submitting" /\ x.count = n /\ x.token = n /\ x.wait > 0
      /\ x.wait \in Nat
  BY <1>1, IntentAssumption DEF Rows, Intent!Pending, Intent!TimingAssumption
<1> HIDE DEF n, x
<1>5. row' \in [Recipients -> Rows] /\ row'[q] = x
  BY <1>1, <1>2, <1>4
<1>6. \A p \in Recipients \ {q} : row'[p] = row[p] /\ attempts'[p] = attempts[p]
  BY <1>1, <1>2 DEF Intent!ReserveRow
<1>7. attempts' \in [Recipients -> Diagnostics]
  <2>1. attempts'[q] \in Diagnostics
    BY <1>1, <1>3 DEF Diagnostics, Intent!Outcomes
  <2>2. attempts' = [attempts EXCEPT ![q] = attempts'[q]]
    BY <1>1 DEF Intent!ReserveRow
  <2> QED BY <1>1, <2>1, <2>2
<1>8. RowMatchesAttempts(q)'
  BY <1>3, <1>4, <1>5 DEF RowMatchesAttempts, Intent!Waiting
<1>9. \A p \in Recipients \ {q} : RowMatchesAttempts(p)'
  BY <1>6, StoreFacts DEF RowMatchesAttempts
<1>10. \A p \in Recipients : row'[p].count >= row[p].count
  BY <1>1, <1>4, <1>5, <1>6 DEF n, Rows
<1> QED BY <1>1, <1>4, <1>5, <1>6, <1>7, <1>8, <1>9, <1>10 DEF n

\* The new reservation is owed what the recipient was owed while it waited.
LEMMA ReservationIsPaid ==
  ASSUME IntentInvariant, NEW r \in Runtimes, NEW w \in Workers, NEW q \in Recipients,
         Intent!ReserveRow(q), wk[r].pc = "reserve", wk' = [wk EXCEPT ![r] = w],
         UNCHANGED <<phase, verdicts>>, faults' \in Nat, faults' >= faults,
         \/ w.pc = "idle"
         \/ w.pc = "check" /\ w.to = q /\ w.seq = row[q].count + 1
  PROVE  \A p \in Recipients : VerdictsArePaid(p)'
<1>1. /\ wk \in [Runtimes -> Workers] /\ verdicts \in [Recipients -> Nat] /\ faults \in Nat
      /\ row \in [Recipients -> Rows]
  BY IntentFacts
<1>2. wk'[r] = w /\ \A s \in Runtimes \ {r} : wk'[s] = wk[s]
  BY <1>1
<1>3. ASSUME NEW p \in Recipients \ {q} PROVE VerdictsArePaid(p)'
  <2>1. row'[p] = row[p] /\ verdicts'[p] = verdicts[p]
    BY RowIsReserved
  <2>2. ~(wk[r].pc \in Intent!Attempting) /\ ~(w.pc \in Intent!Attempting /\ w.to = p)
    BY DEF Intent!Attempting
  <2> QED BY <2>1, <2>2, RowStays
<1>4. VerdictsArePaid(q)'
  <2>1. \A s \in Runtimes \ {r} : ~Holds(s, q)'
    <3>1. TAKE s \in Runtimes \ {r}
    <3>2. SUFFICES ASSUME Holds(s, q)' PROVE FALSE
      OBVIOUS
    <3>3. wk[s].pc \in Intent!Attempting /\ wk[s].to = q /\ wk[s].seq = row[q].count + 1
      BY <1>2, <3>2, RowIsReserved DEF Holds, Intent!Current
    <3>4. wk[s].seq \in 1..row[q].count /\ row[q].count \in Nat
      BY <1>1, <3>3, IntentFacts DEF Rows
    <3> QED BY <3>3, <3>4
  <2>2. PICK m \in 0..3 : m = 1 /\ Owed(q, m)'
    <3>1. CASE w.pc = "idle"
      <4>1. ~Holds(r, q)'
        BY <1>2, <3>1 DEF Holds, Intent!Attempting
      <4>2. row'[q].state = "submitting"
        BY RowIsReserved
      <4> QED BY <2>1, <4>1, <4>2 DEF Owed
    <3>2. CASE w.pc = "check" /\ w.to = q /\ w.seq = row[q].count + 1
      <4>1. Holds(r, q)'
        BY <1>2, <3>2, RowIsReserved DEF Holds, Intent!Attempting, Intent!Current
      <4>2. OwedBy(r, q)' = 1
        BY <1>2, <3>2, RowIsReserved DEF OwedBy
      <4>3. row'[q].state = "submitting"
        BY RowIsReserved
      <4> QED BY <4>1, <4>2, <4>3 DEF Owed
    <3> QED BY <3>1, <3>2
  <2>3. \A n \in 0..3 : Owed(q, n) => n = 1
    BY RowIsReserved DEF Owed, Intent!Waiting, Intent!Final
  <2>4. \A n \in 0..3 : Owed(q, n) => m <= n
    BY <2>2, <2>3
  <2>5. Sends(w, q) <= Sends(wk[r], q)
    BY DEF Sends
  <2>6. verdicts'[q] = verdicts[q]
    OBVIOUS
  <2> QED BY <2>2, <2>4, <2>5, <2>6, RowMoves
<1> QED BY <1>3, <1>4

LEMMA ReservationIsSafe ==
  ASSUME IntentInvariant, NEW r \in Runtimes, Intent!reserveDueRecipient(r)
  PROVE  IntentInvariant'
<1>0. /\ wk[r].pc = "reserve" /\ phase[r] # "down" /\ faults \in Nat
      /\ timer \in [Runtimes -> Nat \cup {Intent!NoTimer}]
      /\ phase[r] # "up" => timer[r] = Intent!NoTimer
      /\ UNCHANGED <<phase, timer, verdicts, confirmed, faults>>
  BY IntentFacts DEF Intent!reserveDueRecipient
<1>1. PICK q \in Recipients :
        /\ Intent!ReserveRow(q)
        /\ wk' = [wk EXCEPT ![r] = [Intent!At("check") EXCEPT !.to = q, !.seq = row[q].count + 1]]
  BY DEF Intent!reserveDueRecipient, Intent!Goto
<1>2. PICK n \in Nat : n = row[q].count + 1 /\ row'[q].count = n /\ n > row[q].count
  BY <1>1, RowIsReserved, StoreFacts DEF Rows
<1> DEFINE w == [Intent!At("check") EXCEPT !.to = q, !.seq = n]
<1>3. wk' = [wk EXCEPT ![r] = w]
  BY <1>1, <1>2
<1>4. w \in Workers /\ w.pc = "check" /\ w.to = q /\ w.seq = n
  BY AtAStep DEF Intent!Pcs, Workers
<1> HIDE DEF w
<1>5. \A p \in Recipients : VerdictsArePaid(p)'
  <2>1. w.seq = row[q].count + 1
    BY <1>2, <1>4
  <2>2. faults' \in Nat /\ faults' >= faults /\ UNCHANGED <<phase, verdicts>>
    BY <1>0
  <2> QED BY <1>0, <1>1, <1>3, <1>4, <2>1, <2>2, ReservationIsPaid
<1>6. confirmed' \in SUBSET Recipients /\ \A p \in confirmed' : row'[p].state = "acknowledged"
  BY <1>0, <1>1, StoreFacts, RowIsReserved
     DEF IntentInvariant, Intent!TypeOK, Intent!PositiveReplyIsKept, Intent!Waiting
<1> QED BY <1>0, <1>1, <1>2, <1>3, <1>4, <1>5, <1>6, RowIsReserved, StoreStep DEF Diagnostics

\* A positive settlement makes the row acknowledged, whatever it was.
LEMMA RowIsAcknowledged ==
  ASSUME IntentInvariant, NEW q \in Recipients, NEW n \in 1..row[q].count,
         Intent!Acknowledge(q, n)
  PROVE  /\ row'[q].state = "acknowledged" /\ row'[q].count = row[q].count
         /\ row' \in [Recipients -> Rows] /\ attempts' \in [Recipients -> Diagnostics]
         /\ \A p \in Recipients \ {q} : row'[p] = row[p]
         /\ \A p \in Recipients : row'[p].count >= row[p].count /\ RowMatchesAttempts(p)'
         /\ confirmed' \in SUBSET Recipients
         /\ \A p \in confirmed' : row'[p].state = "acknowledged"
<1>1. /\ row \in [Recipients -> Rows] /\ attempts \in [Recipients -> Diagnostics]
      /\ row[q].count \in Nat /\ n \in Nat /\ row[q].count >= n /\ confirmed \in SUBSET Recipients
  BY DEF Rows, IntentInvariant, Intent!TypeOK, Diagnostics
<1> DEFINE x == [row[q] EXCEPT !.state = "acknowledged", !.token = Intent!None, !.wait = 0]
<1>2. x \in Rows /\ x.state = "acknowledged" /\ x.count = row[q].count
  BY <1>1 DEF Rows, Intent!Final, Intent!None
<1> HIDE DEF x
<1>3. row' = [row EXCEPT ![q] = IF row[q].state # "acknowledged" THEN x ELSE row[q]]
  BY <1>1 DEF Intent!Acknowledge, x
<1>4. /\ row' \in [Recipients -> Rows] /\ row'[q].state = "acknowledged"
      /\ row'[q].count = row[q].count /\ \A p \in Recipients \ {q} : row'[p] = row[p]
  BY <1>1, <1>2, <1>3
<1>5. /\ attempts' = [attempts EXCEPT ![q] = Intent!Completed(q, n, "acknowledged")]
      /\ confirmed' = confirmed \cup {q}
  BY DEF Intent!Acknowledge
<1>6. /\ Intent!Completed(q, n, "acknowledged") \in Diagnostics
      /\ \A a \in Intent!Completed(q, n, "acknowledged") : a.seq = row[q].count
      /\ \A a, b \in Intent!Completed(q, n, "acknowledged") : a = b
  <2>1. /\ attempts[q] \in Diagnostics /\ \A a \in attempts[q] : a.seq = row[q].count
        /\ \A a, b \in attempts[q] : a = b
    BY <1>1, StoreFacts DEF RowMatchesAttempts
  <2> QED BY <1>1, <2>1, OutcomeIsWritten DEF Diagnostics, Intent!Outcomes
<1>7. attempts' \in [Recipients -> Diagnostics] /\ RowMatchesAttempts(q)'
  BY <1>1, <1>4, <1>5, <1>6 DEF RowMatchesAttempts, Intent!Waiting
<1>8. \A p \in Recipients \ {q} : RowMatchesAttempts(p)'
  BY <1>1, <1>4, <1>5, StoreFacts DEF RowMatchesAttempts
<1>9. \A p \in Recipients : row'[p].count >= row[p].count
  BY <1>1, <1>4 DEF Rows
<1>10. confirmed' \in SUBSET Recipients /\ \A p \in confirmed' : row'[p].state = "acknowledged"
  BY <1>1, <1>4, <1>5 DEF IntentInvariant, Intent!PositiveReplyIsKept
<1> QED BY <1>4, <1>7, <1>8, <1>9, <1>10

\* Any other answer changes the row only when it is reserved for that attempt.
LEMMA RowIsRefused ==
  ASSUME IntentInvariant, NEW q \in Recipients, NEW n \in 1..row[q].count,
         NEW outcome \in {"rejected", "unknown"}, Intent!Refuse(q, n, outcome)
  PROVE  /\ IF row[q].state = "submitting" /\ row[q].token = n
            THEN row'[q].state = IF outcome = "unknown" THEN "retry-wait" ELSE "rejected"
            ELSE row'[q] = row[q]
         /\ row' \in [Recipients -> Rows] /\ attempts' \in [Recipients -> Diagnostics]
         /\ \A p \in Recipients \ {q} : row'[p] = row[p]
         /\ \A p \in Recipients : row'[p].count >= row[p].count /\ RowMatchesAttempts(p)'
         /\ confirmed' \in SUBSET Recipients
         /\ \A p \in confirmed' : row'[p].state = "acknowledged"
<1>1. /\ row \in [Recipients -> Rows] /\ attempts \in [Recipients -> Diagnostics]
      /\ row[q].count \in Nat /\ n \in Nat /\ row[q].count >= n /\ confirmed \in SUBSET Recipients
      /\ RowMatchesAttempts(q) /\ attempts[q] \in Diagnostics /\ row[q] \in Rows
  BY StoreFacts DEF Rows, IntentInvariant, Intent!TypeOK, Diagnostics
<1> DEFINE x == Intent!Settled(q, n, outcome)
<1> DEFINE c == Intent!Completed(q, n, outcome)
<1>2. row' = [row EXCEPT ![q] = x] /\ attempts' = [attempts EXCEPT ![q] = c] /\ confirmed' = confirmed
  BY DEF Intent!Refuse
<1>3. CASE row[q].state = "submitting" /\ row[q].token = n
  <2>1. /\ x \in Rows /\ x.state = IF outcome = "unknown" THEN "retry-wait" ELSE "rejected"
        /\ x.count = row[q].count
    <3>1. CASE outcome = "unknown"
      BY <1>1, <1>3, <3>1, RetryDelayIsNat
         DEF Intent!Settled, Intent!Retry, Rows, Intent!Pending, Intent!Waiting, Intent!None
    <3>2. CASE outcome = "rejected"
      BY <1>1, <1>3, <3>2 DEF Intent!Settled, Rows, Intent!Final, Intent!None
    <3> QED BY <3>1, <3>2
  <2>2. c = {[seq |-> n, outcome |-> outcome]} /\ n = row[q].count
    BY <1>1, <1>3, ReservedAttemptEnds DEF RowMatchesAttempts
  <2> HIDE DEF x, c
  <2>3. c \in Diagnostics
    BY <1>1, <2>2 DEF Diagnostics, Intent!Outcomes
  <2>4. /\ row' \in [Recipients -> Rows] /\ attempts' \in [Recipients -> Diagnostics]
        /\ row'[q] = x /\ attempts'[q] = c
        /\ \A p \in Recipients \ {q} : row'[p] = row[p] /\ attempts'[p] = attempts[p]
    BY <1>1, <1>2, <2>1, <2>3
  <2>5. RowMatchesAttempts(q)'
    BY <2>1, <2>2, <2>4 DEF RowMatchesAttempts, Intent!Waiting
  <2>6. \A p \in Recipients \ {q} : RowMatchesAttempts(p)'
    BY <2>4, StoreFacts DEF RowMatchesAttempts
  <2>7. \A p \in Recipients : row'[p].count >= row[p].count
    BY <1>1, <2>1, <2>4 DEF Rows
  <2>8. \A p \in confirmed' : row'[p].state = "acknowledged"
    BY <1>1, <1>2, <1>3, <2>4, StoreFacts
  <2> QED BY <1>1, <1>2, <1>3, <2>1, <2>4, <2>5, <2>6, <2>7, <2>8
<1>4. CASE ~(row[q].state = "submitting" /\ row[q].token = n)
  <2>1. x = row[q] /\ row' = row
    BY <1>1, <1>2, <1>4 DEF Intent!Settled
  <2>2. /\ c \in Diagnostics /\ \A a \in c : a.seq = row[q].count
        /\ \A a, b \in c : a = b
    <3>1. /\ attempts[q] \in Diagnostics /\ \A a \in attempts[q] : a.seq = row[q].count
          /\ \A a, b \in attempts[q] : a = b
          /\ outcome \in Intent!Outcomes
      BY <1>1 DEF RowMatchesAttempts, Intent!Outcomes
    <3>2. attempts[q] \in SUBSET [seq : Nat, outcome : Intent!Outcomes] /\ n \in Nat
      BY <1>1 DEF Diagnostics
    <3>3. PICK k : k = row[q].count
      OBVIOUS
    <3>4. /\ c \in SUBSET [seq : Nat, outcome : Intent!Outcomes]
          /\ \A a \in c : a.seq = k
          /\ \A a, b \in c : a = b
      BY <3>1, <3>2, <3>3, OutcomeIsWritten, Zenon
    <3> HIDE DEF c
    <3> QED BY <3>3, <3>4 DEF Diagnostics
  <2>3. row[q].state \in {"submitting"} \cup Intent!Waiting => c = attempts[q]
    <3>1. ASSUME row[q].state \in {"submitting"} \cup Intent!Waiting, NEW a \in attempts[q]
          PROVE  ~(a.seq = n /\ (outcome = "acknowledged" \/ a.outcome = "submitting"))
      BY <1>1, <1>4, <3>1 DEF RowMatchesAttempts
    <3> QED BY <3>1 DEF Intent!Completed
  <2>4. row[q].state = "absent" => c = {}
    BY <1>1 DEF RowMatchesAttempts, Intent!Completed
  <2> HIDE DEF x, c
  <2>5. /\ attempts' \in [Recipients -> Diagnostics] /\ attempts'[q] = c
        /\ \A p \in Recipients \ {q} : row'[p] = row[p] /\ attempts'[p] = attempts[p]
    BY <1>1, <1>2, <2>1, <2>2
  <2>6. RowMatchesAttempts(q)'
    BY <1>1, <2>1, <2>2, <2>3, <2>4, <2>5 DEF RowMatchesAttempts, Intent!Waiting
  <2>7. \A p \in Recipients \ {q} : RowMatchesAttempts(p)'
    BY <2>5, StoreFacts DEF RowMatchesAttempts
  <2>8. \A p \in Recipients : row'[p].count >= row[p].count
    BY <1>1, <2>1 DEF Rows
  <2>9. \A p \in confirmed' : row'[p].state = "acknowledged"
    BY <1>1, <1>2, <2>1, StoreFacts
  <2> QED BY <1>1, <1>2, <1>4, <2>1, <2>5, <2>6, <2>7, <2>8, <2>9
<1> QED BY <1>3, <1>4

\* Settlement never costs more than the attempt was owed.
LEMMA SettlementIsPaid ==
  ASSUME IntentInvariant, NEW r \in Runtimes, NEW w \in Workers,
         wk[r].pc \in {"acknowledged", "rejected", "unknown"}, Intent!SettleStatements(r),
         wk' = [wk EXCEPT ![r] = w], UNCHANGED <<phase, verdicts>>,
         \/ faults' = faults /\ w.pc \notin Intent!Attempting
         \/ faults' = faults + 1 /\ w.pc \notin Intent!Attempting
         \/ /\ faults' = faults + 1 /\ wk[r].pc = "acknowledged"
            /\ w.pc = "unknown" /\ w.to = wk[r].to /\ w.seq = wk[r].seq
  PROVE  /\ row' \in [Recipients -> Rows] /\ attempts' \in [Recipients -> Diagnostics]
         /\ \A p \in Recipients : row'[p].count >= row[p].count /\ RowMatchesAttempts(p)'
         /\ confirmed' \in SUBSET Recipients
         /\ \A p \in confirmed' : row'[p].state = "acknowledged"
         /\ \A p \in Recipients : VerdictsArePaid(p)'
<1>0. /\ wk[r].to \in Recipients /\ wk[r].seq \in 1..row[wk[r].to].count
      /\ wk[r].pc \in Intent!Attempting
  BY IntentFacts DEF Intent!Attempting
<1> PICK q \in Recipients : q = wk[r].to
  BY <1>0
<1> PICK n \in 1..row[q].count : n = wk[r].seq
  BY <1>0
<1>1. /\ q \in Recipients /\ n \in 1..row[q].count /\ verdicts \in [Recipients -> Nat]
      /\ faults \in Nat /\ faults' \in Nat /\ faults' >= faults /\ wk \in [Runtimes -> Workers]
      /\ wk[r].pc \in Intent!Attempting
  BY IntentFacts, <1>0
<1>2. /\ row' \in [Recipients -> Rows] /\ attempts' \in [Recipients -> Diagnostics]
      /\ \A p \in Recipients : row'[p].count >= row[p].count /\ RowMatchesAttempts(p)'
      /\ confirmed' \in SUBSET Recipients
      /\ \A p \in confirmed' : row'[p].state = "acknowledged"
      /\ \A p \in Recipients \ {q} : row'[p] = row[p]
      /\ wk[r].pc = "acknowledged" => row'[q].state = "acknowledged"
      /\ wk[r].pc # "acknowledged" =>
           IF row[q].state = "submitting" /\ row[q].token = n
           THEN row'[q].state = IF wk[r].pc = "unknown" THEN "retry-wait" ELSE "rejected"
           ELSE row'[q] = row[q]
  <2>1. CASE wk[r].pc = "acknowledged"
    <3>1. Intent!Acknowledge(q, n)
      BY <2>1 DEF Intent!SettleStatements
    <3> QED BY <1>1, <2>1, <3>1, RowIsAcknowledged
  <2>2. CASE wk[r].pc \in {"rejected", "unknown"}
    <3>1. Intent!Refuse(q, n, wk[r].pc)
      BY <2>2 DEF Intent!SettleStatements
    <3> QED BY <1>1, <2>2, <3>1, RowIsRefused
  <2> QED BY <2>1, <2>2
<1>3. wk'[r] = w /\ \A s \in Runtimes \ {r} : wk'[s] = wk[s]
  BY <1>1
<1>4. ASSUME NEW p \in Recipients \ {q} PROVE VerdictsArePaid(p)'
  <2>1. row'[p] = row[p] /\ verdicts'[p] = verdicts[p]
    BY <1>2
  <2>2. ~(wk[r].pc \in Intent!Attempting /\ wk[r].to = p) /\ ~(w.pc \in Intent!Attempting /\ w.to = p)
    OBVIOUS
  <2> QED BY <1>1, <2>1, <2>2, RowStays
<1>5. Sends(w, q) = 0 /\ Sends(wk[r], q) = 0
  BY DEF Sends, Intent!Attempting
<1>6. verdicts'[q] = verdicts[q] /\ verdicts[q] \in Nat
  BY <1>1
<1>7. CASE row'[q].state \in Intent!Final
  <2>1. PICK m \in 0..3 : m = 0 /\ Owed(q, m)'
    BY <1>7 DEF Owed
  <2>2. \A k \in 0..3 : Owed(q, k) => m <= k
    BY <2>1
  <2>3. Sends(w, q) <= Sends(wk[r], q)
    BY <1>5
  <2> QED BY <1>1, <1>4, <1>6, <1>2, <2>1, <2>2, <2>3, RowMoves
<1>8. CASE row'[q].state = "retry-wait" /\ row[q].state = "submitting" /\ row[q].token = n
           /\ wk[r].pc = "unknown"
  <2>1. PICK m \in 0..3 : m = 1 /\ Owed(q, m)'
    BY <1>8 DEF Owed, Intent!Waiting
  <2>2. Holds(r, q) /\ OwedBy(r, q) \in 1..3
    BY <1>1, <1>8 DEF Holds, Intent!Current, OwedBy
  <2>3. \A k \in 0..3 : Owed(q, k) => k >= 1
    BY <1>1, <2>2, OwedByHolder
  <2>4. \A k \in 0..3 : Owed(q, k) => m <= k
    BY <2>1, <2>3
  <2>5. Sends(w, q) <= Sends(wk[r], q)
    BY <1>5
  <2> QED BY <1>1, <1>4, <1>6, <1>2, <2>1, <2>4, <2>5, RowMoves
<1>9. CASE wk[r].pc # "acknowledged" /\ row'[q] = row[q]
           /\ ~(row[q].state = "submitting" /\ row[q].token = n)
  <2>1. ~Holds(r, q)
    BY <1>9 DEF Holds, Intent!Current
  <2>2. w.pc \notin Intent!Attempting
    BY <1>9
  <2>3. Continues(r, w) /\ Affordable(r, w, q)
    BY <1>1, <1>5, <1>6, <2>1, <2>2 DEF Continues, Affordable
  <2> QED BY <1>1, <1>2, <1>4, <1>6, <1>9, <2>3, WorkerMoves
<1>10. row'[q].state \in Intent!Final \/ wk[r].pc # "acknowledged"
  BY <1>2 DEF Intent!Final
<1> QED BY <1>2, <1>7, <1>8, <1>9, <1>10 DEF Intent!Final

LEMMA SettlementIsSafe ==
  ASSUME IntentInvariant, NEW r \in Runtimes, Intent!settleAttempt(r)
  PROVE  IntentInvariant'
<1>0. /\ wk[r].pc \in {"acknowledged", "rejected", "unknown"} /\ Intent!SettleStatements(r)
      /\ wk' = [wk EXCEPT ![r] = Intent!LoopHead(r)] /\ phase[r] # "down"
      /\ UNCHANGED <<phase, timer, verdicts, faults>> /\ faults \in Nat
      /\ timer \in [Runtimes -> Nat \cup {Intent!NoTimer}]
      /\ phase[r] # "up" => timer[r] = Intent!NoTimer
  BY IntentFacts DEF Intent!settleAttempt, Intent!Goto
<1>1. /\ Intent!LoopHead(r) \in Workers /\ Intent!LoopHead(r).pc \notin Intent!Attempting
      /\ Intent!LoopHead(r).pc # "arm" /\ (Intent!LoopHead(r).pc = "idle" => phase[r] # "up")
  BY LoopHeadStep DEF Intent!Attempting
<1> QED BY <1>0, <1>1, SettlementIsPaid, StoreStep DEF Diagnostics

LEMMA StorageFailuresAreSafe ==
  ASSUME IntentInvariant, NEW r \in Runtimes, Intent!StorageFails(r)
  PROVE  IntentInvariant'
<1>0. /\ faults \in Nat /\ faults' = faults + 1 /\ faults' \in Nat /\ faults' >= faults
      /\ UNCHANGED <<phase, verdicts>> /\ wk \in [Runtimes -> Workers]
      /\ verdicts \in [Recipients -> Nat] /\ RecoveryScan \in Nat
      /\ timer \in [Runtimes -> Nat \cup {Intent!NoTimer}]
      /\ phase \in [Runtimes -> {"down", "up", "stopping"}]
      /\ phase[r] # "up" => timer[r] = Intent!NoTimer
  BY IntentFacts, IntentAssumption DEF Intent!StorageFails, Intent!TimingAssumption
<1>1. CASE Intent!StatementFails(r)
  BY <1>0, <1>1, AbandonedStep DEF Intent!StatementFails
<1>2. ASSUME Intent!Abandon(r)
      PROVE  /\ wk' = [wk EXCEPT ![r] = Intent!Idle]
             /\ Intent!Idle \in Workers /\ Intent!Idle.pc = "idle"
             /\ timer' \in [Runtimes -> Nat \cup {Intent!NoTimer}]
             /\ \A s \in Runtimes \ {r} : timer'[s] = timer[s]
             /\ phase[r] = "up" => timer'[r] \in 0..RecoveryScan
             /\ phase[r] # "up" => timer'[r] = Intent!NoTimer
  BY <1>0, <1>2, IdleAndLoopHead
     DEF Intent!Abandon, Intent!Goto, Intent!ScanTimer, Intent!Up
<1>3. CASE /\ wk[r].pc = "reserve" /\ \E q \in Recipients : Intent!ReserveRow(q)
           /\ Intent!Abandon(r) /\ UNCHANGED confirmed
  <2>1. PICK q \in Recipients : Intent!ReserveRow(q)
    BY <1>3
  <2>2. \A p \in Recipients : VerdictsArePaid(p)'
    BY <1>0, <1>2, <1>3, <2>1, ReservationIsPaid
  <2>3. confirmed' \in SUBSET Recipients /\ \A p \in confirmed' : row'[p].state = "acknowledged"
    BY <1>3, <2>1, StoreFacts, RowIsReserved
       DEF IntentInvariant, Intent!TypeOK, Intent!PositiveReplyIsKept, Intent!Waiting
  <2>4. phase[r] # "down" /\ Intent!Idle.pc \notin Intent!Attempting
    BY <1>2, <1>3, IntentFacts DEF Intent!Attempting
  <2>5. Intent!Idle.pc # "arm"
    BY <1>2, <1>3
  <2> QED BY <1>0, <1>2, <1>3, <2>1, <2>2, <2>3, <2>4, <2>5, RowIsReserved, StoreStep
          DEF Diagnostics
<1>4. CASE /\ wk[r].pc \in {"rejected", "unknown"} /\ Intent!SettleStatements(r)
           /\ Intent!Abandon(r)
  <2>1. phase[r] # "down" /\ Intent!Idle.pc \notin Intent!Attempting /\ Intent!Idle.pc # "arm"
    BY <1>2, <1>4, IntentFacts DEF Intent!Attempting
  <2> QED BY <1>0, <1>2, <1>4, <2>1, SettlementIsPaid, StoreStep DEF Diagnostics
<1>5. CASE Intent!AcknowledgeFails(r)
  <2> DEFINE w == IF Intent!Up(r) THEN [wk[r] EXCEPT !.pc = "unknown"] ELSE Intent!LoopHead(r)
  <2>1. wk[r].pc = "acknowledged" /\ wk' = [wk EXCEPT ![r] = w] /\ timer' = timer
    BY <1>5 DEF Intent!AcknowledgeFails, Intent!Goto
  <2>2. /\ w \in Workers /\ Continues(r, w) /\ w.pc # "arm" /\ phase[r] # "down"
        /\ w.pc = "idle" => phase[r] # "up"
        /\ \/ w.pc \notin Intent!Attempting
           \/ w.pc = "unknown" /\ w.to = wk[r].to /\ w.seq = wk[r].seq
    <3>1. CASE Intent!Up(r)
      BY <2>1, <3>1, AttemptMoves, IntentFacts DEF Intent!Attempting, Continues
    <3>2. CASE ~Intent!Up(r)
      BY <2>1, <3>2, LoopHeadStep, IntentFacts DEF Intent!Attempting
    <3> QED BY <3>1, <3>2
  <2> HIDE DEF w
  <2>3. CASE Intent!SettleStatements(r)
    <3>1. /\ row' \in [Recipients -> Rows] /\ attempts' \in [Recipients -> Diagnostics]
          /\ \A p \in Recipients : row'[p].count >= row[p].count /\ RowMatchesAttempts(p)'
          /\ confirmed' \in SUBSET Recipients
          /\ \A p \in confirmed' : row'[p].state = "acknowledged"
          /\ \A p \in Recipients : VerdictsArePaid(p)'
      BY <1>0, <2>1, <2>2, <2>3, SettlementIsPaid
    <3>2. /\ \/ w.pc \notin Intent!Attempting
             \/ wk[r].pc \in Intent!Attempting /\ w.to = wk[r].to /\ w.seq = wk[r].seq
          /\ phase[r] = "up" /\ w.pc = "idle" => timer'[r] \in 0..RecoveryScan
          /\ phase[r] # "up" => timer'[r] = Intent!NoTimer
      BY <1>0, <2>1, <2>2 DEF Continues
    <3>3. \A s \in Runtimes \ {r} : timer'[s] = timer[s]
      BY <2>1
    <3>4. timer' \in [Runtimes -> Nat \cup {Intent!NoTimer}]
      BY <1>0, <2>1
    <3> QED BY <1>0, <2>1, <2>2, <3>1, <3>2, <3>3, <3>4, StoreStep DEF Diagnostics
  <2>4. CASE UNCHANGED <<row, attempts, confirmed>>
    <3>1. ASSUME NEW q \in Recipients PROVE Affordable(r, w, q)
      <4>1. verdicts[q] \in Nat /\ verdicts'[q] = verdicts[q]
        BY <1>0
      <4>2. wk'[r] = w /\ Sends(w, q) = 0 /\ Sends(wk[r], q) = 0
        BY <1>0, <2>1, <2>2 DEF Sends, Intent!Attempting
      <4>3. OwedBy(r, q) \in 0..3
        BY OwedByRange
      <4>4. w.pc \in Intent!Attempting => OwedBy(r, q)' <= OwedBy(r, q) + 1
        BY <1>0, <2>1, <2>2, <2>4, <4>2 DEF OwedBy, Intent!Up
      <4>5. OwedBy(r, q)' \in 0..3
        BY DEF OwedBy
      <4> QED BY <1>0, <4>1, <4>2, <4>3, <4>4, <4>5 DEF Affordable
    <3> QED BY <1>0, <2>1, <2>2, <2>4, <3>1, QuietStep
  <2> QED BY <1>5, <2>3, <2>4 DEF Intent!AcknowledgeFails
<1> QED BY <1>1, <1>3, <1>4, <1>5 DEF Intent!StorageFails, Intent!CommitReplyLost

\* The acceptance of the intent.
LEMMA StagingIsSafe ==
  ASSUME IntentInvariant, Intent!Stage PROVE IntentInvariant'
<1>1. /\ wk' = wk /\ UNCHANGED <<attempts, phase, timer, verdicts, confirmed, faults>>
      /\ row' = [q \in Recipients |-> [Intent!Absent EXCEPT !.state = "accepted"]]
      /\ \A q \in Recipients : row[q] = Intent!Absent
  BY DEF Intent!Stage
<1>2. \A q \in Recipients :
        /\ row'[q] \in Rows /\ row'[q].state = "accepted" /\ row'[q].count = row[q].count
        /\ row[q].state = "absent" /\ row[q].count = 0
  BY <1>1 DEF Intent!Absent, Rows, Intent!Pending, Intent!Waiting, Intent!None
<1>3. row' \in [Recipients -> Rows]
  <2>1. row' = [q \in Recipients |-> row'[q]]
    BY <1>1
  <2> QED BY <1>2, <2>1
<1>4. Intent!TypeOK'
  BY <1>1, <1>3 DEF IntentInvariant, Intent!TypeOK, Rows
<1>5. \A r \in Runtimes : WorkerHolds(r)'
  BY <1>1, <1>2 DEF IntentInvariant, WorkerHolds
<1>6. NumbersAreUnique'
  BY <1>1 DEF IntentInvariant, NumbersAreUnique
<1>7. \A q \in Recipients : RowMatchesAttempts(q)'
  BY <1>1, <1>2 DEF IntentInvariant, RowMatchesAttempts, Intent!Waiting
<1>8. Intent!PositiveReplyIsKept'
  BY <1>1, <1>2 DEF IntentInvariant, Intent!PositiveReplyIsKept, Intent!TypeOK
<1>9. Intent!TimerMatchesPhase'
  BY <1>1 DEF IntentInvariant, Intent!TimerMatchesPhase, Intent!Up
<1>10. ASSUME NEW q \in Recipients PROVE VerdictsArePaid(q)'
  <2>1. PICK n \in 0..3 : Owed(q, n) /\ verdicts[q] + Cardinality(Sending(q)) + n <= 1 + faults
    BY DEF IntentInvariant, VerdictsArePaid
  <2>2. n = 1 /\ Owed(q, n)'
    BY <1>2, <2>1 DEF Owed, Intent!Waiting, Intent!Final
  <2>3. Sending(q)' = Sending(q)
    BY <1>1 DEF Sending
  <2> QED BY <1>1, <2>1, <2>2, <2>3 DEF VerdictsArePaid
<1> QED BY <1>4, <1>5, <1>6, <1>7, <1>8, <1>9, <1>10 DEF IntentInvariant

\* Time passes; whoever holds a reservation when its last tick passes commits a fault.
LEMMA TimePassesSafely ==
  ASSUME IntentInvariant, Intent!Tick PROVE IntentInvariant'
<1>0. /\ wk \in [Runtimes -> Workers] /\ row \in [Recipients -> Rows] /\ faults \in Nat
      /\ timer \in [Runtimes -> Nat \cup {Intent!NoTimer}] /\ verdicts \in [Recipients -> Nat]
  BY DEF IntentInvariant, Intent!TypeOK, Workers, Rows
<1>1. /\ UNCHANGED <<attempts, phase, verdicts, confirmed>>
      /\ faults' \in Nat /\ faults' >= faults /\ (Intent!Overrun => faults' = faults + 1)
  BY <1>0 DEF Intent!Tick
<1>2. ASSUME NEW q \in Recipients
      PROVE  /\ row'[q] \in Rows /\ row'[q].state = row[q].state
             /\ row'[q].count = row[q].count /\ row'[q].token = row[q].token
             /\ row'[q].wait = IF row[q].wait > 0 THEN row[q].wait - 1 ELSE 0
  <2>1. PICK t \in Nat : t = IF row[q].wait > 0 THEN row[q].wait - 1 ELSE 0
    BY <1>0 DEF Rows
  <2>2. row'[q] = [row[q] EXCEPT !.wait = t]
    BY <2>1 DEF Intent!Tick
  <2> QED BY <1>0, <2>1, <2>2 DEF Rows
<1>3. ASSUME NEW r \in Runtimes
      PROVE  /\ wk'[r] \in Workers /\ wk'[r].pc = wk[r].pc /\ wk'[r].to = wk[r].to
             /\ wk'[r].seq = wk[r].seq /\ wk'[r].wait <= wk[r].wait /\ wk[r].wait \in Nat
  <2>1. PICK t \in Nat : t = IF wk[r].wait > 0 THEN wk[r].wait - 1 ELSE 0
    BY <1>0 DEF Workers
  <2>2. wk'[r] = [wk[r] EXCEPT !.wait = t]
    BY <2>1 DEF Intent!Tick
  <2>3. wk[r] \in Workers /\ wk[r].wait \in Nat
    BY <1>0 DEF Workers
  <2> QED BY <2>1, <2>2, <2>3 DEF Workers
<1>4. ASSUME NEW r \in Runtimes
      PROVE  /\ timer'[r] \in Nat \cup {Intent!NoTimer}
             /\ timer[r] \in 0..RecoveryScan => timer'[r] \in 0..RecoveryScan
             /\ timer[r] = Intent!NoTimer => timer'[r] = Intent!NoTimer
  <2>1. timer[r] \in Nat \cup {Intent!NoTimer} /\ RecoveryScan \in Nat
    BY <1>0, IntentAssumption DEF Intent!TimingAssumption
  <2>2. timer'[r] = IF timer[r] > 0 THEN timer[r] - 1 ELSE timer[r]
    BY DEF Intent!Tick
  <2> QED BY <2>1, <2>2 DEF Intent!NoTimer
<1>5. /\ wk' \in [Runtimes -> Workers] /\ row' \in [Recipients -> Rows]
      /\ timer' \in [Runtimes -> Nat \cup {Intent!NoTimer}]
  <2>1. /\ wk' = [r \in Runtimes |-> wk'[r]] /\ timer' = [r \in Runtimes |-> timer'[r]]
        /\ row' = [q \in Recipients |-> row'[q]]
    BY DEF Intent!Tick
  <2>2. \A r \in Runtimes : wk'[r] \in Workers /\ timer'[r] \in Nat \cup {Intent!NoTimer}
    BY <1>3, <1>4
  <2>3. \A q \in Recipients : row'[q] \in Rows
    BY <1>2
  <2> QED BY <2>1, <2>2, <2>3
<1>6. Intent!TypeOK'
  BY <1>1, <1>5 DEF IntentInvariant, Intent!TypeOK, Rows, Workers
<1>7. ASSUME NEW r \in Runtimes PROVE WorkerHolds(r)'
  <2>1. WorkerHolds(r) /\ wk'[r].wait \in Nat /\ RecoveryScan \in Nat
    BY <1>3, IntentAssumption DEF IntentInvariant, Workers, Intent!TimingAssumption
  <2>2. wk[r].pc \in Intent!Attempting => row'[wk[r].to].count = row[wk[r].to].count
    BY <1>2, <2>1 DEF WorkerHolds
  <2> QED BY <1>1, <1>3, <2>1, <2>2 DEF WorkerHolds
<1>8. NumbersAreUnique'
  BY <1>3 DEF IntentInvariant, NumbersAreUnique
<1>9. \A q \in Recipients : RowMatchesAttempts(q)'
  BY <1>1, <1>2 DEF IntentInvariant, RowMatchesAttempts
<1>10. Intent!PositiveReplyIsKept'
  BY <1>1, <1>2 DEF IntentInvariant, Intent!PositiveReplyIsKept, Intent!TypeOK
<1>11. Intent!TimerMatchesPhase'
  BY <1>1, <1>3, <1>4 DEF IntentInvariant, Intent!TimerMatchesPhase, Intent!Up
<1>12. ASSUME NEW q \in Recipients PROVE VerdictsArePaid(q)'
  <2>1. PICK n \in 0..3 : Owed(q, n) /\ verdicts[q] + Cardinality(Sending(q)) + n <= 1 + faults
    BY DEF IntentInvariant, VerdictsArePaid
  <2>2. \A r \in Runtimes : Holds(r, q)' <=> Holds(r, q)
    BY <1>2, <1>3 DEF Holds, Intent!Current
  <2>3. Sending(q)' = Sending(q)
    BY <1>3 DEF Sending
  <2>4. Cardinality(Sending(q)) \in Nat /\ verdicts[q] \in Nat /\ verdicts'[q] = verdicts[q]
    <3>1. IsFiniteSet(Sending(q))
      BY IntentAssumption, SameCardinality, FS_Subset DEF Intent!TimingAssumption, Sending
    <3> QED BY <1>0, <1>1, <3>1, FS_CardinalityType
  <2>5. CASE row[q].state # "submitting" \/ \A r \in Runtimes : ~Holds(r, q)
    <3>1. Owed(q, n)'
      BY <1>2, <2>1, <2>2, <2>5 DEF Owed
    <3> QED BY <1>0, <1>1, <2>1, <2>3, <2>4, <3>1 DEF VerdictsArePaid
  <2>6. CASE row[q].state = "submitting" /\ \E r \in Runtimes : Holds(r, q)
    <3>1. PICK r \in Runtimes : Holds(r, q)
      BY <2>6
    <3>2. n = OwedBy(r, q)
      BY <2>1, <3>1, OwedByHolder
    <3>3. PICK m \in 0..3 : m = OwedBy(r, q)'
      BY DEF OwedBy
    <3>4. Owed(q, m)'
      BY <1>2, <2>2, <2>6, <3>1, <3>3 DEF Owed
    <3>5. m <= n \/ (m <= n + 1 /\ faults' = faults + 1)
      <4>1. row[q].wait = 1 => faults' = faults + 1
        BY <1>1, <3>1 DEF Intent!Overrun, Holds
      <4>2. row[q].wait \in Nat /\ row'[q].wait = IF row[q].wait > 0 THEN row[q].wait - 1 ELSE 0
        BY <1>0, <1>2 DEF Rows
      <4>3. CASE row[q].wait = 1
        <5>1. m <= n + 1
          BY <1>1, <1>3, <3>2, <3>3, <4>2, <4>3 DEF OwedBy, Intent!Up
        <5> QED BY <4>1, <4>3, <5>1
      <4>4. CASE row[q].wait # 1
        <5>1. row'[q].wait = 0 <=> row[q].wait = 0
          BY <4>2, <4>4
        <5>2. m = n
          BY <1>1, <1>3, <3>2, <3>3, <5>1 DEF OwedBy, Intent!Up
        <5> QED BY <5>2
      <4> QED BY <4>3, <4>4
    <3>6. verdicts[q] + Cardinality(Sending(q)) + m <= 1 + faults'
      <4>1. PICK c, v \in Nat : c = Cardinality(Sending(q)) /\ v = verdicts[q]
        BY <2>4
      <4>2. v + c + n <= 1 + faults /\ n \in 0..3 /\ m \in 0..3
        BY <2>1, <3>3, <4>1
      <4>3. v + c + m <= 1 + faults'
        BY <1>0, <1>1, <3>5, <4>1, <4>2
      <4> QED BY <4>1, <4>3
    <3> QED BY <2>3, <2>4, <3>4, <3>6 DEF VerdictsArePaid
  <2> QED BY <2>5, <2>6
<1> QED BY <1>6, <1>7, <1>8, <1>9, <1>10, <1>11, <1>12 DEF IntentInvariant

LEMMA IntentStarts ==
  ASSUME Intent!Init PROVE IntentInvariant
<1>1. /\ row = [q \in Recipients |-> Intent!Absent] /\ attempts = [q \in Recipients |-> {}]
      /\ phase = [r \in Runtimes |-> "down"] /\ wk = [r \in Runtimes |-> Intent!Idle]
      /\ timer = [r \in Runtimes |-> Intent!NoTimer] /\ verdicts = [q \in Recipients |-> 0]
      /\ confirmed = {} /\ faults = 0
  BY DEF Intent!Init
<1>2. /\ Intent!Absent \in Rows /\ Intent!Absent.state = "absent" /\ Intent!Absent.count = 0
  BY DEF Intent!Absent, Intent!None, Rows
<1>3. Intent!Idle \in Workers /\ Intent!Idle.pc = "idle"
  BY DEF Intent!Idle, Intent!None, Intent!Pcs, Workers
<1>4. Intent!TypeOK
  BY <1>1, <1>2, <1>3 DEF Intent!TypeOK, Rows, Workers
<1>5. \A r \in Runtimes : WorkerHolds(r)
  BY <1>1, <1>3 DEF WorkerHolds, Intent!Attempting
<1>6. NumbersAreUnique
  BY <1>1, <1>3 DEF NumbersAreUnique, Intent!Attempting
<1>7. \A q \in Recipients : RowMatchesAttempts(q)
  BY <1>1, <1>2 DEF RowMatchesAttempts, Intent!Waiting
<1>8. Intent!PositiveReplyIsKept
  BY <1>1 DEF Intent!PositiveReplyIsKept
<1>9. Intent!TimerMatchesPhase
  BY <1>1 DEF Intent!TimerMatchesPhase, Intent!Up
<1>10. ASSUME NEW q \in Recipients PROVE VerdictsArePaid(q)
  <2>1. Sending(q) = {}
    BY <1>1, <1>3 DEF Sending
  <2>2. Cardinality(Sending(q)) = 0
    BY <2>1, FS_EmptySet
  <2>3. PICK n \in 0..3 : n = 1 /\ Owed(q, n)
    BY <1>1, <1>2 DEF Owed
  <2>4. verdicts[q] + Cardinality(Sending(q)) + n <= 1 + faults
    BY <1>1, <2>2, <2>3
  <2> QED BY <2>3, <2>4 DEF VerdictsArePaid
<1> QED BY <1>4, <1>5, <1>6, <1>7, <1>8, <1>9, <1>10 DEF IntentInvariant

LEMMA WorkIsSafe ==
  ASSUME IntentInvariant, NEW r \in Runtimes, Intent!Work(r) PROVE IntentInvariant'
BY RecoveryIsSafe, ReservationIsSafe, EmptyPassesAreSafe, ChecksAreSafe, SubmissionsAreSafe,
   AcceptancesAreSafe, PositiveRepliesAreSafe, NegativeRepliesAreSafe, AbortsAreSafe,
   SettlementIsSafe, WakesAreSafe, ArmingIsSafe, FiringIsSafe DEF Intent!Work

LEMMA IntentMoves ==
  ASSUME IntentInvariant, Intent!Next PROVE IntentInvariant'
<1>1. CASE Intent!Stage
  BY <1>1, StagingIsSafe
<1>2. CASE Intent!Tick
  BY <1>2, TimePassesSafely
<1>3. ASSUME NEW r \in Runtimes,
             \/ Intent!Work(r) \/ Intent!Uncertain(r) \/ Intent!StorageFails(r)
             \/ Intent!startNotificationIntentWorker(r) \/ Intent!stopNotificationIntentWorker(r)
             \/ Intent!Stopped(r) \/ Intent!Crash(r)
      PROVE  IntentInvariant'
  BY <1>3, WorkIsSafe, UncertaintiesAreSafe, StorageFailuresAreSafe, StartIsSafe, StopIsSafe,
     StoppingIsSafe, CrashIsSafe
<1> QED BY <1>1, <1>2, <1>3 DEF Intent!Next

LEMMA IntentStutters ==
  ASSUME IntentInvariant, UNCHANGED intents PROVE IntentInvariant'
<1>1. UNCHANGED <<row, attempts, phase, wk, timer, verdicts, confirmed, faults>>
  BY DEF intents, intentVars
<1>2. Intent!TypeOK' /\ Intent!PositiveReplyIsKept' /\ Intent!TimerMatchesPhase'
  BY <1>1 DEF IntentInvariant, Intent!TypeOK, Intent!PositiveReplyIsKept,
              Intent!TimerMatchesPhase, Intent!Up
<1>3. \A r \in Runtimes : WorkerHolds(r)'
  BY <1>1 DEF IntentInvariant, WorkerHolds
<1>4. NumbersAreUnique'
  BY <1>1 DEF IntentInvariant, NumbersAreUnique
<1>5. \A q \in Recipients : RowMatchesAttempts(q)'
  BY <1>1 DEF IntentInvariant, RowMatchesAttempts
<1>6. \A q \in Recipients : VerdictsArePaid(q)'
  BY <1>1 DEF IntentInvariant, VerdictsArePaid, Owed, OwedBy, Holds, Sending, Intent!Up,
              Intent!Current
<1> QED BY <1>2, <1>3, <1>4, <1>5, <1>6 DEF IntentInvariant

\* What the invariant says of deliveries.
LEMMA IntentInvariantIsEnough ==
  ASSUME IntentInvariant
  PROVE  /\ Intent!TypeOK /\ Intent!OneDiagnosticPerRecipient /\ Intent!PositiveReplyIsKept
         /\ Intent!DuplicatesArePaidFor /\ Intent!OneCurrentSender /\ Intent!TimerMatchesPhase
<1>1. ASSUME NEW q \in Recipients PROVE Intent!Cardinality(attempts[q]) <= 1
  <2>1. \A a, b \in attempts[q] : a = b
    BY DEF IntentInvariant, RowMatchesAttempts
  <2>2. attempts[q] = {} \/ \E a : attempts[q] = {a}
    BY <2>1
  <2>3. CASE attempts[q] = {}
    <3>1. Cardinality(attempts[q]) = 0
      BY <2>3, FS_EmptySet
    <3> QED BY <3>1, SameCardinality
  <2>4. CASE \E a : attempts[q] = {a}
    <3>1. PICK a : attempts[q] = {a}
      BY <2>4
    <3>2. Cardinality({a}) = 1
      BY FS_Singleton
    <3> QED BY <3>1, <3>2, SameCardinality
  <2> QED BY <2>2, <2>3, <2>4
<1>2. Intent!OneDiagnosticPerRecipient
  BY <1>1 DEF IntentInvariant, RowMatchesAttempts, Intent!OneDiagnosticPerRecipient
<1>3. Intent!OneCurrentSender
  BY DEF IntentInvariant, NumbersAreUnique, Intent!OneCurrentSender, Intent!Current
<1>4. ASSUME NEW q \in Recipients PROVE verdicts[q] <= 1 + faults
  <2>1. PICK n \in 0..3 : verdicts[q] + Cardinality(Sending(q)) + n <= 1 + faults
    BY DEF IntentInvariant, VerdictsArePaid
  <2>2. Cardinality(Sending(q)) \in Nat
    <3>1. IsFiniteSet(Sending(q))
      BY IntentAssumption, SameCardinality, FS_Subset DEF Intent!TimingAssumption, Sending
    <3> QED BY <3>1, FS_CardinalityType
  <2>3. verdicts[q] \in Nat /\ faults \in Nat
    BY DEF IntentInvariant, Intent!TypeOK
  <2> QED BY <2>1, <2>2, <2>3
<1> QED BY <1>2, <1>3, <1>4 DEF IntentInvariant, Intent!DuplicatesArePaidFor

\* A step of the intents is one of Next; the steps of the other part leave part alone.
LEMMA IntentPersists ==
  ASSUME part = "intent" => IntentInvariant, [MCNext]_allVars
  PROVE  (part = "intent" => IntentInvariant)'
<1>1. CASE MCNext
  <2>1. part' = part
    BY <1>1 DEF MCNext
  <2>2. CASE part = "intent"
    BY <1>1, <2>1, <2>2, IntentMoves DEF MCNext
  <2>3. CASE part # "intent"
    BY <2>1, <2>3
  <2> QED BY <2>2, <2>3
<1>2. CASE UNCHANGED allVars
  BY <1>2, IntentStutters DEF allVars, vars, intents
<1> QED BY <1>1, <1>2

\* Deliveries are safe for any recipients and runtimes, any reservation, back-off and scan
\* period, and any number of faults: whatever went wrong, the receiver decides at most once
\* more for each fault, and what it accepted stays acknowledged.
THEOREM DeliveriesAreSafe == MCSpec => []IntentsAreSafe
<1> DEFINE I == part = "intent" => IntentInvariant
<1>1. MCInit => I
  BY IntentStarts DEF MCInit
<1>2. I /\ [MCNext]_allVars => I'
  BY IntentPersists
<1>3. I => IntentsAreSafe
  BY IntentInvariantIsEnough DEF IntentsAreSafe
<1> QED BY <1>1, <1>2, <1>3, PTL DEF MCSpec

\* A recipient leaves a final state only for "acknowledged", and "absent" only when the
\* intent is staged: the statements of every handler are guarded by the state they read.
LEMMA RowsEnd ==
  ASSUME IntentInvariant, Intent!Next, NEW q \in Recipients
  PROVE  /\ row[q].state \in Intent!Final => row'[q].state \in Intent!Final
         /\ row[q].state = "acknowledged" => row'[q].state = "acknowledged"
         /\ row[q].state = "absent" /\ ~Intent!Stage => row'[q].state = "absent"
<1> DEFINE Kept == /\ row[q].state \in Intent!Final => row'[q].state \in Intent!Final
                   /\ row[q].state = "acknowledged" => row'[q].state = "acknowledged"
                   /\ row[q].state = "absent" /\ ~Intent!Stage => row'[q].state = "absent"
<1>1. row \in [Recipients -> Rows]
  BY DEF IntentInvariant, Intent!TypeOK, Rows
<1>2. CASE Intent!Stage
  BY <1>2 DEF Intent!Stage, Intent!Final, Intent!Absent
<1>3. CASE Intent!Tick
  BY <1>1, <1>3 DEF Intent!Tick, Rows
<1>4. CASE UNCHANGED row
  BY <1>4
<1>5. ASSUME NEW r \in Runtimes, Intent!recoverExpiredReservations(r) PROVE Kept
  BY <1>1, <1>5 DEF Intent!recoverExpiredReservations, Intent!Expired, Intent!Final, Rows
<1>6. ASSUME NEW p \in Recipients, Intent!ReserveRow(p) PROVE Kept
  <2>1. row[p].state \in Intent!Waiting /\ \A o \in Recipients : o # p => row'[o] = row[o]
    BY <1>1, <1>6 DEF Intent!ReserveRow, Intent!Due
  <2> QED BY <2>1 DEF Intent!Waiting, Intent!Final
<1>7. ASSUME NEW r \in Runtimes, wk[r].pc \in {"acknowledged", "rejected", "unknown"},
             Intent!SettleStatements(r)
      PROVE  Kept
  <2>1. /\ wk[r].to \in Recipients /\ wk[r].seq \in Nat
        /\ wk[r].seq >= 1 /\ row[wk[r].to].count \in Nat /\ wk[r].seq <= row[wk[r].to].count
    BY <1>1, <1>7 DEF IntentInvariant, WorkerHolds, Intent!Attempting, Rows
  <2>2. row[q].state = "absent" => row[q].count = 0
    BY DEF IntentInvariant, RowMatchesAttempts
  <2>3. CASE wk[r].pc = "acknowledged"
    <3>1. Intent!Acknowledge(wk[r].to, wk[r].seq)
      BY <1>7, <2>3 DEF Intent!SettleStatements
    <3>2. CASE q = wk[r].to
      <4>1. row[q].state # "absent"
        BY <2>1, <2>2, <3>2
      <4> QED BY <1>1, <2>1, <3>1, <3>2, <4>1 DEF Intent!Acknowledge, Intent!Final, Rows
    <3>3. CASE q # wk[r].to
      BY <1>1, <3>1, <3>3 DEF Intent!Acknowledge
    <3> QED BY <3>2, <3>3
  <2>4. CASE wk[r].pc # "acknowledged"
    <3>1. row' = [row EXCEPT ![wk[r].to] = Intent!Settled(wk[r].to, wk[r].seq, wk[r].pc)]
      BY <1>7, <2>4 DEF Intent!SettleStatements, Intent!Refuse
    <3>2. row[wk[r].to].state # "submitting" => Intent!Settled(wk[r].to, wk[r].seq, wk[r].pc) = row[wk[r].to]
      BY DEF Intent!Settled
    <3>3. row[q].state \in Intent!Final \cup {"absent"} => row'[q] = row[q]
      BY <1>1, <2>1, <3>1, <3>2 DEF Intent!Final
    <3> QED BY <3>3 DEF Intent!Final
  <2> QED BY <2>3, <2>4
<1>8. ASSUME NEW r \in Runtimes, Intent!Work(r) PROVE Kept
  BY <1>4, <1>5, <1>6, <1>7, <1>8
     DEF Intent!Work, Intent!reserveDueRecipient, Intent!ReserveNothing,
         Intent!reservationIsCurrent, Intent!Submit, Intent!Accept, Intent!PositiveReply,
         Intent!NegativeReply, Intent!SendAborted, Intent!settleAttempt, Intent!nextWakeAt,
         Intent!Arm, Intent!Fire
<1>9. ASSUME NEW r \in Runtimes, Intent!StorageFails(r) PROVE Kept
  BY <1>4, <1>6, <1>7, <1>9
     DEF Intent!StorageFails, Intent!StatementFails, Intent!CommitReplyLost,
         Intent!AcknowledgeFails
<1>10. ASSUME NEW r \in Runtimes,
              \/ Intent!Uncertain(r) \/ Intent!startNotificationIntentWorker(r)
              \/ Intent!stopNotificationIntentWorker(r) \/ Intent!Stopped(r) \/ Intent!Crash(r)
       PROVE  Kept
  BY <1>4, <1>10
     DEF Intent!Uncertain, Intent!startNotificationIntentWorker,
         Intent!stopNotificationIntentWorker, Intent!Stopped, Intent!Crash
<1> QED BY <1>2, <1>3, <1>8, <1>9, <1>10 DEF Intent!Next

LEMMA VerdictsHold ==
  ASSUME IntentInvariant, Intent!Next PROVE Intent!VerdictHolds
<1>1. CASE Intent!IntentState = "acknowledged"
  <2>1. \A q \in Recipients : row[q].state = "acknowledged"
    BY <1>1 DEF Intent!IntentState
  <2>2. \A q \in Recipients : row'[q].state = "acknowledged"
    BY <2>1, RowsEnd
  <2>3. Intent!IntentState' = "acknowledged"
    BY <2>2 DEF Intent!IntentState, Intent!Pending, Intent!Waiting
  <2> QED BY <1>1, <2>3 DEF Intent!VerdictHolds
<1>2. CASE Intent!IntentState = "rejected"
  <2>1. /\ \A q \in Recipients : row[q].state \notin Intent!Pending
        /\ \E q \in Recipients : row[q].state # "absent"
    BY <1>2 DEF Intent!IntentState
  <2>2. \A q \in Recipients : row[q].state \in Intent!Final \cup {"absent"}
    BY <2>1 DEF IntentInvariant, Intent!TypeOK
  <2>3. ~Intent!Stage
    BY <2>1 DEF Intent!Stage, Intent!Absent
  <2>4. \A q \in Recipients : row'[q].state \in Intent!Final \cup {"absent"}
    BY <2>2, <2>3, RowsEnd
  <2>5. \E q \in Recipients : row'[q].state \in Intent!Final
    BY <2>1, <2>2, RowsEnd
  <2>6. \A q \in Recipients : row'[q].state \notin Intent!Pending
    BY <2>4 DEF Intent!Final, Intent!Pending, Intent!Waiting
  <2>7. ~ \A q \in Recipients : row'[q].state = "absent"
    BY <2>5 DEF Intent!Final
  <2>8. Intent!IntentState' \in {"rejected", "acknowledged"}
    BY <2>6, <2>7 DEF Intent!IntentState
  <2> QED BY <1>2, <2>8 DEF Intent!VerdictHolds
<1> QED BY <1>1, <1>2 DEF Intent!VerdictHolds

\* What a caller was told of an intent is final for any recipients and any number of faults:
\* acknowledged stays, and rejected never turns back into pending.
THEOREM VerdictsAreFinal == MCSpec => [][part = "intent" => Intent!VerdictHolds]_allVars
<1> DEFINE I == part = "intent" => IntentInvariant
<1>1. MCInit => I
  BY IntentStarts DEF MCInit
<1>2. I /\ [MCNext]_allVars => I'
  BY IntentPersists
<1>3. I /\ [MCNext]_allVars => [part = "intent" => Intent!VerdictHolds]_allVars
  BY VerdictsHold DEF MCNext
<1> QED BY <1>1, <1>2, <1>3, PTL DEF MCSpec
=============================================================================
