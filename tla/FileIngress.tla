----------------------------- MODULE FileIngress ----------------------------
(***************************************************************************)
(* Files sent to an endpoint as parts of a multipart request, up to the    *)
(* claim that makes them Files: src/file-ingress-runtime.ts.  A part's     *)
(* receipt is a row under a key that retries of the request share; its     *)
(* bytes are an object under an identity of their own.  Database and       *)
(* object store have no common transaction, so a request inserts the       *)
(* receipt, writes the object, publishes the receipt as a lease, and       *)
(* claims it in its endpoint's transaction; sweepers retire what expired.  *)
(*                                                                         *)
(* One action is one statement, one object operation or one transaction.   *)
(* Every request sends the same parts with the same bytes; inspection      *)
(* policies and authority are left out.  An identity is the request that   *)
(* made it: objects[p] holds the requests whose bytes of part p are stored.*)
(***************************************************************************)
EXTENDS Integers, FiniteSets, FiniteSetsExt

CONSTANTS
  Requests, Sweepers,
  Parts,                  \* the parts of a request, in their order
  Nobody,
  MaxFaults, MaxCrashes

FileIngressAssumption ==
  /\ Parts \subseteq Nat /\ IsFiniteSet(Parts) /\ Parts # {}
  /\ Nobody \notin Requests \union Sweepers
  /\ MaxFaults \in Nat /\ MaxCrashes \in Nat

VARIABLES
  receipts,   \* per part: the row under the part's key
  objects,    \* per part: the identities whose bytes are stored
  files,      \* per part: the identities that have a File row
  expired,    \* per part: the leases that have expired
  req,        \* the requests
  sweep,      \* the sweeps, one at a time per runtime
  faults, crashes

vars == <<receipts, objects, files, expired, req, sweep, faults, crashes>>

States == {"none", "staging", "leased", "sweeping", "complete"}
Receipts == [state : States, lease : Requests \union {Nobody}, token : Sweepers \union {Nobody}]
NoReceipt == [state |-> "none", lease |-> Nobody, token |-> Nobody]
Ends == {"claimed", "failed", "dead"}
Steps == {"insert", "read", "write", "publish", "undo", "cleanup", "erase", "staged"} \union Ends

First == Min(Parts)
Beyond == Max(Parts) + 1

NewRequest == [pc |-> "insert", part |-> First, won |-> {}, adopted |-> [p \in Parts |-> Nobody],
               claims |-> {}]
NoSweep == [pc |-> "idle", queue |-> {}, at |-> <<First, Nobody>>]

\* The receipt under a part's key is that of this identity.
Owns(p, r, states) == receipts[p].lease = r /\ receipts[p].state \in states

AtStep(r, pc) == req[r].pc = pc
Goes(r, q) == req' = [req EXCEPT ![r] = q]
Faulty == faults < MaxFaults /\ faults' = faults + 1
Sound == UNCHANGED <<expired, sweep, crashes>>

-----------------------------------------------------------------------------
(* Staging *)

\* The request holds a lease of its current part and turns to the next one.
Adopt(q, lease) ==
  LET next == IF q.part = Max(Parts) THEN Beyond ELSE Min({p \in Parts : p > q.part})
  IN [q EXCEPT !.adopted[q.part] = lease, !.part = next,
               !.pc = IF next = Beyond THEN "staged" ELSE "insert"]

\* The receipt is inserted unless the key has one.
Insert(r) ==
  LET q == req[r] p == q.part IN
  /\ AtStep(r, "insert")
  /\ IF receipts[p].state = "none"
     THEN /\ receipts' = [receipts EXCEPT ![p] = [state |-> "staging", lease |-> r, token |-> Nobody]]
          /\ Goes(r, [q EXCEPT !.pc = "write", !.won = @ \union {p}])
     ELSE Goes(r, [q EXCEPT !.pc = "read"]) /\ UNCHANGED receipts
  /\ Sound /\ UNCHANGED <<objects, files, faults>>

\* The insertion fails, applied or not: the request does not know of a receipt.
InsertFails(r) ==
  LET p == req[r].part IN
  /\ AtStep(r, "insert") /\ Faulty
  /\ \/ UNCHANGED receipts
     \/ /\ receipts[p].state = "none"
        /\ receipts' = [receipts EXCEPT ![p] = [state |-> "staging", lease |-> r, token |-> Nobody]]
  /\ Goes(r, [req[r] EXCEPT !.pc = "cleanup"])
  /\ Sound /\ UNCHANGED <<objects, files>>

\* The rest of the request is malformed, too large, or conflicts with what was sent before.
Refuse(r) ==
  /\ AtStep(r, "insert")
  /\ Goes(r, [req[r] EXCEPT !.pc = "cleanup"])
  /\ Sound /\ UNCHANGED <<receipts, objects, files, faults>>

\* A retry waits for the one who inserted the receipt, until its lease expires.
AwaitReceipt(r) ==
  LET q == req[r] p == q.part IN
  /\ AtStep(r, "read")
  /\ receipts[p].state = "staging" => receipts[p].lease \in expired[p]
  /\ Goes(r, IF receipts[p].state \in {"leased", "complete"}
             THEN Adopt(q, receipts[p].lease) ELSE [q EXCEPT !.pc = "cleanup"])
  /\ Sound /\ UNCHANGED <<receipts, objects, files, faults>>

WriteBytes(r) ==
  /\ AtStep(r, "write")
  /\ objects' = [objects EXCEPT ![req[r].part] = @ \union {r}]
  /\ Goes(r, [req[r] EXCEPT !.pc = "publish"])
  /\ Sound /\ UNCHANGED <<receipts, files, faults>>

WriteFails(r) ==
  /\ AtStep(r, "write") /\ Faulty
  /\ \/ UNCHANGED objects
     \/ objects' = [objects EXCEPT ![req[r].part] = @ \union {r}]
  /\ Goes(r, [req[r] EXCEPT !.pc = "cleanup"])
  /\ Sound /\ UNCHANGED <<receipts, files>>

\* Mutant: the receipt is published whatever became of it.
PublishAlways(r) ==
  LET q == req[r] p == q.part IN
  /\ AtStep(r, "publish")
  /\ receipts' = [receipts EXCEPT ![p] = [state |-> "leased", lease |-> r, token |-> Nobody]]
  /\ Goes(r, Adopt(q, r))
  /\ Sound /\ UNCHANGED <<objects, files, faults>>

\* The receipt becomes a lease, if it is still this request's and has not expired.
Publish(r) ==
  LET q == req[r] p == q.part IN
  /\ AtStep(r, "publish")
  /\ IF Owns(p, r, {"staging"}) /\ r \notin expired[p]
     THEN /\ receipts' = [receipts EXCEPT ![p].state = "leased"]
          /\ Goes(r, Adopt(q, r))
     ELSE /\ Goes(r, IF Owns(p, r, {"complete"}) THEN Adopt(q, r) ELSE [q EXCEPT !.pc = "undo"])
          /\ UNCHANGED receipts
  /\ Sound /\ UNCHANGED <<objects, files, faults>>

PublishFails(r) ==
  LET p == req[r].part IN
  /\ AtStep(r, "publish") /\ Faulty
  /\ \/ UNCHANGED receipts
     \/ /\ Owns(p, r, {"staging"}) /\ r \notin expired[p]
        /\ receipts' = [receipts EXCEPT ![p].state = "leased"]
  /\ Goes(r, [req[r] EXCEPT !.pc = "cleanup"])
  /\ Sound /\ UNCHANGED <<objects, files>>

\* The lost publication takes its bytes back.
Undo(r) ==
  /\ AtStep(r, "undo")
  /\ \/ objects' = [objects EXCEPT ![req[r].part] = @ \ {r}] /\ UNCHANGED faults
     \/ Faulty /\ UNCHANGED objects
  /\ Goes(r, [req[r] EXCEPT !.pc = "cleanup"])
  /\ Sound /\ UNCHANGED <<receipts, files>>

-----------------------------------------------------------------------------
(* A failed request withdraws the receipts it inserted, the last one first *)

Withdraw(r) ==
  LET q == req[r] p == Max(q.won) IN
  /\ AtStep(r, "cleanup") /\ q.won # {}
  /\ IF Owns(p, r, {"staging", "leased"})
     THEN receipts' = [receipts EXCEPT ![p] = NoReceipt] /\ Goes(r, [q EXCEPT !.pc = "erase"])
     ELSE Goes(r, [q EXCEPT !.won = @ \ {p}]) /\ UNCHANGED receipts
  /\ Sound /\ UNCHANGED <<objects, files, faults>>

WithdrawFails(r) ==
  LET q == req[r] p == Max(q.won) IN
  /\ AtStep(r, "cleanup") /\ q.won # {} /\ Faulty
  /\ \/ UNCHANGED receipts
     \/ Owns(p, r, {"staging", "leased"}) /\ receipts' = [receipts EXCEPT ![p] = NoReceipt]
  /\ Goes(r, [q EXCEPT !.won = @ \ {p}])
  /\ Sound /\ UNCHANGED <<objects, files>>

Erase(r) ==
  LET q == req[r] p == Max(q.won) IN
  /\ AtStep(r, "erase")
  /\ \/ objects' = [objects EXCEPT ![p] = @ \ {r}] /\ UNCHANGED faults
     \/ Faulty /\ UNCHANGED objects
  /\ Goes(r, [q EXCEPT !.won = @ \ {p}, !.pc = "cleanup"])
  /\ Sound /\ UNCHANGED <<receipts, files>>

Refused(r) ==
  /\ AtStep(r, "cleanup") /\ req[r].won = {}
  /\ Goes(r, [req[r] EXCEPT !.pc = "failed"])
  /\ Sound /\ UNCHANGED <<receipts, objects, files, faults>>

-----------------------------------------------------------------------------
(* The endpoint's transaction *)

Claimable(r, p) ==
  LET lease == req[r].adopted[p] IN
  /\ Owns(p, lease, {"leased", "complete"})
  /\ receipts[p].state = "leased" => lease \notin expired[p]

\* The receipts are locked, and the Files of the claimed parts are created with the
\* completion of their receipts; a part that was completed before is only returned.
ClaimParts(r, S) ==
  /\ AtStep(r, "staged") /\ S # {} /\ \A p \in S : Claimable(r, p)
  /\ receipts' = [p \in Parts |-> IF p \in S THEN [receipts[p] EXCEPT !.state = "complete"]
                                  ELSE receipts[p]]
  /\ files' = [p \in Parts |-> IF p \in S THEN files[p] \union {receipts[p].lease} ELSE files[p]]
  /\ Sound /\ UNCHANGED objects

Claim(r, S) ==
  ClaimParts(r, S) /\ Goes(r, [req[r] EXCEPT !.pc = "claimed", !.claims = S]) /\ UNCHANGED faults

\* The transaction commits and its answer is lost.
ClaimUnanswered(r, S) ==
  ClaimParts(r, S) /\ Goes(r, [req[r] EXCEPT !.pc = "failed"]) /\ Faulty

\* The handler claims nothing, or its transaction is rolled back.
Leave(r) ==
  /\ AtStep(r, "staged") /\ Goes(r, [req[r] EXCEPT !.pc = "failed"])
  /\ Sound /\ UNCHANGED <<receipts, objects, files, faults>>

Dies(r) ==
  /\ req[r].pc \notin Ends /\ crashes < MaxCrashes /\ crashes' = crashes + 1
  /\ Goes(r, [NewRequest EXCEPT !.pc = "dead"])
  /\ UNCHANGED <<receipts, objects, files, expired, sweep, faults>>

-----------------------------------------------------------------------------
(* Expiry and sweeps *)

Expire(p) ==
  /\ receipts[p].lease \in Requests \ expired[p]
  /\ receipts[p].state \in {"staging", "leased"}
  /\ expired' = [expired EXCEPT ![p] = @ \union {receipts[p].lease}]
  /\ UNCHANGED <<receipts, objects, files, req, sweep, faults, crashes>>

Sweeps(s, w) == sweep' = [sweep EXCEPT ![s] = w]
NextCandidate(w) == IF w.queue = {} THEN NoSweep ELSE [w EXCEPT !.pc = "arm"]
Serving == UNCHANGED <<files, expired, req, crashes>>

\* Mutant: cleanups that were interrupted are not selected.
CandidatesFresh ==
  {<<p, receipts[p].lease>> : p \in {q \in Parts :
    receipts[q].state \in {"leased", "staging"} /\ receipts[q].lease \in expired[q]}}

\* Receipts whose cleanup was interrupted, and expired ones.
Candidates ==
  {<<p, receipts[p].lease>> : p \in {q \in Parts :
    \/ receipts[q].state = "sweeping"
    \/ receipts[q].state \in {"leased", "staging"} /\ receipts[q].lease \in expired[q]}}

Select(s) ==
  /\ sweep[s].pc = "idle" /\ Candidates # {}
  /\ Sweeps(s, [NoSweep EXCEPT !.pc = "arm", !.queue = Candidates])
  /\ Serving /\ UNCHANGED <<receipts, objects, faults>>

\* In a transaction that locks the receipt: it is marked unless it was completed.
Arm(s, c) ==
  LET w == [sweep[s] EXCEPT !.queue = @ \ {c}] IN
  /\ sweep[s].pc = "arm" /\ c \in sweep[s].queue
  /\ IF Owns(c[1], c[2], {"staging", "leased", "sweeping"}) /\ c[2] \notin files[c[1]]
     THEN /\ receipts' = [receipts EXCEPT ![c[1]] = [@ EXCEPT !.state = "sweeping", !.token = s]]
          /\ Sweeps(s, [w EXCEPT !.pc = "delete", !.at = c])
     ELSE Sweeps(s, NextCandidate(w)) /\ UNCHANGED receipts
  /\ Serving /\ UNCHANGED <<objects, faults>>

DeleteBytes(s) ==
  LET at == sweep[s].at IN
  /\ sweep[s].pc = "delete"
  /\ objects' = [objects EXCEPT ![at[1]] = @ \ {at[2]}]
  /\ Sweeps(s, [sweep[s] EXCEPT !.pc = "retire"])
  /\ Serving /\ UNCHANGED <<receipts, faults>>

\* The receipt goes if nobody else has taken over its cleanup.
Retire(s) ==
  LET at == sweep[s].at IN
  /\ sweep[s].pc = "retire"
  /\ receipts' = IF Owns(at[1], at[2], {"sweeping"}) /\ receipts[at[1]].token = s
                 THEN [receipts EXCEPT ![at[1]] = NoReceipt] ELSE receipts
  /\ Sweeps(s, NextCandidate(sweep[s]))
  /\ Serving /\ UNCHANGED <<objects, faults>>

\* A statement or the deletion fails; the sweep goes on with the next candidate.
SweepFails(s) ==
  /\ sweep[s].pc \in {"delete", "retire"} /\ Faulty
  /\ Sweeps(s, NextCandidate(sweep[s]))
  /\ Serving /\ UNCHANGED <<receipts, objects>>

SweeperDies(s) ==
  /\ sweep[s].pc # "idle" /\ crashes < MaxCrashes /\ crashes' = crashes + 1
  /\ Sweeps(s, NoSweep)
  /\ UNCHANGED <<receipts, objects, files, expired, req, faults>>

-----------------------------------------------------------------------------
Init ==
  /\ receipts = [p \in Parts |-> NoReceipt]
  /\ objects = [p \in Parts |-> {}] /\ files = objects /\ expired = objects
  /\ req = [r \in Requests |-> NewRequest]
  /\ sweep = [s \in Sweepers |-> NoSweep]
  /\ faults = 0 /\ crashes = 0

RequestStep(r) ==
  \/ Insert(r) \/ Refuse(r) \/ AwaitReceipt(r) \/ WriteBytes(r) \/ Publish(r) \/ Undo(r)
  \/ Withdraw(r) \/ Erase(r) \/ Refused(r) \/ Leave(r)
  \/ \E S \in SUBSET Parts : Claim(r, S)
RequestFault(r) ==
  \/ InsertFails(r) \/ WriteFails(r) \/ PublishFails(r) \/ WithdrawFails(r) \/ Dies(r)
  \/ \E S \in SUBSET Parts : ClaimUnanswered(r, S)
SweepStep(s) ==
  Select(s) \/ DeleteBytes(s) \/ Retire(s) \/ (\E c \in sweep[s].queue : Arm(s, c))

Next ==
  \/ \E r \in Requests : RequestStep(r) \/ RequestFault(r)
  \/ \E s \in Sweepers : SweepStep(s) \/ SweepFails(s) \/ SweeperDies(s)
  \/ \E p \in Parts : Expire(p)

Spec == Init /\ [][Next]_vars

-----------------------------------------------------------------------------
TypeOK ==
  /\ receipts \in [Parts -> Receipts]
  /\ {objects, files, expired} \subseteq [Parts -> SUBSET Requests]
  /\ \A r \in Requests :
       /\ req[r].pc \in Steps /\ req[r].part \in Parts \union {Beyond}
       /\ req[r].won \subseteq Parts /\ req[r].claims \subseteq Parts
  /\ \A s \in Sweepers : sweep[s].pc \in {"idle", "arm", "delete", "retire"}

\* Neither a sweep, nor the withdrawal of a failed request, nor a lost publication takes
\* the bytes of a File away, and what can be claimed has its bytes.
FilesHaveBytes ==
  \A p \in Parts : /\ files[p] \subseteq objects[p]
                   /\ receipts[p].state = "leased" => receipts[p].lease \in objects[p]

\* A request that was told of its Files is told of Files that exist, and all requests are
\* told of the same.
AnswersAgree ==
  \A r \in Requests : \A p \in req[r].claims : files[p] = {req[r].adopted[p]}

\* Who will still remove the bytes of an identity that never becomes a File.
Removes(p, r) ==
  \/ req[r].pc \in {"publish", "undo"} /\ req[r].part = p
  \/ req[r].pc = "erase" /\ Max(req[r].won) = p
  \/ \E s \in Sweepers : sweep[s].pc = "delete" /\ sweep[s].at = <<p, r>>

\* Where nothing failed, stored bytes belong to a File, or a receipt still leads a sweep to them, or somebody
\* is about to remove them.
BytesAreKnown ==
  faults = 0 /\ crashes = 0 => \A p \in Parts : \A r \in objects[p] :
    r \in files[p] \/ Owns(p, r, {"staging", "leased", "sweeping"}) \/ Removes(p, r)

\* A receipt that is not completed is retired, so that its key can be used again.
ReceiptsEnd ==
  <>[](\A p \in Parts : receipts[p].state \in {"none", "complete"})

\* Nobody waits for ever: not for another request's staging either.
RequestsEnd == <>(\A r \in Requests : req[r].pc \in Ends)
=============================================================================
