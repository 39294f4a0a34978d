------------------------- MODULE JobQueueRefinement -------------------------
(***************************************************************************)
(* JobQueue implements JobLifecycle: claims, tokens, leases, snapshots and *)
(* runtimes are hidden, the stored status, attempt count and cancellation  *)
(* marker of each row are the Job.                                         *)
(***************************************************************************)
EXTENDS JobQueue

Lifecycle == INSTANCE JobLifecycle WITH
    status    <- [j \in Jobs |-> row[j].status],
    attempts  <- [j \in Jobs |-> row[j].attempts],
    requested <- [j \in Jobs |-> row[j].cancel]

\* Every behaviour of the runtimes on the rows is a life cycle the reference
\* documents: attempts never exceed the policy, a given-back attempt is exactly
\* one, and a running Job is cancelled only on a durable request.
ImplementsLifecycle == Lifecycle!Spec
=============================================================================
