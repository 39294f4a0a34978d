----------------------------- MODULE MCJobQueue -----------------------------
(* Small instances of JobQueue: two runtimes over one Job, one over two.   *)
EXTENDS JobQueueRefinement, TLC

CONSTANTS j1, j2, r1, r2

OneTick == [j \in Jobs |-> 1]
NoDelay == [j \in Jobs |-> 0]
TwoAttempts == [j \in Jobs |-> 2]

Symmetry == Permutations(Runtimes)
=============================================================================
