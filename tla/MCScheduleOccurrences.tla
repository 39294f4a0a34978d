------------------------ MODULE MCScheduleOccurrences ------------------------
(* Small instances of ScheduleOccurrences.                                 *)
EXTENDS ScheduleOccurrences, TLC

CONSTANTS r1, r2, d1, d2

Symmetry == Permutations(Runtimes) \cup Permutations(Definitions)
=============================================================================
