-------------------------- MODULE MCBackgroundJobs --------------------------
(* BackgroundJobs for TLC: jobs, workers and callers are interchangeable.   *)
EXTENDS BackgroundJobs, TLC

Symmetry == Permutations(Jobs) \cup Permutations(Workers) \cup Permutations(Callers)
=============================================================================
