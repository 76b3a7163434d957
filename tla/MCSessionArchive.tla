-------------------------- MODULE MCSessionArchive --------------------------
(* SessionArchive for TLC: processes are interchangeable, directories too.   *)
EXTENDS SessionArchive, TLC

Symmetry == Permutations(Procs) \cup Permutations(Dirs)
=============================================================================
