------------------------------- MODULE MCJsvc -------------------------------
(* Small instances of the supervisor: instances, pids and inodes are       *)
(* interchangeable, so the safety runs explore them up to permutation.     *)
EXTENDS Jsvc, TLC

Symmetry == Permutations(Instances) \cup Permutations(Pids) \cup Permutations(Inodes)
=============================================================================
