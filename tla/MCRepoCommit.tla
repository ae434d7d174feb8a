---------------------------- MODULE MCRepoCommit ----------------------------
(* RepoCommit on small sets of processes; the bounds are in the cfg files. *)
EXTENDS RepoCommit, TLC

Symmetry == Permutations(Writers)
=============================================================================
