----------------------------- MODULE MCRefStore -----------------------------
(***************************************************************************)
(* Three refs over two shards: the default branch alone in its shard, and  *)
(* two refs that share the other one.                                      *)
(***************************************************************************)
EXTENDS RefStore, TLC

CONSTANTS main, dev, rel, s0, s1

MCShardKey == (main :> s0) @@ (dev :> s1) @@ (rel :> s1)
Symmetry == Permutations(Pushers)
=============================================================================
