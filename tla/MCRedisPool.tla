---------------------------- MODULE MCRedisPool ----------------------------
(***************************************************************************)
(* Instances of RedisPool for TLC.                                         *)
(***************************************************************************)
EXTENDS RedisPool, TLC

Symmetry == Permutations(Callers) \cup Permutations(Conns)

=============================================================================
