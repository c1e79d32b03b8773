---------------------------- MODULE MCMuxServer ----------------------------
(***************************************************************************)
(* Instances of MuxServer for TLC.                                         *)
(***************************************************************************)
EXTENDS MuxServer, TLC

Symmetry == Permutations(Queues) \cup Permutations(Topics)
              \cup Permutations(Versions) \cup Permutations(Clients)

=============================================================================
