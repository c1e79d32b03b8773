--------------------------- MODULE MCCgiConnPool ---------------------------
(***************************************************************************)
(* Instances of CgiConnPool for TLC.                                       *)
(***************************************************************************)
EXTENDS CgiConnPool, TLC

Symmetry == Permutations(Workers) \cup Permutations(Conns)

=============================================================================
