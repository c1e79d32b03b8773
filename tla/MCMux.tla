------------------------------- MODULE MCMux -------------------------------
(***************************************************************************)
(* Instances of Mux and of its refinement of JobBus for TLC.               *)
(***************************************************************************)
EXTENDS MuxRefinesJobBus, TLC

Retrying(r) == [isRetry |-> TRUE, retryTime |-> r, consume |-> TRUE]
NotRetrying == [isRetry |-> FALSE, retryTime |-> 0, consume |-> TRUE]
NotConsuming == [isRetry |-> TRUE, retryTime |-> 1, consume |-> FALSE]

OneConf == {Retrying(1)}
RetryOrNot == {Retrying(1), NotRetrying}
ConsumeOrNot == {Retrying(1), NotConsuming}
LongRetry == {Retrying(60)}

Symmetry == Permutations(Muxers) \cup Permutations(Slots)

=============================================================================
