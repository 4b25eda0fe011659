------------------------ MODULE MCChainProofPipeline ------------------------
(* ChainProofPipeline on small instances. *)
EXTENDS ChainProofPipeline, TLC

CONSTANTS h1, f1, poller, a1, a2

ApiSymmetry == Permutations(Api)

=============================================================================
