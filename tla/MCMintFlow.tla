----------------------------- MODULE MCMintFlow -----------------------------
(* MintFlow on small instances. *)
EXTENDS MintFlow, TLC

CONSTANTS n1, n2, u1, u2

=============================================================================
