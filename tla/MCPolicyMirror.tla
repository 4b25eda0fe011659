--------------------------- MODULE MCPolicyMirror ---------------------------
(* PolicyMirror on small instances. *)
EXTENDS PolicyMirror, TLC

CONSTANTS h1, h2

HandlerSymmetry == Permutations(Handler)

=============================================================================
