----------------------------- MODULE MCLiveFeed -----------------------------
(* LiveFeed on small instances. *)
EXTENDS LiveFeed, TLC

CONSTANTS p1, p2, k1, g1

=============================================================================
