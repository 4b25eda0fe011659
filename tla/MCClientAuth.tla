---------------------------- MODULE MCClientAuth ----------------------------
(* ClientAuth on small instances. *)
EXTENDS ClientAuth, TLC

CONSTANTS a1, a2

=============================================================================
