-------------------------- MODULE MCTrainingLedger --------------------------
(* TrainingLedger on small instances. *)
EXTENDS TrainingLedger, TLC

CONSTANTS deep, sui

PairSymmetry == Permutations(Pair)

=============================================================================
