-------------------------- MODULE MCTrainingSession --------------------------
(* TrainingSession on small instances. *)
EXTENDS TrainingSession, TLC

CONSTANTS t1, t2

=============================================================================
