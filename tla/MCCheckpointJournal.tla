-------------------------- MODULE MCCheckpointJournal --------------------------
(* CheckpointJournal for TLC: two contents of different sizes, so that the     *)
(* byte budget binds before the version budget in some histories and after it  *)
(* in others.                                                                  *)
EXTENDS CheckpointJournal, TLC

CONSTANTS d1, d2
MCDigests == {d1, d2}
MCSize == d1 :> 1 @@ d2 :> 2
MCSteps == 1..3
=============================================================================
