---------------------------- MODULE MCOrchestrator ----------------------------
(* Instances of the tick loop for TLC: the .cfg files choose keys, bounds,   *)
(* switches and faults.                                                      *)
EXTENDS OrchestratorProperties, TLC

KeySymmetry == Permutations(Keys)

LossOrGain == {-1, 1}
Flat == {0}
=============================================================================
