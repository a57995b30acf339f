------------------------------ MODULE MCWatch -------------------------------
(***************************************************************************)
(* Instances of Watch for TLC.  Safety runs use the symmetry of the model  *)
(* values; the run with liveness properties does not.                      *)
(***************************************************************************)
EXTENDS Watch, TLC

Symmetry == Permutations(Containers) \cup Permutations(Slots)
=============================================================================
