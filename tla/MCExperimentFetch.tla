-------------------------- MODULE MCExperimentFetch --------------------------
(* Instances of ExperimentFetch for TLC. *)
EXTENDS ExperimentFetch, TLC

Alike == Permutations(Users) \cup Permutations(Keys)
=============================================================================
