-------------------------- MODULE MCCeremonyStore --------------------------
(* CeremonyStore for TLC: two instances, three tokens, a clock of four units. *)
EXTENDS CeremonyStore, TLC

StoreSymmetry == Permutations(Tokens) \cup Permutations(Instances)
=============================================================================
