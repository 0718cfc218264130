-------------------------- MODULE MCInstanceRecord --------------------------
(* InstanceRecord for TLC: requests are interchangeable. *)
EXTENDS InstanceRecord, TLC

RequestSymmetry == Permutations(Requests)
=============================================================================
