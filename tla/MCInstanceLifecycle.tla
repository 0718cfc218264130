------------------------ MODULE MCInstanceLifecycle ------------------------
(* InstanceLifecycle for TLC: requests are interchangeable. *)
EXTENDS InstanceLifecycle, TLC

RequestSymmetry == Permutations(Requests)
=============================================================================
