----------------------------- MODULE MCPairing -----------------------------
(* Pairing for TLC: tokens are interchangeable. *)
EXTENDS Pairing, TLC

TokenSymmetry == Permutations(Tokens)
=============================================================================
