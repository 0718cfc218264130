------------------------- MODULE MCLicenseRuntime -------------------------
(* LicenseRuntime for TLC: requests, keys and messages are interchangeable. *)
EXTENDS LicenseRuntime, TLC

Symmetry == Permutations(Requests) \cup Permutations(Messages)
            \cup Permutations(Keys)
=============================================================================
