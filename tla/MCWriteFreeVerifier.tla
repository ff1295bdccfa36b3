------------------------ MODULE MCWriteFreeVerifier -------------------------
(***************************************************************************)
(* Instances of the write-free verifier: requests are interchangeable.     *)
(***************************************************************************)
EXTENDS WriteFreeVerifier, TLC

Symmetry == Permutations(Requests)
=============================================================================
