------------------------------ MODULE MCPasskeys ------------------------------
(* Instances of Passkeys for TLC.                                          *)
EXTENDS Passkeys, TLC

\* Requests differ by name only.
RequestSymmetry == Permutations(Reqs)
=============================================================================
