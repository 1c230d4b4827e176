--------------------------- MODULE MCRefreshTokens ----------------------------
(* Instances of RefreshTokens for TLC.                                     *)
EXTENDS RefreshTokens, TLC

\* Requests differ by name only.
RequestSymmetry == Permutations(Reqs)
=============================================================================
