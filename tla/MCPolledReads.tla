----------------------------- MODULE MCPolledReads ----------------------------
(* Instances of PolledReads for TLC.                                       *)
EXTENDS PolledReads, TLC

\* Requests differ by name only.
RequestSymmetry == Permutations(Reqs)
=============================================================================
