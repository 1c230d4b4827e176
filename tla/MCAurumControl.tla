---------------------------- MODULE MCAurumControl ----------------------------
(* Instances of AurumControl for TLC.                                      *)
EXTENDS AurumControl
=============================================================================
