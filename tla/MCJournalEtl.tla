----------------------------- MODULE MCJournalEtl -----------------------------
(* Instances of JournalEtl for TLC.                                        *)
EXTENDS JournalEtl
=============================================================================
