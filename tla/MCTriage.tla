------------------------------ MODULE MCTriage ------------------------------
(* Small instances of Triage for TLC.                                      *)
EXTENDS Triage, TLC
=============================================================================
