--------------------------- MODULE MCMappingRules ---------------------------
(* Small instances of MappingRules for TLC.                                *)
EXTENDS MappingRules, TLC
=============================================================================
