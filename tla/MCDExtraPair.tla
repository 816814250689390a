----------------------------- MODULE MCDExtraPair -----------------------------
(***************************************************************************)
(* An instance of DExtraPair for TLC.                                      *)
(***************************************************************************)
EXTENDS DExtraPairProperties
================================================================================
