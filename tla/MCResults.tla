----------------------------- MODULE MCResults -----------------------------
(***************************************************************************)
(* The model that TLC checks of Results.  All its constants are bounds or  *)
(* small values, given in the configuration.                               *)
(***************************************************************************)
EXTENDS Results
=============================================================================
