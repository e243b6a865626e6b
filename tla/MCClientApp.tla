----------------------------- MODULE MCClientApp -----------------------------
(***************************************************************************)
(* The model that TLC checks of ClientApp.  All its constants are bounds,  *)
(* given in the configurations.                                            *)
(***************************************************************************)
EXTENDS ClientApp
=============================================================================
