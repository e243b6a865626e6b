--------------------------- MODULE MCOfflineGame ----------------------------
(***************************************************************************)
(* Model values for OfflineGame: two suits of three ranks for one person   *)
(* and two bots.                                                           *)
(***************************************************************************)
EXTENDS OfflineGame

MCSuits == {"S", "H"}
MCRanks == 12 .. 14
=============================================================================
