---------------------------- MODULE MCAceEngine -----------------------------
(***************************************************************************)
(* Model values for AceEngine: a deck small enough to enumerate every      *)
(* deal.                                                                   *)
(***************************************************************************)
EXTENDS AceEngine

MCSuits == {"S", "H"}
MCRanks == 12 .. 14
=============================================================================
