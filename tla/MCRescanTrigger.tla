--------------------------- MODULE MCRescanTrigger ---------------------------
(* RescanTrigger for TLC; the constants are given in the .cfg files. *)
EXTENDS RescanTrigger
==============================================================================
