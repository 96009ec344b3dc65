--------------------------- MODULE MCNackHistory ----------------------------
(***************************************************************************)
(* The small instances of the OTA handler, with the NACKs it has outlived. *)
(***************************************************************************)
EXTENDS MCOtaHandler, NackHistory
============================================================================
