---------------------------- MODULE MCConnection ----------------------------
(***************************************************************************)
(* Three clicks, of which the second may be for either transport.          *)
(***************************************************************************)
EXTENDS Connection

MCChoices == <<{"wifi"}, Modes, {"wifi"}>>
=============================================================================
