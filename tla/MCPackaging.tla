----------------------------- MODULE MCPackaging ----------------------------
(***************************************************************************)
(* Firmwares of none, three and four bytes, and "H" up to 3 with a tag of  *)
(* one byte: of the chunk sizes, 1 makes too many chunks of four bytes, 2  *)
(* leaves a last chunk of three bytes that is not full, 3 makes a sealed   *)
(* chunk too long for its length, and 0 and -1 are what a user may enter.  *)
(***************************************************************************)
EXTENDS Packaging, TLC

MCFirmwares == {<<>>, <<"b1", "b2", "b1">>, <<"b1", "b2", "b2", "b1">>}
MCOneFirmware == {<<"b1", "b2", "b1">>}
MCChunkSizes == {-1, 0, 1, 2, 3}

MCSymmetry == Permutations(Threads) \cup Permutations(Keys)
=============================================================================
