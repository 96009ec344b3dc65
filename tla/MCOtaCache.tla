----------------------------- MODULE MCOtaCache -----------------------------
(***************************************************************************)
(* A buffer of two places of two cells, three indexes (one of them past    *)
(* the end) and counters that wrap at 4.                                   *)
(***************************************************************************)
EXTENDS OtaCache

MCIndexes == 0 .. 2
============================================================================
