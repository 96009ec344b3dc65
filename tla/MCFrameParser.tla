--------------------------- MODULE MCFrameParser ----------------------------
(***************************************************************************)
(* A small frame format: bytes 0 to 3, of which 2 starts a frame and 3     *)
(* ends it, and both also occur inside; a header of start byte, type and   *)
(* length, of which the length 3 is too long.                              *)
(***************************************************************************)
EXTENDS FrameReceiver

MCBytes == 0 .. 3

LastByte(header) == header[HeaderLen]

\* A checksum with collisions, as every one of two bytes has.
Sum[s \in Seq(Nat)] == IF s = <<>> THEN 0 ELSE Head(s) + Sum[Tail(s)]
SumLow(s) == Sum[s] % 4
SumHigh(s) == (Len(s) + s[Len(s)]) % 4
============================================================================
