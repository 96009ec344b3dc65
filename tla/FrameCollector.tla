--------------------------- MODULE FrameCollector ---------------------------
(***************************************************************************)
(* What a receiver of frames promises: from a start byte on it collects    *)
(* the bytes one after another until they are a frame as packet_build and   *)
(* protocol_serialize lay them out, which it hands out at its last byte,   *)
(* or can no longer become one, which it reports.                          *)
(***************************************************************************)
EXTENDS Frames

CONSTANT NoByte   \* not a byte: what a reset feeds

VARIABLES
  got,      \* the bytes of the frame that has begun
  fed,      \* the byte that came last, or NoByte after a reset
  out,      \* the frame that this byte completed, or nothing
  refused   \* did this byte show the frame that had begun to be none?

collector == <<got, fed, out, refused>>

HeaderOf(g) == SubSeq(g, 1, HeaderLen)

PayloadOf(g) == SubSeq(g, HeaderLen + 1, HeaderLen + LengthIn(HeaderOf(g)))

\* g is a frame.
Whole(g) ==
  /\ Len(g) > HeaderLen
  /\ CanBuild(HeaderOf(g), PayloadOf(g))
  /\ g = Serialize(HeaderOf(g), PayloadOf(g))

\* g still has to grow: its header is not there yet, or asks for more bytes.
Growing(g) ==
  \/ Len(g) < HeaderLen
  \/ LengthIn(HeaderOf(g)) <= MaxPayload /\ Len(g) < FrameLen(HeaderOf(g))

Init == got = <<>> /\ fed = NoByte /\ out = <<>> /\ refused = FALSE

\* A byte outside a frame that does not start one.
Skip(byte) ==
  /\ got = <<>> /\ byte # StartByte
  /\ fed' = byte
  /\ got' = <<>> /\ out' = <<>> /\ refused' = FALSE

Collect(byte) ==
  /\ got # <<>> \/ byte = StartByte
  /\ fed' = byte
  /\ LET g == Append(got, byte)
     IN /\ got' = IF Growing(g) THEN g ELSE <<>>
        /\ out' = IF ~Growing(g) /\ Whole(g) THEN g ELSE <<>>
        /\ refused' = (~Growing(g) /\ ~Whole(g))

\* A reset between two bytes, which says so: no byte that is fed is dropped.
Abandon ==
  /\ fed' = NoByte
  /\ got' = <<>> /\ out' = <<>> /\ refused' = FALSE

Next ==
  \/ \E byte \in Bytes : Skip(byte) \/ Collect(byte)
  \/ Abandon

Spec == Init /\ [][Next]_collector
============================================================================
