------------------------------- MODULE Frames -------------------------------
(***************************************************************************)
(* The frames of the serial line between gateway and node, as              *)
(* packet_build and protocol_serialize lay them out:                       *)
(*                                                                         *)
(*   header (start byte first, payload length in it) | payload | CRC | end *)
(*                                                                         *)
(* Nothing in a frame is escaped.  A byte is a number, of which the model  *)
(* uses a few; the CRC is any function of header and payload.              *)
(***************************************************************************)
EXTENDS Integers, Sequences

CONSTANTS
  Bytes,
  StartByte,      \* FRAME_START_BYTE
  EndByte,        \* FRAME_END_BYTE
  ZeroByte,
  HeaderLen,      \* sizeof(packet_header_t)
  MaxPayload,     \* MAX_PAYLOAD_SIZE
  LengthIn(_),    \* payload_length, read from the bytes of a header
  CrcLow(_),      \* the two bytes of the CRC of a sequence of bytes
  CrcHigh(_)

Headers == [1 .. HeaderLen -> Bytes]

ASSUME FrameAssumption ==
  /\ StartByte \in Bytes
  /\ EndByte \in Bytes
  /\ ZeroByte \in Bytes
  /\ HeaderLen \in Nat /\ HeaderLen > 1
  /\ MaxPayload \in Nat
  /\ \A header \in Headers : LengthIn(header) \in Nat

Crc(content) == <<CrcLow(content), CrcHigh(content)>>

\* packet_build refuses a payload longer than MAX_PAYLOAD_SIZE.
CanBuild(header, payload) ==
  /\ header[1] = StartByte
  /\ Len(payload) = LengthIn(header)
  /\ Len(payload) <= MaxPayload

Serialize(header, payload) == header \o payload \o Crc(header \o payload) \o <<EndByte>>

FrameLen(header) == HeaderLen + LengthIn(header) + 3
============================================================================
