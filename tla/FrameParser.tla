---------------------------- MODULE FrameParser -----------------------------
(***************************************************************************)
(* The gateway's frame parser (protocol_parser.c), byte by byte, over its  *)
(* buffers and indexes.  The buffers keep what earlier frames left there.  *)
(*                                                                         *)
(* Feeding a byte is an operator on the parser's record, so that a caller  *)
(* can do more in the same step: any caller in FrameReceiver, the bridge   *)
(* of the gateway in UartBridge.                                           *)
(***************************************************************************)
EXTENDS Frames

VARIABLES
  parser,   \* protocol_parser_t
  ret       \* what the last call of protocol_parser_feed returned

ParserStates == {"IDLE", "HEADER", "PAYLOAD", "CRC", "END", "ERROR"}

\* protocol_parser_init.
FreshParser ==
  [state |-> "IDLE",
   header |-> [k \in 1 .. HeaderLen |-> ZeroByte],
   payload |-> [k \in 1 .. MaxPayload |-> ZeroByte],
   crc |-> [k \in 1 .. 2 |-> ZeroByte],
   bytes_received |-> 0,
   expected_bytes |-> 0]

Reset(p) == [p EXCEPT !.state = "IDLE", !.bytes_received = 0, !.expected_bytes = 0]

Fed(p, r) == [parser |-> p, ret |-> r]

FeedIdle(p, byte) ==
  IF byte = StartByte
  THEN Fed([p EXCEPT !.state = "HEADER", !.header[1] = byte, !.bytes_received = 1], 0)
  ELSE Fed(p, 0)

\* Slip: a payload of one byte too many is let through.
FeedHeader_OneTooMany(p, byte) ==
  LET q == [p EXCEPT !.header[p.bytes_received + 1] = byte,
                     !.bytes_received = p.bytes_received + 1]
      len == LengthIn(q.header)
  IN CASE q.bytes_received < HeaderLen -> Fed(q, 0)
       [] q.bytes_received >= HeaderLen /\ len > MaxPayload + 1 ->
            Fed([q EXCEPT !.state = "ERROR"], -1)
       [] q.bytes_received >= HeaderLen /\ len \in 1 .. MaxPayload + 1 ->
            Fed([q EXCEPT !.state = "PAYLOAD", !.bytes_received = 0,
                          !.expected_bytes = len], 0)
       [] q.bytes_received >= HeaderLen /\ len = 0 ->
            Fed([q EXCEPT !.state = "CRC", !.bytes_received = 0], 0)

FeedHeader(p, byte) ==
  LET q == [p EXCEPT !.header[p.bytes_received + 1] = byte,
                     !.bytes_received = p.bytes_received + 1]
      len == LengthIn(q.header)
  IN CASE q.bytes_received < HeaderLen -> Fed(q, 0)
       [] q.bytes_received >= HeaderLen /\ len > MaxPayload ->
            Fed([q EXCEPT !.state = "ERROR"], -1)
       [] q.bytes_received >= HeaderLen /\ len \in 1 .. MaxPayload ->
            Fed([q EXCEPT !.state = "PAYLOAD", !.bytes_received = 0,
                          !.expected_bytes = len], 0)
       [] q.bytes_received >= HeaderLen /\ len = 0 ->
            Fed([q EXCEPT !.state = "CRC", !.bytes_received = 0], 0)

\* Slip: the index is not set back for the CRC.
FeedPayload_KeepsIndex(p, byte) ==
  LET q == [p EXCEPT !.payload[p.bytes_received + 1] = byte,
                     !.bytes_received = p.bytes_received + 1]
  IN IF q.bytes_received >= q.expected_bytes
     THEN Fed([q EXCEPT !.state = "CRC"], 0)
     ELSE Fed(q, 0)

FeedPayload(p, byte) ==
  LET q == [p EXCEPT !.payload[p.bytes_received + 1] = byte,
                     !.bytes_received = p.bytes_received + 1]
  IN IF q.bytes_received >= q.expected_bytes
     THEN Fed([q EXCEPT !.state = "CRC", !.bytes_received = 0], 0)
     ELSE Fed(q, 0)

FeedCrc(p, byte) ==
  IF p.bytes_received = 0
  THEN Fed([p EXCEPT !.crc = <<byte, ZeroByte>>, !.bytes_received = 1], 0)
  ELSE Fed([p EXCEPT !.crc[2] = byte, !.state = "END"], 0)

\* The part of the payload buffer that belongs to the frame.
PacketPayload(p) == SubSeq(p.payload, 1, LengthIn(p.header))

\* Slip: a frame that is whole ends in silence.
FeedEnd_Silent(p, byte) ==
  CASE byte # EndByte -> Fed([p EXCEPT !.state = "ERROR"], -1)
    [] byte = EndByte /\ p.crc = Crc(p.header \o PacketPayload(p)) ->
         Fed([p EXCEPT !.state = "IDLE"], 0)
    [] byte = EndByte /\ p.crc # Crc(p.header \o PacketPayload(p)) ->
         Fed([p EXCEPT !.state = "ERROR"], -2)

FeedEnd(p, byte) ==
  CASE byte # EndByte -> Fed([p EXCEPT !.state = "ERROR"], -1)
    [] byte = EndByte /\ p.crc = Crc(p.header \o PacketPayload(p)) ->
         Fed([p EXCEPT !.state = "IDLE"], 1)
    [] byte = EndByte /\ p.crc # Crc(p.header \o PacketPayload(p)) ->
         Fed([p EXCEPT !.state = "ERROR"], -2)

\* A start byte after an error resets the parser and is fed again.
FeedError(p, byte) ==
  IF byte = StartByte THEN FeedIdle(Reset(p), byte) ELSE Fed(p, 0)

Feed(p, byte) ==
  CASE p.state = "IDLE"    -> FeedIdle(p, byte)
    [] p.state = "HEADER"  -> FeedHeader(p, byte)
    [] p.state = "PAYLOAD" -> FeedPayload(p, byte)
    [] p.state = "CRC"     -> FeedCrc(p, byte)
    [] p.state = "END"     -> FeedEnd(p, byte)
    [] p.state = "ERROR"   -> FeedError(p, byte)

ParserInit == parser = FreshParser /\ ret = 0

----------------------------------------------------------------------------
(* Properties *)

Parsers ==
  [state : ParserStates,
   header : Headers,
   payload : [1 .. MaxPayload -> Bytes],
   crc : [1 .. 2 -> Bytes],
   bytes_received : Nat,
   expected_bytes : 0 .. MaxPayload]

ParserTypeOK == parser \in Parsers /\ ret \in {1, 0, -1, -2}

InBuffer(p) ==
  /\ p.state = "HEADER" => p.bytes_received \in 1 .. HeaderLen - 1
  /\ p.state = "PAYLOAD" => p.bytes_received \in 0 .. p.expected_bytes - 1
  /\ p.state = "CRC" => p.bytes_received \in 0 .. 1

\* The index never leaves the buffer that the next byte is stored in, whatever
\* bytes come and whatever length a header claims (protocol_parser_feed).
IndexInBuffer == InBuffer(parser)

\* The bytes of the frame under way, from the buffers; nothing that an earlier
\* frame left in them counts.
CollectedIn(p) ==
  CASE p.state \in {"IDLE", "ERROR"} -> <<>>
    [] p.state = "HEADER"  -> SubSeq(p.header, 1, p.bytes_received)
    [] p.state = "PAYLOAD" -> p.header \o SubSeq(p.payload, 1, p.bytes_received)
    [] p.state = "CRC"     -> p.header \o PacketPayload(p) \o SubSeq(p.crc, 1, p.bytes_received)
    [] p.state = "END"     -> p.header \o PacketPayload(p) \o p.crc

CompletedIn(p, r) ==
  IF r = 1 THEN p.header \o PacketPayload(p) \o p.crc \o <<EndByte>> ELSE <<>>
============================================================================
