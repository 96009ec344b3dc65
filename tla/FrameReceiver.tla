--------------------------- MODULE FrameReceiver ----------------------------
(***************************************************************************)
(* The frame parser under any caller, which feeds any byte and resets the  *)
(* parser whenever it likes, against what a receiver of frames promises.   *)
(***************************************************************************)
EXTENDS FrameParser

CONSTANT NoByte   \* not a byte: what a reset feeds

ASSUME NoByteAssumption == NoByte \notin Bytes

VARIABLE
  fed   \* history: the byte that was fed last, or NoByte after a reset

receiverVars == <<parser, ret, fed>>

ReceiverInit == ParserInit /\ fed = NoByte

FeedByte(byte) ==
  /\ parser' = Feed(parser, byte).parser
  /\ ret' = Feed(parser, byte).ret
  /\ fed' = byte

ResetParser ==
  /\ parser' = Reset(parser)
  /\ ret' = 0
  /\ fed' = NoByte

ReceiverNext == (\E byte \in Bytes : FeedByte(byte)) \/ ResetParser

ReceiverSpec == ReceiverInit /\ [][ReceiverNext]_receiverVars

----------------------------------------------------------------------------
(* Properties *)

Collector == INSTANCE FrameCollector WITH got <- CollectedIn(parser),
                                          out <- CompletedIn(parser, ret),
                                          refused <- (ret < 0)

\* The parser implements the collector, byte by byte: it returns 1 at the last
\* byte of every frame that begins while no other is under way and comes
\* unbroken, with that frame's bytes; it returns an error exactly at the byte
\* with which a frame that had begun proves to be none; nothing else is returned,
\* and only a reset makes it forget what it has collected (protocol_parser_feed).
ImplementsCollector == Collector!Spec
============================================================================
