------------------------- MODULE FrameParserProofs --------------------------
(***************************************************************************)
(* Theorems about the frame parser, for every frame format and CRC: it     *)
(* keeps to its buffers, and implements the collector of frames.           *)
(***************************************************************************)
EXTENDS FrameReceiver, SequenceTheorems, TLAPS

\* The type and the bound hold each other up: the index is right because the
\* length was checked, and the length is that of the header because the index
\* was right.
Bounded(p) == p \in Parsers /\ InBuffer(p)

Returns == {1, 0, -1, -2}

LEMMA Sizes == HeaderLen \in Nat /\ HeaderLen > 1 /\ MaxPayload \in Nat /\ ZeroByte \in Bytes
BY FrameAssumption

\* The assignments of the parser, and what they do to its record.
InState(p, s) == [p EXCEPT !.state = s]
AtIndex(p, s, n) == [p EXCEPT !.state = s, !.bytes_received = n]
Expecting(p, s, n, e) == [p EXCEPT !.state = s, !.bytes_received = n, !.expected_bytes = e]
WithHeader(p, h, n) == [p EXCEPT !.header = h, !.bytes_received = n]
WithPayload(p, y, n) == [p EXCEPT !.payload = y, !.bytes_received = n]
WithCrc(p, c, s, n) == [p EXCEPT !.crc = c, !.state = s, !.bytes_received = n]

SameBuffers(q, p) == q.header = p.header /\ q.payload = p.payload /\ q.crc = p.crc

LEMMA Assignments ==
  ASSUME NEW p \in Parsers, NEW s \in ParserStates, NEW n \in Nat
  PROVE  /\ InState(p, s) \in Parsers
         /\ InState(p, s).state = s
         /\ InState(p, s).bytes_received = p.bytes_received
         /\ SameBuffers(InState(p, s), p)
         /\ AtIndex(p, s, n) \in Parsers
         /\ AtIndex(p, s, n).state = s
         /\ AtIndex(p, s, n).bytes_received = n
         /\ SameBuffers(AtIndex(p, s, n), p)
<1> HIDE DEF ParserStates
<1>1. /\ InState(p, s) \in Parsers
      /\ InState(p, s).state = s
      /\ InState(p, s).bytes_received = p.bytes_received
      /\ SameBuffers(InState(p, s), p)
  BY DEF Parsers, InState, SameBuffers
<1>2. /\ AtIndex(p, s, n) \in Parsers
      /\ AtIndex(p, s, n).state = s
      /\ AtIndex(p, s, n).bytes_received = n
      /\ SameBuffers(AtIndex(p, s, n), p)
  BY DEF Parsers, AtIndex, SameBuffers
<1> QED
  BY <1>1, <1>2

LEMMA ExpectingFields ==
  ASSUME NEW p \in Parsers, NEW s \in ParserStates, NEW n \in Nat, NEW e \in 0 .. MaxPayload
  PROVE  /\ Expecting(p, s, n, e) \in Parsers
         /\ Expecting(p, s, n, e).state = s
         /\ Expecting(p, s, n, e).bytes_received = n
         /\ Expecting(p, s, n, e).expected_bytes = e
         /\ SameBuffers(Expecting(p, s, n, e), p)
BY DEF Parsers, Expecting, SameBuffers

LEMMA WithHeaderFields ==
  ASSUME NEW p \in Parsers, NEW h \in Headers, NEW n \in Nat
  PROVE  /\ WithHeader(p, h, n) \in Parsers
         /\ WithHeader(p, h, n).state = p.state
         /\ WithHeader(p, h, n).header = h
         /\ WithHeader(p, h, n).bytes_received = n
BY DEF Parsers, WithHeader

LEMMA WithPayloadFields ==
  ASSUME NEW p \in Parsers, NEW y \in [1 .. MaxPayload -> Bytes], NEW n \in Nat
  PROVE  /\ WithPayload(p, y, n) \in Parsers
         /\ WithPayload(p, y, n).state = p.state
         /\ WithPayload(p, y, n).header = p.header
         /\ WithPayload(p, y, n).payload = y
         /\ WithPayload(p, y, n).bytes_received = n
         /\ WithPayload(p, y, n).expected_bytes = p.expected_bytes
BY DEF Parsers, WithPayload

LEMMA WithCrcFields ==
  ASSUME NEW p \in Parsers, NEW c \in [1 .. 2 -> Bytes], NEW s \in ParserStates, NEW n \in Nat
  PROVE  /\ WithCrc(p, c, s, n) \in Parsers
         /\ WithCrc(p, c, s, n).state = s
         /\ WithCrc(p, c, s, n).header = p.header
         /\ WithCrc(p, c, s, n).payload = p.payload
         /\ WithCrc(p, c, s, n).crc = c
         /\ WithCrc(p, c, s, n).bytes_received = n
BY DEF Parsers, WithCrc

\* protocol_parser_reset.
LEMMA ResetBounds ==
  ASSUME NEW p \in Parsers
  PROVE  Bounded(Reset(p)) /\ Reset(p).state = "IDLE"
<1>1. "IDLE" \in ParserStates /\ 0 \in Nat /\ 0 \in 0 .. MaxPayload
  BY Sizes DEF ParserStates
<1>2. Reset(p) = Expecting(p, "IDLE", 0, 0)
  BY DEF Reset, Expecting
<1>3. Reset(p) \in Parsers /\ Reset(p).state = "IDLE"
  BY <1>1, <1>2, ExpectingFields
<1> QED
  BY <1>3 DEF Bounded, InBuffer

\* Outside a frame.
LEMMA IdleCases ==
  ASSUME NEW p \in Parsers, NEW byte \in Bytes
  PROVE  FeedIdle(p, byte) =
           IF byte = StartByte
           THEN Fed(AtIndex(WithHeader(p, [p.header EXCEPT ![1] = byte], 1), "HEADER", 1), 0)
           ELSE Fed(p, 0)
<1>1. [p EXCEPT !.state = "HEADER", !.header[1] = byte, !.bytes_received = 1]
        = [[p EXCEPT !.header = [p.header EXCEPT ![1] = byte], !.bytes_received = 1]
             EXCEPT !.state = "HEADER", !.bytes_received = 1]
  BY DEF Parsers
<1> QED
  BY <1>1 DEF FeedIdle, AtIndex, WithHeader

LEMMA IdleBounds ==
  ASSUME NEW p, Bounded(p), NEW byte \in Bytes, p.state = "IDLE"
  PROVE  Bounded(FeedIdle(p, byte).parser) /\ FeedIdle(p, byte).ret = 0
<1> DEFINE h == [p.header EXCEPT ![1] = byte]
           q == AtIndex(WithHeader(p, h, 1), "HEADER", 1)
<1>1. p \in Parsers /\ h \in Headers /\ 1 \in Nat /\ "HEADER" \in ParserStates
  BY Sizes DEF Bounded, Parsers, Headers, ParserStates
<1>2. FeedIdle(p, byte) = IF byte = StartByte THEN Fed(q, 0) ELSE Fed(p, 0)
  BY <1>1, IdleCases
<1> HIDE DEF h
<1>3. q \in Parsers /\ q.state = "HEADER" /\ q.bytes_received = 1
  BY <1>1, WithHeaderFields, Assignments
<1> HIDE DEF q
<1>4. Bounded(q)
  BY <1>3, Sizes DEF Bounded, InBuffer
<1> QED
  BY <1>2, <1>4 DEF Fed

LEMMA ErrorBounds ==
  ASSUME NEW p, Bounded(p), NEW byte \in Bytes, p.state = "ERROR"
  PROVE  Bounded(FeedError(p, byte).parser) /\ FeedError(p, byte).ret = 0
<1>1. Bounded(Reset(p)) /\ Reset(p).state = "IDLE"
  BY ResetBounds DEF Bounded
<1> QED
  BY <1>1, IdleBounds DEF FeedError, Fed

\* The next byte of the header, before its length is looked at.
NextOfHeader(p, byte) ==
  WithHeader(p, [p.header EXCEPT ![p.bytes_received + 1] = byte], p.bytes_received + 1)

LEMMA HeaderGrows ==
  ASSUME NEW p, Bounded(p), NEW byte \in Bytes, p.state = "HEADER"
  PROVE  /\ p.bytes_received + 1 \in 2 .. HeaderLen
         /\ NextOfHeader(p, byte) \in Parsers
         /\ NextOfHeader(p, byte).state = "HEADER"
         /\ NextOfHeader(p, byte).header = [p.header EXCEPT ![p.bytes_received + 1] = byte]
         /\ NextOfHeader(p, byte).bytes_received = p.bytes_received + 1
         /\ LengthIn(NextOfHeader(p, byte).header) \in Nat
<1> DEFINE n == p.bytes_received + 1
           h == [p.header EXCEPT ![n] = byte]
<1>1. n \in 2 .. HeaderLen /\ n \in Nat
  BY Sizes DEF Bounded, InBuffer, Parsers
<1>2. p \in Parsers /\ h \in Headers
  BY DEF Bounded, Parsers, Headers
<1>3. NextOfHeader(p, byte) = WithHeader(p, h, n)
  BY DEF NextOfHeader
<1> HIDE DEF n, h
<1>4. /\ NextOfHeader(p, byte) \in Parsers
      /\ NextOfHeader(p, byte).state = p.state
      /\ NextOfHeader(p, byte).header = h
      /\ NextOfHeader(p, byte).bytes_received = n
  BY <1>1, <1>2, <1>3, WithHeaderFields
<1>5. LengthIn(h) \in Nat
  BY <1>2, FrameAssumption
<1> QED
  BY <1>1, <1>4, <1>5 DEF n, h

\* The four outcomes of FeedHeader.
LEMMA HeaderCases ==
  ASSUME NEW p, Bounded(p), NEW byte \in Bytes, p.state = "HEADER"
  PROVE  LET q == NextOfHeader(p, byte)
             len == LengthIn(q.header)
         IN \/ q.bytes_received < HeaderLen /\ FeedHeader(p, byte) = Fed(q, 0)
            \/ /\ q.bytes_received = HeaderLen /\ len > MaxPayload
               /\ FeedHeader(p, byte) = Fed(InState(q, "ERROR"), -1)
            \/ /\ q.bytes_received = HeaderLen /\ len \in 1 .. MaxPayload
               /\ FeedHeader(p, byte) = Fed(Expecting(q, "PAYLOAD", 0, len), 0)
            \/ /\ q.bytes_received = HeaderLen /\ len = 0 /\ len \in 0 .. MaxPayload
               /\ FeedHeader(p, byte) = Fed(AtIndex(q, "CRC", 0), 0)
<1> DEFINE q == NextOfHeader(p, byte)
           len == LengthIn(q.header)
           n == q.bytes_received
<1>1. n \in 2 .. HeaderLen /\ len \in Nat
  BY HeaderGrows
<1>2. [p EXCEPT !.header[p.bytes_received + 1] = byte, !.bytes_received = p.bytes_received + 1]
        = q
  BY DEF NextOfHeader, WithHeader, Bounded, Parsers
<1>3. FeedHeader(p, byte) =
        CASE n < HeaderLen -> Fed(q, 0)
          [] n >= HeaderLen /\ len > MaxPayload -> Fed(InState(q, "ERROR"), -1)
          [] n >= HeaderLen /\ len \in 1 .. MaxPayload -> Fed(Expecting(q, "PAYLOAD", 0, len), 0)
          [] n >= HeaderLen /\ len = 0 -> Fed(AtIndex(q, "CRC", 0), 0)
  BY <1>2 DEF FeedHeader, InState, AtIndex, Expecting
<1> HIDE DEF n, len, q
<1>4. CASE n < HeaderLen
  <2>1. FeedHeader(p, byte) = Fed(q, 0)
    BY <1>1, <1>3, <1>4, Sizes
  <2> QED
    BY <1>4, <2>1 DEF n, q
<1>5. CASE n = HeaderLen /\ len > MaxPayload
  <2>1. FeedHeader(p, byte) = Fed(InState(q, "ERROR"), -1)
    BY <1>1, <1>3, <1>5, Sizes
  <2> QED
    BY <1>5, <2>1 DEF n, len, q
<1>6. CASE n = HeaderLen /\ len \in 1 .. MaxPayload
  <2>1. FeedHeader(p, byte) = Fed(Expecting(q, "PAYLOAD", 0, len), 0)
    BY <1>1, <1>3, <1>6, Sizes
  <2> QED
    BY <1>6, <2>1 DEF n, len, q
<1>7. CASE n = HeaderLen /\ len = 0
  <2>1. FeedHeader(p, byte) = Fed(AtIndex(q, "CRC", 0), 0) /\ len \in 0 .. MaxPayload
    BY <1>1, <1>3, <1>7, Sizes
  <2> QED
    BY <1>7, <2>1 DEF n, len, q
<1>8. n < HeaderLen \/ n = HeaderLen
  BY <1>1, Sizes
<1>9. len > MaxPayload \/ len \in 1 .. MaxPayload \/ len = 0
  BY <1>1, Sizes
<1> QED
  BY <1>4, <1>5, <1>6, <1>7, <1>8, <1>9

LEMMA HeaderBounds ==
  ASSUME NEW p, Bounded(p), NEW byte \in Bytes, p.state = "HEADER"
  PROVE  Bounded(FeedHeader(p, byte).parser) /\ FeedHeader(p, byte).ret \in Returns
<1> DEFINE q == NextOfHeader(p, byte)
           len == LengthIn(q.header)
<1>1. /\ q \in Parsers /\ q.state = "HEADER" /\ len \in Nat
      /\ q.bytes_received \in 2 .. HeaderLen
      /\ "ERROR" \in ParserStates /\ "PAYLOAD" \in ParserStates /\ "CRC" \in ParserStates
      /\ 0 \in Nat
  BY HeaderGrows DEF ParserStates
<1>2. \/ q.bytes_received < HeaderLen /\ FeedHeader(p, byte) = Fed(q, 0)
      \/ FeedHeader(p, byte) = Fed(InState(q, "ERROR"), -1)
      \/ len \in 1 .. MaxPayload /\ FeedHeader(p, byte) = Fed(Expecting(q, "PAYLOAD", 0, len), 0)
      \/ FeedHeader(p, byte) = Fed(AtIndex(q, "CRC", 0), 0)
  BY HeaderCases
<1> HIDE DEF q, len
<1>3. q.bytes_received < HeaderLen => Bounded(q)
  BY <1>1, Sizes DEF Bounded, InBuffer
<1>4. Bounded(InState(q, "ERROR"))
  <2>1. InState(q, "ERROR") \in Parsers /\ InState(q, "ERROR").state = "ERROR"
    BY <1>1, Assignments
  <2> QED
    BY <2>1 DEF Bounded, InBuffer
<1>5. len \in 1 .. MaxPayload => Bounded(Expecting(q, "PAYLOAD", 0, len))
  <2> HAVE len \in 1 .. MaxPayload
  <2> DEFINE r == Expecting(q, "PAYLOAD", 0, len)
  <2>1. len \in 0 .. MaxPayload
    BY Sizes
  <2>2. /\ r \in Parsers
        /\ r.state = "PAYLOAD" /\ r.expected_bytes = len /\ r.bytes_received = 0
    BY <1>1, <2>1, ExpectingFields
  <2>3. 0 \in 0 .. len - 1
    BY Sizes
  <2> HIDE DEF r
  <2>4. Bounded(r)
    BY <2>2, <2>3 DEF Bounded, InBuffer
  <2> QED
    BY <2>4 DEF r
<1>6. Bounded(AtIndex(q, "CRC", 0))
  <2> DEFINE r == AtIndex(q, "CRC", 0)
  <2>1. q \in Parsers /\ "CRC" \in ParserStates /\ 0 \in Nat
    BY <1>1
  <2>2. r \in Parsers /\ r.state = "CRC" /\ r.bytes_received = 0
    BY <2>1, Assignments
  <2> HIDE DEF r
  <2>3. Bounded(r)
    BY <2>2 DEF Bounded, InBuffer
  <2> QED
    BY <2>3 DEF r
<1> QED
  BY <1>2, <1>3, <1>4, <1>5, <1>6 DEF Fed, Returns

\* The next byte of the payload.
NextOfPayload(p, byte) ==
  WithPayload(p, [p.payload EXCEPT ![p.bytes_received + 1] = byte], p.bytes_received + 1)

LEMMA PayloadGrows ==
  ASSUME NEW p, Bounded(p), NEW byte \in Bytes, p.state = "PAYLOAD"
  PROVE  /\ p.bytes_received + 1 \in 1 .. p.expected_bytes
         /\ p.expected_bytes \in 1 .. MaxPayload
         /\ NextOfPayload(p, byte) \in Parsers
         /\ NextOfPayload(p, byte).state = "PAYLOAD"
         /\ NextOfPayload(p, byte).header = p.header
         /\ NextOfPayload(p, byte).payload = [p.payload EXCEPT ![p.bytes_received + 1] = byte]
         /\ NextOfPayload(p, byte).bytes_received = p.bytes_received + 1
         /\ NextOfPayload(p, byte).expected_bytes = p.expected_bytes
<1> DEFINE n == p.bytes_received + 1
           y == [p.payload EXCEPT ![n] = byte]
<1>1. n \in 1 .. p.expected_bytes /\ n \in Nat /\ p.expected_bytes \in 1 .. MaxPayload
  BY Sizes DEF Bounded, InBuffer, Parsers
<1>2. p \in Parsers /\ y \in [1 .. MaxPayload -> Bytes]
  BY DEF Bounded, Parsers
<1>3. NextOfPayload(p, byte) = WithPayload(p, y, n)
  BY DEF NextOfPayload
<1> HIDE DEF n, y
<1>4. /\ NextOfPayload(p, byte) \in Parsers
      /\ NextOfPayload(p, byte).state = p.state
      /\ NextOfPayload(p, byte).header = p.header
      /\ NextOfPayload(p, byte).payload = y
      /\ NextOfPayload(p, byte).bytes_received = n
      /\ NextOfPayload(p, byte).expected_bytes = p.expected_bytes
  BY <1>1, <1>2, <1>3, WithPayloadFields
<1> QED
  BY <1>1, <1>4 DEF n, y

LEMMA PayloadCases ==
  ASSUME NEW p \in Parsers, NEW byte \in Bytes
  PROVE  LET q == NextOfPayload(p, byte)
         IN FeedPayload(p, byte) =
              IF q.bytes_received >= q.expected_bytes
              THEN Fed(AtIndex(q, "CRC", 0), 0) ELSE Fed(q, 0)
<1>1. [p EXCEPT !.payload[p.bytes_received + 1] = byte, !.bytes_received = p.bytes_received + 1]
        = NextOfPayload(p, byte)
  BY DEF NextOfPayload, WithPayload, Parsers
<1> QED
  BY <1>1 DEF FeedPayload, AtIndex

LEMMA PayloadBounds ==
  ASSUME NEW p, Bounded(p), NEW byte \in Bytes, p.state = "PAYLOAD"
  PROVE  Bounded(FeedPayload(p, byte).parser) /\ FeedPayload(p, byte).ret = 0
<1> DEFINE q == NextOfPayload(p, byte)
           r == AtIndex(q, "CRC", 0)
<1>1. /\ q \in Parsers /\ q.state = "PAYLOAD" /\ q.expected_bytes = p.expected_bytes
      /\ q.bytes_received \in 1 .. q.expected_bytes
      /\ q.expected_bytes \in 1 .. MaxPayload
      /\ "CRC" \in ParserStates /\ 0 \in Nat
  BY PayloadGrows DEF ParserStates
<1>2. FeedPayload(p, byte) =
        IF q.bytes_received >= q.expected_bytes THEN Fed(r, 0) ELSE Fed(q, 0)
  BY PayloadCases DEF Bounded
<1> HIDE DEF q
<1>3. r \in Parsers /\ r.state = "CRC" /\ r.bytes_received = 0
  BY <1>1, Assignments
<1>4. Bounded(r)
  BY <1>3 DEF Bounded, InBuffer
<1>5. q.bytes_received < q.expected_bytes => Bounded(q)
  BY <1>1, Sizes DEF Bounded, InBuffer
<1>6. q.bytes_received >= q.expected_bytes \/ q.bytes_received < q.expected_bytes
  BY <1>1, Sizes
<1> HIDE DEF r
<1> QED
  BY <1>1, <1>2, <1>4, <1>5, <1>6, Sizes DEF Fed

LEMMA CrcCases ==
  ASSUME NEW p \in Parsers, p.state = "CRC", NEW byte \in Bytes
  PROVE  FeedCrc(p, byte) =
           IF p.bytes_received = 0
           THEN Fed(WithCrc(p, <<byte, ZeroByte>>, "CRC", 1), 0)
           ELSE Fed(WithCrc(p, [p.crc EXCEPT ![2] = byte], "END", p.bytes_received), 0)
<1>1. [p EXCEPT !.crc = <<byte, ZeroByte>>, !.bytes_received = 1]
        = [p EXCEPT !.crc = <<byte, ZeroByte>>, !.state = "CRC", !.bytes_received = 1]
  BY DEF Parsers
<1>2. [p EXCEPT !.crc[2] = byte, !.state = "END"]
        = [p EXCEPT !.crc = [p.crc EXCEPT ![2] = byte], !.state = "END",
                    !.bytes_received = p.bytes_received]
  BY DEF Parsers
<1> QED
  BY <1>1, <1>2 DEF FeedCrc, WithCrc

LEMMA CrcBounds ==
  ASSUME NEW p, Bounded(p), NEW byte \in Bytes, p.state = "CRC"
  PROVE  Bounded(FeedCrc(p, byte).parser) /\ FeedCrc(p, byte).ret = 0
<1> DEFINE c == <<byte, ZeroByte>>
           d == [p.crc EXCEPT ![2] = byte]
           a == WithCrc(p, c, "CRC", 1)
           b == WithCrc(p, d, "END", p.bytes_received)
<1>1. /\ p \in Parsers /\ p.bytes_received \in Nat /\ 1 \in Nat
      /\ d \in [1 .. 2 -> Bytes]
      /\ "CRC" \in ParserStates /\ "END" \in ParserStates
  BY DEF Bounded, Parsers, ParserStates
<1>2. c \in [1 .. 2 -> Bytes]
  BY Sizes
<1>3. FeedCrc(p, byte) = IF p.bytes_received = 0 THEN Fed(a, 0) ELSE Fed(b, 0)
  BY <1>1, CrcCases
<1> HIDE DEF c, d
<1>4. /\ a \in Parsers /\ a.state = "CRC" /\ a.bytes_received = 1
      /\ b \in Parsers /\ b.state = "END"
  <2>1. a \in Parsers /\ a.state = "CRC" /\ a.bytes_received = 1
    BY <1>1, <1>2, WithCrcFields
  <2>2. b \in Parsers /\ b.state = "END"
    BY <1>1, WithCrcFields
  <2> QED
    BY <2>1, <2>2
<1> HIDE DEF a, b
<1>5. Bounded(a) /\ Bounded(b)
  BY <1>4 DEF Bounded, InBuffer
<1> QED
  BY <1>3, <1>5 DEF Fed

LEMMA EndCases ==
  ASSUME NEW p, NEW byte
  PROVE  \/ byte # EndByte /\ FeedEnd(p, byte) = Fed(InState(p, "ERROR"), -1)
         \/ /\ byte = EndByte /\ p.crc = Crc(p.header \o PacketPayload(p))
            /\ FeedEnd(p, byte) = Fed(InState(p, "IDLE"), 1)
         \/ /\ byte = EndByte /\ p.crc # Crc(p.header \o PacketPayload(p))
            /\ FeedEnd(p, byte) = Fed(InState(p, "ERROR"), -2)
BY DEF FeedEnd, InState

LEMMA EndBounds ==
  ASSUME NEW p, Bounded(p), NEW byte \in Bytes, p.state = "END"
  PROVE  Bounded(FeedEnd(p, byte).parser) /\ FeedEnd(p, byte).ret \in Returns
<1>1. Bounded(InState(p, "IDLE")) /\ Bounded(InState(p, "ERROR"))
  <2>1. p \in Parsers /\ {"IDLE", "ERROR"} \subseteq ParserStates /\ 0 \in Nat
    BY DEF Bounded, ParserStates
  <2>2. /\ InState(p, "IDLE") \in Parsers /\ InState(p, "IDLE").state = "IDLE"
        /\ InState(p, "ERROR") \in Parsers /\ InState(p, "ERROR").state = "ERROR"
    BY <2>1, Assignments
  <2> QED
    BY <2>2 DEF Bounded, InBuffer
<1> QED
  BY <1>1, EndCases DEF Fed, Returns

LEMMA FeedBounds ==
  ASSUME NEW p, Bounded(p), NEW byte \in Bytes
  PROVE  Bounded(Feed(p, byte).parser) /\ Feed(p, byte).ret \in Returns
<1>1. p.state \in ParserStates
  BY DEF Bounded, Parsers
<1> QED
  BY <1>1, IdleBounds, HeaderBounds, PayloadBounds, CrcBounds, EndBounds, ErrorBounds
     DEF Feed, ParserStates, Returns

----------------------------------------------------------------------------
(* The invariant *)

ParserBounds == ParserTypeOK /\ IndexInBuffer

LEMMA InitBounds == ParserInit => ParserBounds
<1>1. FreshParser \in Parsers /\ FreshParser.state = "IDLE"
  BY FrameAssumption DEF FreshParser, Parsers, ParserStates, Headers
<1> QED
  BY <1>1 DEF ParserInit, ParserBounds, ParserTypeOK, IndexInBuffer, InBuffer

LEMMA StepBounds == ParserBounds /\ [ReceiverNext]_receiverVars => ParserBounds'
<1> SUFFICES ASSUME ParserBounds, [ReceiverNext]_receiverVars PROVE ParserBounds'
  OBVIOUS
<1>1. Bounded(parser) /\ parser \in Parsers
  BY DEF ParserBounds, ParserTypeOK, IndexInBuffer, Bounded
<1>2. ASSUME NEW byte \in Bytes, FeedByte(byte) PROVE ParserBounds'
  BY <1>1, <1>2, FeedBounds
     DEF FeedByte, ParserBounds, ParserTypeOK, IndexInBuffer, Bounded, Returns
<1>3. CASE ResetParser
  BY <1>1, <1>3, ResetBounds
     DEF ResetParser, ParserBounds, ParserTypeOK, IndexInBuffer, Bounded
<1>4. CASE UNCHANGED receiverVars
  BY <1>4 DEF receiverVars, ParserBounds, ParserTypeOK, IndexInBuffer
<1> QED
  BY <1>2, <1>3, <1>4 DEF ReceiverNext

\* The parser's record keeps its type under any bytes and resets.
THEOREM ParserTyped == ReceiverSpec => []ParserTypeOK
<1>1. ParserBounds => ParserTypeOK
  BY DEF ParserBounds
<1> QED
  BY <1>1, InitBounds, StepBounds, PTL DEF ReceiverSpec, ReceiverInit

\* No byte is ever stored outside its buffer, for any frame format, bytes
\* and resets (protocol_parser_feed).
THEOREM ParserKeepsToBuffers == ReceiverSpec => []IndexInBuffer
<1>1. ParserBounds => IndexInBuffer
  BY DEF ParserBounds
<1> QED
  BY <1>1, InitBounds, StepBounds, PTL DEF ReceiverSpec, ReceiverInit

----------------------------------------------------------------------------
(* Sequences *)

\* Storing one more byte extends the stored part by it.
LEMMA StoredGrows ==
  ASSUME NEW S, NEW s \in Seq(S), NEW k \in 1 .. Len(s), NEW x \in S
  PROVE  SubSeq([s EXCEPT ![k] = x], 1, k) = Append(SubSeq(s, 1, k - 1), x)
<1> DEFINE t == [s EXCEPT ![k] = x]
           a == SubSeq(s, 1, k - 1)
           b == SubSeq(t, 1, k - 1)
<1>1. /\ Len(s) \in Nat /\ k \in Nat /\ k - 1 \in Int
      /\ t \in Seq(S) /\ Len(t) = Len(s)
      /\ \A j \in 1 .. Len(s) : t[j] = IF j = k THEN x ELSE s[j]
  BY ExceptSeq, LenProperties
<1> HIDE DEF t
<1>2. \A j \in 1 .. k - 1 : j \in 1 .. Len(s) /\ j # k
  BY <1>1
<1>3. \A j \in 1 .. k - 1 : s[j] \in S /\ t[j] = s[j]
  BY <1>1, <1>2, ElementOfSeq
<1>4. /\ a \in Seq(S) /\ b \in Seq(S) /\ Len(a) = k - 1 /\ Len(b) = k - 1
      /\ \A j \in 1 .. k - 1 : a[j] = s[j] /\ b[j] = t[j]
  BY <1>1, <1>3, SubSeqProperties
<1>5. a = b
  BY <1>3, <1>4, SeqEqual
<1>6. 1 \in 1 .. Len(t) /\ k \in 1 .. Len(t) /\ t[k] = x
  BY <1>1
<1>7. SubSeq(t, 1, k) = b \o <<t[k]>>
  BY <1>1, <1>6, SubSeqRecursiveSecond
<1>8. Append(a, x) = a \o <<x>>
  BY <1>4, AppendIsConcat
<1> QED
  BY <1>5, <1>6, <1>7, <1>8 DEF t

LEMMA AppendToConcat ==
  ASSUME NEW a \in Seq(Bytes), NEW b \in Seq(Bytes), NEW x \in Bytes
  PROVE  Append(a \o b, x) = a \o Append(b, x)
<1>1. a \o b \in Seq(Bytes) /\ <<x>> \in Seq(Bytes)
  BY ConcatProperties
<1>2. Append(a \o b, x) = (a \o b) \o <<x>> /\ Append(b, x) = b \o <<x>>
  BY <1>1, AppendIsConcat
<1> QED
  BY <1>1, <1>2, ConcatAssociative

LEMMA FirstPart ==
  ASSUME NEW S, NEW a \in Seq(S), NEW b \in Seq(S), Len(a) > 0
  PROVE  SubSeq(a \o b, 1, Len(a)) = a
<1>1. 1 \in 1 .. Len(a) /\ Len(a) \in 1 .. Len(a)
  BY LenProperties
<1> QED
  BY <1>1, SubSeqOfConcat1, SubSeqFull

LEMMA SecondPart ==
  ASSUME NEW S, NEW a \in Seq(S), NEW b \in Seq(S), NEW c \in Seq(S)
  PROVE  SubSeq((a \o b) \o c, Len(a) + 1, Len(a) + Len(b)) = b
<1> DEFINE m == Len(a) + 1
           n == Len(a) + Len(b)
<1>1. Len(a) \in Nat /\ Len(b) \in Nat /\ Len(a \o b) = n /\ a \o b \in Seq(S)
  BY LenProperties, ConcatProperties
<1>2. CASE b = <<>>
  <2>1. n < m /\ m \in Int /\ n \in Int
    BY <1>1, <1>2, EmptySeq
  <2> QED
    BY <1>2, <2>1, SubSeqEmpty
<1>3. CASE b # <<>>
  <2>1. Len(b) > 0
    BY <1>1, <1>3, EmptySeq
  <2>2. /\ m \in 1 .. Len(a \o b) /\ n \in 1 .. Len(a \o b)
        /\ m \in Len(a) + 1 .. Len(a) + Len(b) /\ n \in Len(a) + 1 .. Len(a) + Len(b)
        /\ m - Len(a) = 1 /\ n - Len(a) = Len(b)
    BY <1>1, <2>1
  <2>3. SubSeq((a \o b) \o c, m, n) = SubSeq(a \o b, m, n)
    BY <1>1, <2>2, SubSeqOfConcat1
  <2>4. SubSeq(a \o b, m, n) = SubSeq(b, m - Len(a), n - Len(a))
    BY <2>2, SubSeqOfConcat2
  <2> QED
    BY <2>2, <2>3, <2>4, SubSeqFull
<1> QED
  BY <1>2, <1>3

\* The buffers as sequences.
LEMMA BufferIsSeq ==
  ASSUME NEW S, NEW n \in Nat, NEW f \in [1 .. n -> S]
  PROVE  f \in Seq(S) /\ Len(f) = n
OBVIOUS

----------------------------------------------------------------------------
(* The refinement *)

\* What the parser knows of a frame under way besides the bounds.
InFrame(p) ==
  /\ p.state \in {"HEADER", "PAYLOAD", "CRC", "END"} => p.header[1] = StartByte
  /\ p.state = "PAYLOAD" => p.expected_bytes = LengthIn(p.header)
  /\ p.state \in {"CRC", "END"} => LengthIn(p.header) <= MaxPayload

\* Feeding byte to p, which leads to q and returns r, collects byte.
Collects(p, byte, q, r) ==
  LET g == Append(CollectedIn(p), byte)
  IN /\ InFrame(q)
     /\ CollectedIn(q) = IF Collector!Growing(g) THEN g ELSE <<>>
     /\ CompletedIn(q, r) = IF ~Collector!Growing(g) /\ Collector!Whole(g) THEN g ELSE <<>>
     /\ r < 0 <=> ~Collector!Growing(g) /\ ~Collector!Whole(g)

\* The parts of the buffers that belong to a frame.
LEMMA Parts ==
  ASSUME NEW p \in Parsers
  PROVE  /\ p.header \in Seq(Bytes) /\ Len(p.header) = HeaderLen
         /\ p.payload \in Seq(Bytes) /\ Len(p.payload) = MaxPayload
         /\ p.crc \in Seq(Bytes) /\ Len(p.crc) = 2
         /\ LengthIn(p.header) \in Nat
         /\ p.bytes_received \in Nat
<1>1. p.header \in Headers /\ p.header \in [1 .. HeaderLen -> Bytes]
      /\ p.payload \in [1 .. MaxPayload -> Bytes]
      /\ p.crc \in [1 .. 2 -> Bytes] /\ p.bytes_received \in Nat
  BY DEF Parsers, Headers
<1>2. LengthIn(p.header) \in Nat
  BY <1>1, FrameAssumption
<1>3. p.header \in Seq(Bytes) /\ Len(p.header) = HeaderLen
  BY <1>1, Sizes, BufferIsSeq
<1>4. p.payload \in Seq(Bytes) /\ Len(p.payload) = MaxPayload
  BY <1>1, Sizes, BufferIsSeq
<1>5. p.crc \in Seq(Bytes) /\ Len(p.crc) = 2
  BY <1>1, BufferIsSeq
<1> QED
  BY <1>1, <1>2, <1>3, <1>4, <1>5

LEMMA Prefix ==
  ASSUME NEW S, NEW s \in Seq(S), NEW n \in 0 .. Len(s)
  PROVE  /\ SubSeq(s, 1, n) \in Seq(S)
         /\ Len(SubSeq(s, 1, n)) = n
         /\ \A j \in 1 .. n : SubSeq(s, 1, n)[j] = s[j]
<1>1. Len(s) \in Nat /\ n \in Int /\ 1 \in Int
  BY LenProperties
<1>2. \A j \in 1 .. n : j \in 1 .. Len(s) /\ s[j] \in S
  BY <1>1, ElementOfSeq
<1>3. /\ SubSeq(s, 1, n) \in Seq(S)
      /\ Len(SubSeq(s, 1, n)) = IF 1 <= n THEN n - 1 + 1 ELSE 0
      /\ \A j \in 1 .. n - 1 + 1 : SubSeq(s, 1, n)[j] = s[1 + j - 1]
  BY <1>1, <1>2, SubSeqProperties
<1> QED
  BY <1>1, <1>3

\* A frame that has its header grows as long as the header says.
LEMMA GrowingByHeader ==
  ASSUME NEW h \in Headers, NEW t \in Seq(Bytes)
  PROVE  Collector!Growing(h \o t)
           <=> LengthIn(h) <= MaxPayload /\ Len(t) < LengthIn(h) + 3
<1>1. h \in Seq(Bytes) /\ Len(h) = HeaderLen /\ Len(h) > 0
  BY Sizes, BufferIsSeq DEF Headers
<1>2. Collector!HeaderOf(h \o t) = h
  BY <1>1, FirstPart DEF Collector!HeaderOf
<1>3. Len(h \o t) = HeaderLen + Len(t) /\ Len(t) \in Nat
  BY <1>1, ConcatProperties, LenProperties
<1>4. LengthIn(h) \in Nat
  BY FrameAssumption
<1> QED
  BY <1>2, <1>3, <1>4, Sizes DEF Collector!Growing, Collector!FrameLen

\* Before that it grows in any case.
LEMMA GrowingBeforeHeader ==
  ASSUME NEW g, Len(g) < HeaderLen
  PROVE  Collector!Growing(g)
BY DEF Collector!Growing

\* The first byte of a frame.
LEMMA StartCollects ==
  ASSUME NEW p, Bounded(p), p.state \in {"IDLE", "ERROR"}
  PROVE  Collects(p, StartByte, FeedIdle(p, StartByte).parser, FeedIdle(p, StartByte).ret)
<1> DEFINE h == [p.header EXCEPT ![1] = StartByte]
           q == AtIndex(WithHeader(p, h, 1), "HEADER", 1)
<1>1. p \in Parsers /\ h \in Headers /\ 1 \in Nat /\ "HEADER" \in ParserStates
      /\ StartByte \in Bytes
  BY Sizes, FrameAssumption DEF Bounded, Parsers, Headers, ParserStates
<1>2. FeedIdle(p, StartByte) = Fed(q, 0)
  BY <1>1, IdleCases
<1>3. h[1] = StartByte /\ p.header \in Seq(Bytes) /\ 1 \in 1 .. Len(p.header)
  BY <1>1, Parts, Sizes DEF Parsers, Headers
<1>4. SubSeq(h, 1, 1) = Append(SubSeq(p.header, 1, 0), StartByte)
  BY <1>1, <1>3, StoredGrows
<1>5. SubSeq(p.header, 1, 0) = <<>>
  BY SubSeqEmpty
<1> HIDE DEF h
<1>6. q.state = "HEADER" /\ q.bytes_received = 1 /\ q.header = h
  BY <1>1, WithHeaderFields, Assignments DEF SameBuffers
<1> HIDE DEF q
<1>7. CollectedIn(p) = <<>>
  BY DEF CollectedIn
<1>8. CollectedIn(q) = Append(CollectedIn(p), StartByte)
  BY <1>4, <1>5, <1>6, <1>7 DEF CollectedIn
<1>9. Len(Append(CollectedIn(p), StartByte)) < HeaderLen
  BY <1>7, Sizes
<1>10. Collector!Growing(Append(CollectedIn(p), StartByte))
  BY <1>9, GrowingBeforeHeader
<1>11. InFrame(q)
  BY <1>3, <1>6 DEF InFrame
<1>12. CompletedIn(q, 0) = <<>>
  BY DEF CompletedIn
<1> QED
  BY <1>2, <1>8, <1>10, <1>11, <1>12 DEF Collects, Fed

LEMMA HeaderCollects ==
  ASSUME NEW p, Bounded(p), InFrame(p), NEW byte \in Bytes, p.state = "HEADER"
  PROVE  Collects(p, byte, FeedHeader(p, byte).parser, FeedHeader(p, byte).ret)
<1> DEFINE n == p.bytes_received
           h == [p.header EXCEPT ![n + 1] = byte]
           q == NextOfHeader(p, byte)
           len == LengthIn(q.header)
           g == Append(CollectedIn(p), byte)
<1>1. p \in Parsers
  BY DEF Bounded
<1>2. /\ n \in Nat /\ n + 1 \in 2 .. HeaderLen
      /\ p.header \in Seq(Bytes) /\ Len(p.header) = HeaderLen
  BY <1>1, HeaderGrows, Parts
<1>3. q \in Parsers /\ q.state = "HEADER" /\ q.header = h /\ q.bytes_received = n + 1
      /\ len \in Nat
  BY HeaderGrows
<1>4. h[1] = StartByte /\ h \in Headers
  BY <1>1, <1>2, Sizes DEF InFrame, Parsers, Headers
<1>5. g = SubSeq(h, 1, n + 1)
  <2> DEFINE k == n + 1
             t == p.header
  <2>1. k \in 1 .. Len(t) /\ k - 1 = n /\ t \in Seq(Bytes)
    BY <1>2, Sizes
  <2>2. CollectedIn(p) = SubSeq(t, 1, n)
    BY DEF CollectedIn
  <2> HIDE DEF k, t
  <2>3. SubSeq([t EXCEPT ![k] = byte], 1, k) = Append(SubSeq(t, 1, k - 1), byte)
    BY <2>1, StoredGrows
  <2> QED
    BY <2>1, <2>2, <2>3 DEF k, t
<1>6. \/ q.bytes_received < HeaderLen /\ FeedHeader(p, byte) = Fed(q, 0)
      \/ /\ q.bytes_received = HeaderLen /\ len > MaxPayload
         /\ FeedHeader(p, byte) = Fed(InState(q, "ERROR"), -1)
      \/ /\ q.bytes_received = HeaderLen /\ len \in 1 .. MaxPayload
         /\ FeedHeader(p, byte) = Fed(Expecting(q, "PAYLOAD", 0, len), 0)
      \/ /\ q.bytes_received = HeaderLen /\ len = 0 /\ len \in 0 .. MaxPayload
         /\ FeedHeader(p, byte) = Fed(AtIndex(q, "CRC", 0), 0)
  BY HeaderCases
<1>7. /\ "ERROR" \in ParserStates /\ "PAYLOAD" \in ParserStates /\ "CRC" \in ParserStates
      /\ 0 \in Nat
  BY DEF ParserStates
<1> HIDE DEF n, h, q, g
<1>8. h \in Seq(Bytes) /\ Len(h) = HeaderLen
  BY <1>4, Sizes, BufferIsSeq DEF Headers
<1>9. CASE q.bytes_received < HeaderLen /\ FeedHeader(p, byte) = Fed(q, 0)
  <2>1. n + 1 \in 0 .. Len(h)
    BY <1>2, <1>8
  <2>2. Len(g) = n + 1
    BY <1>5, <1>8, <2>1, Prefix
  <2>3. Collector!Growing(g)
    BY <1>3, <1>9, <2>2, GrowingBeforeHeader
  <2>4. CollectedIn(q) = g
    BY <1>3, <1>5 DEF CollectedIn
  <2>5. CompletedIn(q, 0) = <<>>
    BY DEF CompletedIn
  <2>6. InFrame(q)
    BY <1>3, <1>4 DEF InFrame
  <2> QED
    BY <1>9, <2>3, <2>4, <2>5, <2>6 DEF Collects, Fed, g
<1>10. ASSUME q.bytes_received = HeaderLen
       PROVE  /\ g = h /\ g = h \o <<>>
              /\ Collector!Growing(g) <=> len <= MaxPayload
              /\ ~Collector!Whole(g)
  <2>1. g = h
    BY <1>3, <1>5, <1>8, <1>10, SubSeqFull
  <2>2. h = h \o <<>> /\ <<>> \in Seq(Bytes) /\ Len(<<>>) = 0
    BY <1>8, ConcatEmptySeq, EmptySeq
  <2>3. Collector!Growing(h \o <<>>)
          <=> LengthIn(h) <= MaxPayload /\ Len(<<>>) < LengthIn(h) + 3
    BY <1>4, <2>2, GrowingByHeader
  <2>4. Collector!Growing(g) <=> len <= MaxPayload
    <3>1. LengthIn(h) = len /\ g = h \o <<>>
      BY <1>3, <2>1, <2>2
    <3>2. 0 < len + 3
      BY <1>3
    <3> QED
      BY <2>2, <2>3, <3>1, <3>2
  <2>5. ~Collector!Whole(g)
    BY <1>8, <2>1, Sizes DEF Collector!Whole
  <2> QED
    BY <2>1, <2>2, <2>4, <2>5
<1>11. CASE /\ q.bytes_received = HeaderLen /\ len > MaxPayload
            /\ FeedHeader(p, byte) = Fed(InState(q, "ERROR"), -1)
  <2> DEFINE r == InState(q, "ERROR")
  <2>1. r.state = "ERROR"
    BY <1>3, <1>7, Assignments
  <2> HIDE DEF r
  <2>2. CollectedIn(r) = <<>> /\ CompletedIn(r, -1) = <<>> /\ InFrame(r)
    BY <2>1 DEF CollectedIn, CompletedIn, InFrame
  <2>3. ~Collector!Growing(g) /\ ~Collector!Whole(g)
    BY <1>3, <1>10, <1>11, Sizes
  <2> QED
    BY <1>11, <2>2, <2>3 DEF Collects, Fed, g, r
<1>12. CASE /\ q.bytes_received = HeaderLen /\ len \in 1 .. MaxPayload
            /\ FeedHeader(p, byte) = Fed(Expecting(q, "PAYLOAD", 0, len), 0)
  <2> DEFINE r == Expecting(q, "PAYLOAD", 0, len)
  <2>1. len \in 0 .. MaxPayload /\ len <= MaxPayload
    BY <1>12, Sizes
  <2>2. /\ r.state = "PAYLOAD" /\ r.bytes_received = 0 /\ r.expected_bytes = len
        /\ r.header = h
    BY <1>3, <1>7, <2>1, ExpectingFields DEF SameBuffers
  <2>3. LengthIn(r.header) = len
    BY <1>3, <2>2
  <2> HIDE DEF r
  <2>4. SubSeq(r.payload, 1, 0) = <<>>
    BY SubSeqEmpty
  <2>5. CollectedIn(r) = h \o SubSeq(r.payload, 1, 0)
    BY <2>2 DEF CollectedIn
  <2>6. CompletedIn(r, 0) = <<>>
    BY DEF CompletedIn
  <2>7. InFrame(r)
    BY <1>4, <2>2, <2>3 DEF InFrame
  <2>8. Collector!Growing(g)
    BY <1>10, <1>12, <2>1
  <2>9. CollectedIn(r) = g
    BY <1>10, <1>12, <2>4, <2>5
  <2> QED
    BY <1>12, <2>6, <2>7, <2>8, <2>9 DEF Collects, Fed, g, r
<1>13. CASE /\ q.bytes_received = HeaderLen /\ len = 0 /\ len \in 0 .. MaxPayload
            /\ FeedHeader(p, byte) = Fed(AtIndex(q, "CRC", 0), 0)
  <2> DEFINE r == AtIndex(q, "CRC", 0)
  <2>0. q \in Parsers /\ "CRC" \in ParserStates /\ 0 \in Nat
    BY <1>3, <1>7
  <2>1. r.state = "CRC" /\ r.bytes_received = 0 /\ r.header = h
    BY <1>3, <2>0, Assignments DEF SameBuffers
  <2>2. LengthIn(r.header) = 0 /\ 0 <= MaxPayload /\ len <= MaxPayload
    BY <1>3, <1>13, <2>1, Sizes
  <2> HIDE DEF r
  <2>3. PacketPayload(r) = <<>> /\ SubSeq(r.crc, 1, 0) = <<>>
    BY <2>2, SubSeqEmpty DEF PacketPayload
  <2>4. h \o <<>> = h
    BY <1>8, ConcatEmptySeq
  <2>5. CollectedIn(r) = h \o PacketPayload(r) \o SubSeq(r.crc, 1, 0)
    BY <2>1 DEF CollectedIn
  <2>6. CompletedIn(r, 0) = <<>>
    BY DEF CompletedIn
  <2>7. InFrame(r)
    BY <1>4, <2>1, <2>2 DEF InFrame
  <2>8. Collector!Growing(g)
    BY <1>10, <1>13, <2>2
  <2>9. CollectedIn(r) = g
    BY <1>10, <1>13, <2>3, <2>4, <2>5
  <2> QED
    BY <1>13, <2>6, <2>7, <2>8, <2>9 DEF Collects, Fed, g, r
<1> QED
  BY <1>6, <1>9, <1>11, <1>12, <1>13

LEMMA PayloadCollects ==
  ASSUME NEW p, Bounded(p), InFrame(p), NEW byte \in Bytes, p.state = "PAYLOAD"
  PROVE  Collects(p, byte, FeedPayload(p, byte).parser, FeedPayload(p, byte).ret)
<1> DEFINE n == p.bytes_received
           k == n + 1
           h == p.header
           s == p.payload
           y == [s EXCEPT ![k] = byte]
           q == NextOfPayload(p, byte)
           r == AtIndex(q, "CRC", 0)
           len == LengthIn(h)
           g == Append(CollectedIn(p), byte)
           t == SubSeq(y, 1, k)
<1>1. p \in Parsers /\ h[1] = StartByte /\ p.expected_bytes = len
  BY DEF Bounded, InFrame
<1>2. /\ n \in Nat /\ k \in 1 .. len /\ len \in 1 .. MaxPayload
      /\ h \in Seq(Bytes) /\ s \in Seq(Bytes) /\ Len(s) = MaxPayload
  BY <1>1, PayloadGrows, Parts
<1>3. h \in Headers
  BY <1>1 DEF Parsers
<1>4. /\ q \in Parsers /\ q.state = "PAYLOAD" /\ q.header = h /\ q.payload = y
      /\ q.bytes_received = k /\ q.expected_bytes = len
  BY <1>1, PayloadGrows
<1>5. FeedPayload(p, byte) = IF q.bytes_received >= q.expected_bytes THEN Fed(r, 0) ELSE Fed(q, 0)
  BY <1>1, PayloadCases
<1>6. q \in Parsers /\ "CRC" \in ParserStates /\ 0 \in Nat
  BY <1>4 DEF ParserStates
<1>7. r.state = "CRC" /\ r.bytes_received = 0 /\ SameBuffers(r, q)
  BY <1>6, Assignments
<1>8. r.header = h /\ r.payload = y
  BY <1>4, <1>7 DEF SameBuffers
<1>9. CollectedIn(p) = h \o SubSeq(s, 1, n)
  BY DEF CollectedIn
<1>10. k \in 1 .. Len(s) /\ n \in 0 .. Len(s) /\ k - 1 = n
  BY <1>2, Sizes
<1> HIDE DEF q, r
<1>11. t = Append(SubSeq(s, 1, n), byte)
  <2> HIDE DEF k, s, n
  <2>1. SubSeq([s EXCEPT ![k] = byte], 1, k) = Append(SubSeq(s, 1, k - 1), byte)
    BY <1>2, <1>10, StoredGrows
  <2> QED
    BY <1>10, <2>1
<1> HIDE DEF h, s, y, k, n, len, t
<1>12. SubSeq(s, 1, n) \in Seq(Bytes) /\ Len(SubSeq(s, 1, n)) = n
  BY <1>2, <1>10, Prefix
<1>13. t \in Seq(Bytes) /\ Len(t) = k
  <2>1. Len(t) = n + 1 /\ t \in Seq(Bytes)
    BY <1>11, <1>12, AppendProperties
  <2> QED
    BY <2>1 DEF k
<1>14. g = h \o t
  <2> DEFINE v == SubSeq(s, 1, n)
  <2>1. v \in Seq(Bytes) /\ h \in Seq(Bytes) /\ CollectedIn(p) = h \o v /\ t = Append(v, byte)
    BY <1>2, <1>9, <1>11, <1>12
  <2> HIDE DEF v
  <2>2. Append(h \o v, byte) = h \o Append(v, byte)
    BY <2>1, AppendToConcat
  <2> QED
    BY <2>1, <2>2
<1> HIDE DEF g
<1>15. Collector!Growing(g)
  <2>1. Collector!Growing(h \o t) <=> LengthIn(h) <= MaxPayload /\ Len(t) < LengthIn(h) + 3
    BY <1>3, <1>13, GrowingByHeader
  <2>2. len <= MaxPayload /\ Len(t) < len + 3
    BY <1>2, <1>13, Sizes
  <2> QED
    BY <1>14, <2>1, <2>2 DEF len
<1>16. CompletedIn(q, 0) = <<>> /\ CompletedIn(r, 0) = <<>>
  BY DEF CompletedIn
<1>17. CASE k >= len
  <2>1. FeedPayload(p, byte) = Fed(r, 0)
    BY <1>4, <1>5, <1>17
  <2>2. k = len
    BY <1>2, <1>17
  <2>3. PacketPayload(r) = t
    BY <1>8, <2>2 DEF PacketPayload, t, len
  <2>4. SubSeq(r.crc, 1, 0) = <<>>
    BY SubSeqEmpty
  <2>5. CollectedIn(r) = (h \o t) \o <<>>
    BY <1>7, <1>8, <2>3, <2>4 DEF CollectedIn
  <2>6. (h \o t) \o <<>> = h \o t
    BY <1>2, <1>13, ConcatProperties, ConcatEmptySeq
  <2>7. LengthIn(r.header) <= MaxPayload
    BY <1>2, <1>8, Sizes DEF len
  <2>8. InFrame(r)
    BY <1>1, <1>7, <1>8, <2>7 DEF InFrame
  <2> QED
    BY <1>14, <1>15, <1>16, <2>1, <2>5, <2>6, <2>8 DEF Collects, Fed, g
<1>18. CASE ~(k >= len)
  <2>1. FeedPayload(p, byte) = Fed(q, 0)
    BY <1>4, <1>5, <1>18
  <2>2. CollectedIn(q) = h \o t
    BY <1>4 DEF CollectedIn, t
  <2>3. InFrame(q)
    BY <1>1, <1>4 DEF InFrame, len
  <2> QED
    BY <1>14, <1>15, <1>16, <2>1, <2>2, <2>3 DEF Collects, Fed, g
<1> QED
  BY <1>17, <1>18

\* Header and payload of a frame whose payload is there.
LEMMA Contents ==
  ASSUME NEW p \in Parsers, LengthIn(p.header) <= MaxPayload
  PROVE  /\ PacketPayload(p) \in Seq(Bytes) /\ Len(PacketPayload(p)) = LengthIn(p.header)
         /\ p.header \o PacketPayload(p) \in Seq(Bytes)
         /\ Len(p.header \o PacketPayload(p)) = HeaderLen + LengthIn(p.header)
<1> DEFINE n == LengthIn(p.header)
           s == p.payload
           h == p.header
<1>1. /\ h \in Seq(Bytes) /\ Len(h) = HeaderLen
      /\ s \in Seq(Bytes) /\ Len(s) = MaxPayload /\ n \in Nat
  BY Parts
<1>2. n \in 0 .. Len(s)
  BY <1>1, Sizes
<1>3. PacketPayload(p) = SubSeq(s, 1, n)
  BY DEF PacketPayload
<1> HIDE DEF n, s, h
<1>4. PacketPayload(p) \in Seq(Bytes) /\ Len(PacketPayload(p)) = n
  BY <1>1, <1>2, <1>3, Prefix
<1>5. h \o PacketPayload(p) \in Seq(Bytes) /\ Len(h \o PacketPayload(p)) = Len(h) + n
  BY <1>1, <1>4, ConcatProperties
<1> QED
  BY <1>1, <1>4, <1>5 DEF n, h

\* The two bytes of the CRC.
LEMMA CrcCollects ==
  ASSUME NEW p, Bounded(p), InFrame(p), NEW byte \in Bytes, p.state = "CRC"
  PROVE  Collects(p, byte, FeedCrc(p, byte).parser, FeedCrc(p, byte).ret)
<1> DEFINE h == p.header
           y == PacketPayload(p)
           n == p.bytes_received
           c == <<byte, ZeroByte>>
           d == [p.crc EXCEPT ![2] = byte]
           a == WithCrc(p, c, "CRC", 1)
           b == WithCrc(p, d, "END", n)
           t == SubSeq(p.crc, 1, n)
           g == Append(CollectedIn(p), byte)
<1>1. /\ p \in Parsers /\ h \in Headers /\ h[1] = StartByte /\ LengthIn(h) <= MaxPayload
      /\ n \in {0, 1} /\ n \in Nat /\ 1 \in Nat
      /\ "CRC" \in ParserStates /\ "END" \in ParserStates
  BY DEF Bounded, InBuffer, InFrame, Parsers, ParserStates
<1>2. /\ p.crc \in Seq(Bytes) /\ Len(p.crc) = 2 /\ h \in Seq(Bytes) /\ LengthIn(h) \in Nat
      /\ y \in Seq(Bytes) /\ Len(y) = LengthIn(h) /\ h \o y \in Seq(Bytes)
  BY <1>1, Parts, Contents
<1>3. c \in [1 .. 2 -> Bytes] /\ d \in [1 .. 2 -> Bytes] /\ p.crc \in [1 .. 2 -> Bytes]
  BY <1>1, Sizes DEF Parsers
<1>4. FeedCrc(p, byte) = IF n = 0 THEN Fed(a, 0) ELSE Fed(b, 0)
  BY <1>1, CrcCases
<1>5. CollectedIn(p) = (h \o y) \o t
  BY DEF CollectedIn
<1>6. n \in 0 .. Len(p.crc)
  BY <1>1, <1>2
<1>7. t \in Seq(Bytes) /\ Len(t) = n
  BY <1>2, <1>6, Prefix
<1>8. c[1] = byte /\ d[1] = p.crc[1] /\ d[2] = byte
  BY <1>3
<1> HIDE DEF c, d
<1>9. a.state = "CRC" /\ a.header = h /\ a.payload = p.payload /\ a.crc = c /\ a.bytes_received = 1
  BY <1>1, <1>3, WithCrcFields
<1>10. b.state = "END" /\ b.header = h /\ b.payload = p.payload /\ b.crc = d
  <2>1. p \in Parsers /\ d \in [1 .. 2 -> Bytes] /\ "END" \in ParserStates /\ n \in Nat
    BY <1>1, <1>3
  <2> HIDE DEF n
  <2> QED
    BY <2>1, WithCrcFields
<1> HIDE DEF a, b
<1>11. PacketPayload(a) = y /\ PacketPayload(b) = y
  BY <1>9, <1>10 DEF PacketPayload
<1>12. CollectedIn(a) = (h \o y) \o SubSeq(c, 1, 1) /\ CollectedIn(b) = (h \o y) \o d
  BY <1>9, <1>10, <1>11 DEF CollectedIn
<1>13. InFrame(a) /\ InFrame(b)
  BY <1>1, <1>9, <1>10 DEF InFrame
<1>14. CompletedIn(a, 0) = <<>> /\ CompletedIn(b, 0) = <<>>
  BY DEF CompletedIn
<1>15. g = (h \o y) \o Append(t, byte)
  <2> DEFINE body == h \o y
  <2>1. body \in Seq(Bytes) /\ t \in Seq(Bytes) /\ CollectedIn(p) = body \o t
    BY <1>2, <1>5, <1>7
  <2> HIDE DEF body, t
  <2>2. Append(body \o t, byte) = body \o Append(t, byte)
    BY <2>1, AppendToConcat
  <2> QED
    BY <2>1, <2>2 DEF body
<1>16. Append(t, byte) \in Seq(Bytes) /\ Len(Append(t, byte)) = n + 1
  BY <1>7, AppendProperties
<1>17. Collector!Growing(g)
  <2> DEFINE u == y \o Append(t, byte)
  <2>1. u \in Seq(Bytes) /\ Len(u) = LengthIn(h) + (n + 1)
    BY <1>2, <1>16, ConcatProperties
  <2>2. g = h \o u
    <3> DEFINE v == Append(t, byte)
    <3>1. h \in Seq(Bytes) /\ y \in Seq(Bytes) /\ v \in Seq(Bytes) /\ g = (h \o y) \o v
      BY <1>2, <1>15, <1>16
    <3> HIDE DEF v, y, h, g
    <3>2. (h \o y) \o v = h \o (y \o v)
      BY <3>1, ConcatAssociative
    <3> QED
      BY <3>1, <3>2 DEF v
  <2> HIDE DEF u
  <2>3. Collector!Growing(h \o u) <=> LengthIn(h) <= MaxPayload /\ Len(u) < LengthIn(h) + 3
    BY <1>1, <2>1, GrowingByHeader
  <2>4. Len(u) < LengthIn(h) + 3
    BY <1>1, <1>2, <2>1
  <2> QED
    BY <1>1, <2>2, <2>3, <2>4
<1> HIDE DEF g, h, y
<1>18. CASE n = 0
  <2>1. t = <<>>
    BY <1>7, <1>18, EmptySeq
  <2>2. Append(t, byte) = SubSeq(c, 1, 1)
    <3>1. c \in Seq(Bytes) /\ Len(c) = 2
      BY <1>3, BufferIsSeq
    <3>2. 1 \in 0 .. Len(c)
      BY <3>1
    <3>3. SubSeq(c, 1, 1) \in Seq(Bytes) /\ Len(SubSeq(c, 1, 1)) = 1
          /\ \A j \in 1 .. 1 : SubSeq(c, 1, 1)[j] = c[j]
      BY <3>1, <3>2, Prefix
    <3>4. SubSeq(c, 1, 1)[1] = byte
      BY <1>8, <3>3
    <3>5. Append(t, byte)[1] = byte /\ Len(Append(t, byte)) = 1
      BY <1>7, <1>18, AppendProperties
    <3> QED
      BY <1>16, <3>3, <3>4, <3>5, SeqEqual
  <2>3. FeedCrc(p, byte) = Fed(a, 0)
    BY <1>4, <1>18
  <2>4. CollectedIn(a) = g
    BY <1>12, <1>15, <2>2
  <2> QED
    BY <1>13, <1>14, <1>17, <2>3, <2>4 DEF Collects, Fed, g
<1>19. CASE n = 1
  <2>1. Append(t, byte) = d
    <3>1. d \in Seq(Bytes) /\ Len(d) = 2
      BY <1>3, BufferIsSeq
    <3>2. t[1] = p.crc[1] /\ Len(t) = 1
      BY <1>2, <1>6, <1>7, <1>19, Prefix
    <3>3. Append(t, byte)[1] = p.crc[1] /\ Append(t, byte)[2] = byte
      <4>1. /\ \A j \in 1 .. Len(t) : Append(t, byte)[j] = t[j]
            /\ Append(t, byte)[Len(t) + 1] = byte
        BY <1>7, AppendProperties
      <4> HIDE DEF t
      <4> QED
        BY <3>2, <4>1
    <3>4. Len(Append(t, byte)) = 2
      BY <1>16, <1>19
    <3> QED
      BY <1>8, <1>16, <3>1, <3>3, <3>4, SeqEqual
  <2>2. FeedCrc(p, byte) = Fed(b, 0)
    BY <1>1, <1>4, <1>19
  <2>3. CollectedIn(b) = g
    BY <1>12, <1>15, <2>1
  <2> QED
    BY <1>13, <1>14, <1>17, <2>2, <2>3 DEF Collects, Fed, g
<1> QED
  BY <1>1, <1>18, <1>19

\* Concatenations of bytes, without the set of elements to guess.
LEMMA Concat ==
  ASSUME NEW a \in Seq(Bytes), NEW b \in Seq(Bytes)
  PROVE  a \o b \in Seq(Bytes) /\ Len(a \o b) = Len(a) + Len(b) /\ Len(a) \in Nat /\ Len(b) \in Nat
BY ConcatProperties, LenProperties

LEMMA Concat3 ==
  ASSUME NEW a \in Seq(Bytes), NEW b \in Seq(Bytes), NEW c \in Seq(Bytes)
  PROVE  (a \o b) \o c = a \o (b \o c)
BY ConcatAssociative

LEMMA OneByte ==
  ASSUME NEW x \in Bytes
  PROVE  <<x>> \in Seq(Bytes) /\ Len(<<x>>) = 1
OBVIOUS

\* Whether header, payload, two bytes and a last byte are a frame.
LEMMA WholeByTail ==
  ASSUME NEW h \in Headers, NEW y \in Seq(Bytes), NEW c \in Seq(Bytes), NEW byte \in Bytes,
         h[1] = StartByte, Len(y) = LengthIn(h), LengthIn(h) <= MaxPayload
  PROVE  Collector!Whole(((h \o y) \o c) \o <<byte>>) <=> byte = EndByte /\ c = Crc(h \o y)
<1> DEFINE body == h \o y
           d == Crc(body)
           tail == c \o <<byte>>
           g == (body \o c) \o <<byte>>
           T == Bytes \cup {CrcLow(body), CrcHigh(body)}
<1>1. h \in Seq(Bytes) /\ Len(h) = HeaderLen /\ Len(h) > 0 /\ LengthIn(h) \in Nat
  BY Sizes, FrameAssumption, BufferIsSeq DEF Headers
<1>2. body \in Seq(Bytes) /\ Len(body) = HeaderLen + LengthIn(h) /\ <<byte>> \in Seq(Bytes)
      /\ Len(<<byte>>) = 1
  BY <1>1, Concat, OneByte
<1>3. tail \in Seq(Bytes) /\ Len(tail) > 0
  BY <1>2, Concat
<1> HIDE DEF tail
<1>4. g = body \o tail /\ y \o tail \in Seq(Bytes)
  BY <1>2, <1>3, Concat, Concat3 DEF tail
<1>5. g = h \o (y \o tail)
  BY <1>1, <1>3, <1>4, Concat3
<1>6. Collector!HeaderOf(g) = h
  <2>1. SubSeq(h \o (y \o tail), 1, Len(h)) = h
    BY <1>1, <1>4, FirstPart
  <2> QED
    BY <1>1, <1>5, <2>1 DEF Collector!HeaderOf
<1>7. Collector!PayloadOf(g) = y
  <2>1. SubSeq((h \o y) \o tail, Len(h) + 1, Len(h) + Len(y)) = y
    BY <1>1, <1>3, SecondPart
  <2> QED
    BY <1>1, <1>4, <1>6, <2>1 DEF Collector!PayloadOf
<1>8. Len(g) > HeaderLen
  <2>1. Len(g) = Len(body) + Len(tail) /\ Len(tail) \in Nat
    BY <1>2, <1>3, <1>4, ConcatProperties, LenProperties
  <2> QED
    BY <1>1, <1>2, <1>3, <2>1, Sizes
<1>9. Collector!CanBuild(h, y)
  BY DEF Collector!CanBuild
<1>10. Collector!Serialize(h, y) = (body \o d) \o <<EndByte>>
  BY DEF Collector!Serialize, Collector!Crc, Crc
<1>11. g = (body \o d) \o <<EndByte>> <=> c = d /\ byte = EndByte
  <2>1. Bytes \subseteq T
    OBVIOUS
  <2>2. CrcLow(body) \in T /\ CrcHigh(body) \in T
    OBVIOUS
  <2> HIDE DEF T
  <2>3. d \in Seq(T)
    BY <2>2 DEF Crc
  <2> HIDE DEF d, body
  <2>4. body \in Seq(T) /\ c \in Seq(T)
    BY <1>2, <2>1, SeqMonotonic
  <2>5. byte \in T /\ EndByte \in T
    BY <2>1, FrameAssumption
  <2> DEFINE u == body \o c
             v == body \o d
  <2>6. u \in Seq(T) /\ v \in Seq(T)
    BY <2>3, <2>4, ConcatProperties
  <2>7. u = v => c = d
    BY <2>3, <2>4, ConcatSimplifications
  <2> HIDE DEF u, v
  <2>8. Append(u, byte) = u \o <<byte>> /\ Append(v, EndByte) = v \o <<EndByte>>
    BY <2>5, <2>6, AppendIsConcat
  <2>9. Append(u, byte) = Append(v, EndByte) <=> u = v /\ byte = EndByte
    BY <2>5, <2>6, AppendInjective
  <2> QED
    BY <2>7, <2>8, <2>9 DEF u, v
<1> HIDE DEF g, d
<1>12. Collector!Whole(g) <=> g = Collector!Serialize(h, y)
  BY <1>6, <1>7, <1>8, <1>9 DEF Collector!Whole
<1> QED
  BY <1>10, <1>11, <1>12 DEF g, d

LEMMA EndCollects ==
  ASSUME NEW p, Bounded(p), InFrame(p), NEW byte \in Bytes, p.state = "END"
  PROVE  Collects(p, byte, FeedEnd(p, byte).parser, FeedEnd(p, byte).ret)
<1> DEFINE h == p.header
           y == PacketPayload(p)
           c == p.crc
           e == InState(p, "ERROR")
           i == InState(p, "IDLE")
           g == Append(CollectedIn(p), byte)
<1>1. /\ p \in Parsers /\ h \in Headers /\ h[1] = StartByte /\ LengthIn(h) <= MaxPayload
      /\ "ERROR" \in ParserStates /\ "IDLE" \in ParserStates
  BY DEF Bounded, InFrame, Parsers, ParserStates
<1>2. /\ c \in Seq(Bytes) /\ Len(c) = 2 /\ h \in Seq(Bytes) /\ LengthIn(h) \in Nat
      /\ y \in Seq(Bytes) /\ Len(y) = LengthIn(h) /\ h \o y \in Seq(Bytes)
  BY <1>1, Parts, Contents
<1>3. CollectedIn(p) = (h \o y) \o c
  BY DEF CollectedIn
<1>4. \/ byte # EndByte /\ FeedEnd(p, byte) = Fed(e, -1)
      \/ byte = EndByte /\ c = Crc(h \o y) /\ FeedEnd(p, byte) = Fed(i, 1)
      \/ byte = EndByte /\ c # Crc(h \o y) /\ FeedEnd(p, byte) = Fed(e, -2)
  BY EndCases
<1>5. e.state = "ERROR" /\ i.state = "IDLE" /\ SameBuffers(i, p)
  <2>1. p \in Parsers /\ "ERROR" \in ParserStates /\ "IDLE" \in ParserStates /\ 0 \in Nat
    BY <1>1
  <2>2. e.state = "ERROR"
    BY <2>1, Assignments
  <2>3. i.state = "IDLE" /\ SameBuffers(i, p)
    BY <2>1, Assignments
  <2> QED
    BY <2>2, <2>3
<1>6. i.header = h /\ i.crc = c /\ PacketPayload(i) = y
  BY <1>5 DEF SameBuffers, PacketPayload
<1> HIDE DEF e, i, h, y, c
<1>7. g = ((h \o y) \o c) \o <<byte>>
  <2> DEFINE b == h \o y
  <2>1. b \in Seq(Bytes) /\ c \in Seq(Bytes)
    BY <1>2
  <2> HIDE DEF b
  <2>2. b \o c \in Seq(Bytes)
    BY <2>1, ConcatProperties
  <2>3. Append(b \o c, byte) = (b \o c) \o <<byte>>
    BY <2>2, AppendIsConcat
  <2> QED
    BY <1>3, <2>3 DEF b
<1>8. ~Collector!Growing(g)
  <2> DEFINE b == c \o <<byte>>
             u == y \o b
  <2>1. b \in Seq(Bytes) /\ Len(b) = 3
    <3> DEFINE z == <<byte>>
    <3>1. z \in Seq(Bytes) /\ Len(z) = 1
      BY OneByte
    <3> HIDE DEF z
    <3>2. c \o z \in Seq(Bytes) /\ Len(c \o z) = Len(c) + Len(z)
      BY <1>2, <3>1, Concat
    <3> QED
      BY <1>2, <3>1, <3>2 DEF z
  <2>2. ((h \o y) \o c) \o <<byte>> = (h \o y) \o b
    BY <1>2, Concat3, OneByte
  <2> HIDE DEF b
  <2>3. u \in Seq(Bytes) /\ Len(u) = LengthIn(h) + 3
    <3>1. y \o b \in Seq(Bytes) /\ Len(y \o b) = Len(y) + Len(b)
      BY <1>2, <2>1, Concat
    <3> QED
      BY <1>2, <2>1, <3>1
  <2>4. (h \o y) \o b = h \o u
    BY <1>2, <2>1, Concat3
  <2> HIDE DEF u
  <2>5. Collector!Growing(h \o u) <=> LengthIn(h) <= MaxPayload /\ Len(u) < LengthIn(h) + 3
    BY <1>1, <2>3, GrowingByHeader
  <2>6. ~(Len(u) < LengthIn(h) + 3)
    BY <1>2, <2>3
  <2>7. g = h \o u
    BY <1>7, <2>2, <2>4
  <2> QED
    BY <2>5, <2>6, <2>7
<1>9. Collector!Whole(g) <=> byte = EndByte /\ c = Crc(h \o y)
  BY <1>1, <1>2, <1>7, WholeByTail
<1>10. CollectedIn(e) = <<>> /\ CollectedIn(i) = <<>> /\ InFrame(e) /\ InFrame(i)
  BY <1>5 DEF CollectedIn, InFrame
<1>11. CompletedIn(e, -1) = <<>> /\ CompletedIn(e, -2) = <<>>
  BY DEF CompletedIn
<1>12. CompletedIn(i, 1) = ((h \o y) \o c) \o <<EndByte>>
  BY <1>6 DEF CompletedIn
<1>13. CASE byte # EndByte /\ FeedEnd(p, byte) = Fed(e, -1)
  BY <1>8, <1>9, <1>10, <1>11, <1>13 DEF Collects, Fed
<1>14. CASE byte = EndByte /\ c = Crc(h \o y) /\ FeedEnd(p, byte) = Fed(i, 1)
  <2>1. CompletedIn(i, 1) = g
    BY <1>7, <1>12, <1>14
  <2> QED
    BY <1>8, <1>9, <1>10, <1>14, <2>1 DEF Collects, Fed
<1>15. CASE byte = EndByte /\ c # Crc(h \o y) /\ FeedEnd(p, byte) = Fed(e, -2)
  BY <1>8, <1>9, <1>10, <1>11, <1>15 DEF Collects, Fed
<1> QED
  BY <1>4, <1>13, <1>14, <1>15

----------------------------------------------------------------------------
(* The theorem *)

ParserInv == ParserBounds /\ InFrame(parser)

LEMMA InitCollector == ReceiverInit => ParserInv /\ Collector!Init
<1> SUFFICES ASSUME ReceiverInit PROVE ParserInv /\ Collector!Init
  OBVIOUS
<1>1. ParserInit /\ parser.state = "IDLE" /\ ret = 0 /\ fed = NoByte
  BY DEF ReceiverInit, ParserInit, FreshParser
<1>2. InFrame(parser) /\ CollectedIn(parser) = <<>> /\ CompletedIn(parser, ret) = <<>>
  BY <1>1 DEF InFrame, CollectedIn, CompletedIn
<1>3. (ret < 0) = FALSE
  BY <1>1
<1> QED
  BY <1>1, <1>2, <1>3, InitBounds DEF ParserInv, Collector!Init

\* A byte is skipped or collected.
LEMMA FeedCollects ==
  ASSUME NEW p, Bounded(p), InFrame(p), NEW byte \in Bytes,
         NEW q, q = Feed(p, byte).parser, NEW r, r = Feed(p, byte).ret
  PROVE  /\ InFrame(q)
         /\ \/ /\ CollectedIn(p) = <<>> /\ byte # StartByte
               /\ CollectedIn(q) = <<>> /\ CompletedIn(q, r) = <<>> /\ ~(r < 0)
            \/ /\ CollectedIn(p) # <<>> \/ byte = StartByte
               /\ Collects(p, byte, q, r)
<1>1. p \in Parsers /\ p.state \in ParserStates /\ p.bytes_received \in Nat
  BY DEF Bounded, Parsers
<1>2. CASE p.state \in {"IDLE", "ERROR"} /\ byte = StartByte
  <2>1. Bounded(Reset(p)) /\ Reset(p).state = "IDLE"
    BY <1>1, ResetBounds
  <2>2. CASE p.state = "IDLE"
    <3>1. q = FeedIdle(p, StartByte).parser /\ r = FeedIdle(p, StartByte).ret
      BY <1>2, <2>2 DEF Feed
    <3> QED
      BY <1>2, <3>1, StartCollects DEF Collects
  <2>3. CASE p.state = "ERROR"
    <3>1. q = FeedIdle(Reset(p), StartByte).parser /\ r = FeedIdle(Reset(p), StartByte).ret
      BY <1>2, <2>3 DEF Feed, FeedError
    <3>2. Collects(Reset(p), StartByte, q, r)
      BY <2>1, <3>1, StartCollects
    <3>3. CollectedIn(Reset(p)) = CollectedIn(p)
      BY <2>1, <2>3 DEF CollectedIn
    <3> QED
      BY <1>2, <3>2, <3>3 DEF Collects
  <2> QED
    BY <1>2, <2>2, <2>3
<1>3. CASE p.state \in {"IDLE", "ERROR"} /\ byte # StartByte
  <2>1. q = p /\ r = 0
    BY <1>3 DEF Feed, FeedIdle, FeedError, Fed
  <2>2. CollectedIn(p) = <<>> /\ CompletedIn(q, r) = <<>>
    BY <1>3, <2>1 DEF CollectedIn, CompletedIn
  <2> QED
    BY <1>3, <2>1, <2>2
<1>4. ASSUME p.state \in {"HEADER", "PAYLOAD", "CRC", "END"}
      PROVE  CollectedIn(p) # <<>> /\ Collects(p, byte, q, r)
  <2>1. Collects(p, byte, q, r)
    BY <1>4, HeaderCollects, PayloadCollects, CrcCollects, EndCollects DEF Feed
  <2>2. p.header \in Seq(Bytes) /\ Len(p.header) = HeaderLen /\ HeaderLen > 1
    BY <1>1, Parts, Sizes
  <2>3. CASE p.state = "HEADER"
    <3>1. p.bytes_received \in 0 .. Len(p.header) /\ p.bytes_received >= 1
      BY <1>1, <2>2, <2>3, Sizes DEF Bounded, InBuffer
    <3>2. Len(SubSeq(p.header, 1, p.bytes_received)) = p.bytes_received
      BY <2>2, <3>1, Prefix
    <3>3. SubSeq(p.header, 1, p.bytes_received) # <<>>
      BY <3>1, <3>2, EmptySeq
    <3> QED
      BY <2>1, <2>3, <3>3 DEF CollectedIn
  <2>4. ASSUME NEW t \in Seq(Bytes) PROVE p.header \o t # <<>>
    <3>1. Len(p.header \o t) > 0
      BY <2>2, ConcatProperties, LenProperties, Sizes
    <3> QED
      BY <3>1, EmptySeq
  <2>5. CASE p.state = "PAYLOAD"
    <3>1. p.bytes_received \in 0 .. Len(p.payload) /\ p.payload \in Seq(Bytes)
      BY <1>1, <2>5, Parts, Sizes DEF Bounded, InBuffer, Parsers
    <3>2. SubSeq(p.payload, 1, p.bytes_received) \in Seq(Bytes)
      BY <3>1, Prefix
    <3> QED
      BY <2>1, <2>4, <2>5, <3>2 DEF CollectedIn
  <2>6. CASE p.state \in {"CRC", "END"}
    <3>1. LengthIn(p.header) <= MaxPayload
      BY <2>6 DEF InFrame
    <3>2. PacketPayload(p) \in Seq(Bytes) /\ p.crc \in Seq(Bytes) /\ Len(p.crc) = 2
      BY <1>1, <3>1, Contents, Parts
    <3>3. CASE p.state = "CRC"
      <4> DEFINE t == SubSeq(p.crc, 1, p.bytes_received)
      <4>1. p.bytes_received \in 0 .. Len(p.crc)
        BY <3>2, <3>3 DEF Bounded, InBuffer
      <4>2. t \in Seq(Bytes)
        BY <3>2, <4>1, Prefix
      <4>3. CollectedIn(p) = (p.header \o PacketPayload(p)) \o t
        BY <3>3 DEF CollectedIn
      <4> HIDE DEF t
      <4>4. PacketPayload(p) \o t \in Seq(Bytes)
        BY <3>2, <4>2, ConcatProperties
      <4>5. CollectedIn(p) = p.header \o (PacketPayload(p) \o t)
        BY <2>2, <3>2, <4>2, <4>3, Concat3
      <4> QED
        BY <2>1, <2>4, <4>4, <4>5
    <3>4. CASE p.state = "END"
      <4>1. CollectedIn(p) = (p.header \o PacketPayload(p)) \o p.crc
        BY <3>4 DEF CollectedIn
      <4>2. PacketPayload(p) \o p.crc \in Seq(Bytes)
        BY <3>2, ConcatProperties
      <4>3. CollectedIn(p) = p.header \o (PacketPayload(p) \o p.crc)
        BY <2>2, <3>2, <4>1, Concat3
      <4> QED
        BY <2>1, <2>4, <4>2, <4>3
    <3> QED
      BY <2>6, <3>3, <3>4
  <2> QED
    BY <1>4, <2>3, <2>5, <2>6
<1>5. CASE p.state \in {"HEADER", "PAYLOAD", "CRC", "END"}
  BY <1>4, <1>5 DEF Collects
<1> QED
  BY <1>1, <1>2, <1>3, <1>5 DEF ParserStates

LEMMA StepCollector ==
  ParserInv /\ [ReceiverNext]_receiverVars => ParserInv' /\ [Collector!Next]_(Collector!collector)
<1> SUFFICES ASSUME ParserInv, [ReceiverNext]_receiverVars
             PROVE  ParserInv' /\ [Collector!Next]_(Collector!collector)
  OBVIOUS
<1>1. ParserBounds'
  BY StepBounds DEF ParserInv
<1>2. Bounded(parser) /\ InFrame(parser) /\ parser \in Parsers
  BY DEF ParserInv, ParserBounds, ParserTypeOK, IndexInBuffer, Bounded
<1>3. ASSUME NEW byte \in Bytes, FeedByte(byte)
      PROVE  InFrame(parser') /\ (Collector!Skip(byte) \/ Collector!Collect(byte))
  <2>1. parser' = Feed(parser, byte).parser /\ ret' = Feed(parser, byte).ret /\ fed' = byte
    BY <1>3 DEF FeedByte
  <2>2. /\ InFrame(parser')
        /\ \/ /\ CollectedIn(parser) = <<>> /\ byte # StartByte
              /\ CollectedIn(parser') = <<>> /\ CompletedIn(parser', ret') = <<>>
              /\ ~(ret' < 0)
           \/ /\ CollectedIn(parser) # <<>> \/ byte = StartByte
              /\ Collects(parser, byte, parser', ret')
    BY <1>2, <2>1, FeedCollects
  <2> QED
    BY <2>1, <2>2 DEF Collects, Collector!Skip, Collector!Collect
<1>4. ASSUME ResetParser PROVE InFrame(parser') /\ Collector!Abandon
  <2>1. parser'.state = "IDLE" /\ ret' = 0 /\ fed' = NoByte
    BY <1>2, <1>4, ResetBounds DEF ResetParser
  <2> QED
    BY <2>1 DEF InFrame, CollectedIn, CompletedIn, Collector!Abandon
<1>5. CASE UNCHANGED receiverVars
  BY <1>1, <1>2, <1>5 DEF receiverVars, ParserInv, Collector!collector
<1>6. CASE ReceiverNext
  BY <1>1, <1>3, <1>4, <1>6 DEF ReceiverNext, ParserInv, Collector!Next
<1> QED
  BY <1>5, <1>6

\* The parser implements the collector of frames: for every frame format, CRC
\* and stream of bytes, each frame that begins while no other is under way and
\* comes unbroken is returned at its last byte, byte for byte; an error is
\* returned exactly with the byte that shows the frame under way to be none;
\* nothing else is returned (protocol_parser_feed).
THEOREM ParserImplements == ReceiverSpec => ImplementsCollector
BY InitCollector, StepCollector, PTL DEF ReceiverSpec, ImplementsCollector, Collector!Spec
=============================================================================
