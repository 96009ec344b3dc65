-------------------------- MODULE UartBridgeProofs --------------------------
(***************************************************************************)
(* Theorems about the gateway's end of the serial line, for any packets,   *)
(* frame format, CRC and length of the blocks.                             *)
(***************************************************************************)
EXTENDS UartBridge, FrameParserProofs

Frame(pkt) == Serialize(pkt.header, pkt.payload)

\* What the parser has of a frame, and what is yet to be fed to it.
Taken == CollectedIn(parser)
Waiting == block \o line

\* c is how s begins.
Begins(c, s) == Len(c) <= Len(s) /\ \A j \in 1 .. Len(c) : c[j] = s[j]

\* The bytes w, behind those taken, are the rest of s.
Rest(c, w, s) ==
  /\ Begins(c, s)
  /\ Len(c) + Len(w) = Len(s)
  /\ \A j \in 1 .. Len(w) : w[j] = s[Len(c) + j]

----------------------------------------------------------------------------
(* Frames *)

LEMMA FrameParts ==
  ASSUME NEW pkt \in Packets
  PROVE  LET h == pkt.header
             y == pkt.payload
             c == Crc(h \o y)
         IN /\ pkt = [header |-> h, payload |-> y]
            /\ h \in Headers /\ h \in Seq(Bytes) /\ Len(h) = HeaderLen /\ h[1] = StartByte
            /\ y \in Seq(Bytes) /\ Len(y) = LengthIn(h)
            /\ LengthIn(h) \in Nat /\ LengthIn(h) <= MaxPayload
            /\ c \in Seq(Bytes) /\ Len(c) = 2
            /\ Frame(pkt) = ((h \o y) \o c) \o <<EndByte>>
<1> DEFINE h == pkt.header
           y == pkt.payload
           c == Crc(h \o y)
<1>1. /\ pkt \in [header : Headers, payload : Seq(Bytes)]
      /\ CanBuild(h, y) /\ c \in Seq(Bytes)
  BY BridgeAssumption
<1>2. h \in Headers /\ y \in Seq(Bytes) /\ pkt = [header |-> h, payload |-> y]
  BY <1>1
<1>3. h \in Seq(Bytes) /\ Len(h) = HeaderLen
  BY <1>2, Sizes, BufferIsSeq DEF Headers
<1>4. h[1] = StartByte /\ Len(y) = LengthIn(h) /\ LengthIn(h) <= MaxPayload
  BY <1>1 DEF CanBuild
<1>5. LengthIn(h) \in Nat
  BY <1>2, FrameAssumption
<1>6. Len(c) = 2
  BY DEF Crc
<1>7. Frame(pkt) = ((h \o y) \o c) \o <<EndByte>>
  BY DEF Frame, Serialize
<1> QED
  BY <1>1, <1>2, <1>3, <1>4, <1>5, <1>6, <1>7

\* The elements of a concatenation.
LEMMA ConcatElements ==
  ASSUME NEW a \in Seq(Bytes), NEW b \in Seq(Bytes)
  PROVE  /\ a \o b \in Seq(Bytes) /\ Len(a \o b) = Len(a) + Len(b)
         /\ Len(a) \in Nat /\ Len(b) \in Nat
         /\ \A j \in 1 .. Len(a) : (a \o b)[j] = a[j]
         /\ \A j \in 1 .. Len(b) : (a \o b)[Len(a) + j] = b[j]
<1> DEFINE u == a \o b
<1>1. /\ u \in Seq(Bytes) /\ Len(u) = Len(a) + Len(b)
      /\ Len(a) \in Nat /\ Len(b) \in Nat
      /\ \A i \in 1 .. Len(a) + Len(b) : u[i] = IF i <= Len(a) THEN a[i] ELSE b[i - Len(a)]
  BY ConcatProperties, LenProperties
<1> HIDE DEF u
<1>2. \A j \in 1 .. Len(a) : u[j] = a[j]
  BY <1>1
<1>3. ASSUME NEW j \in 1 .. Len(b) PROVE u[Len(a) + j] = b[j]
  <2> DEFINE i == Len(a) + j
  <2>1. i \in 1 .. Len(a) + Len(b) /\ ~(i <= Len(a)) /\ i - Len(a) = j
    BY <1>1
  <2> HIDE DEF i
  <2>2. u[i] = b[j]
    BY <1>1, <2>1
  <2> QED
    BY <2>2 DEF i
<1> QED
  BY <1>1, <1>2, <1>3 DEF u

\* A frame as its header and the bytes that follow it.
LEMMA FrameShape ==
  ASSUME NEW pkt \in Packets
  PROVE  /\ Frame(pkt) \in Seq(Bytes)
         /\ Len(Frame(pkt)) = FrameLen(pkt.header)
         /\ Len(Frame(pkt)) > HeaderLen
         /\ \A j \in 1 .. HeaderLen : Frame(pkt)[j] = pkt.header[j]
<1> DEFINE h == pkt.header
           y == pkt.payload
           c == Crc(h \o y)
           z == <<EndByte>>
           body == h \o y
           upto == body \o c
<1>1. /\ h \in Seq(Bytes) /\ Len(h) = HeaderLen
      /\ y \in Seq(Bytes) /\ Len(y) = LengthIn(h)
      /\ c \in Seq(Bytes) /\ Len(c) = 2
      /\ Frame(pkt) = upto \o z
      /\ LengthIn(h) \in Nat
  BY FrameParts
<1>2. z \in Seq(Bytes) /\ Len(z) = 1
  BY OneByte, FrameAssumption
<1> HIDE DEF z, c, y, h
<1>3. /\ body \in Seq(Bytes) /\ Len(body) = HeaderLen + LengthIn(h)
      /\ \A j \in 1 .. HeaderLen : body[j] = h[j]
  <2>1. /\ h \o y \in Seq(Bytes) /\ Len(h \o y) = Len(h) + Len(y)
        /\ \A j \in 1 .. Len(h) : (h \o y)[j] = h[j]
    BY <1>1, ConcatElements
  <2> QED
    BY <1>1, <2>1
<1> HIDE DEF body
<1>4. /\ upto \in Seq(Bytes) /\ Len(upto) = HeaderLen + LengthIn(h) + 2
      /\ \A j \in 1 .. HeaderLen : upto[j] = h[j]
  <2>1. /\ body \o c \in Seq(Bytes) /\ Len(body \o c) = Len(body) + Len(c)
        /\ \A j \in 1 .. Len(body) : (body \o c)[j] = body[j]
    BY <1>1, <1>3, ConcatElements
  <2>2. \A j \in 1 .. HeaderLen : j \in 1 .. Len(body)
    BY <1>1, <1>3, Sizes
  <2> QED
    BY <1>1, <1>3, <2>1, <2>2, Sizes
<1> HIDE DEF upto
<1>5. /\ Frame(pkt) \in Seq(Bytes) /\ Len(Frame(pkt)) = HeaderLen + LengthIn(h) + 3
      /\ \A j \in 1 .. HeaderLen : Frame(pkt)[j] = h[j]
  <2>1. /\ upto \o z \in Seq(Bytes) /\ Len(upto \o z) = Len(upto) + Len(z)
        /\ \A j \in 1 .. Len(upto) : (upto \o z)[j] = upto[j]
    BY <1>2, <1>4, ConcatElements
  <2>2. \A j \in 1 .. HeaderLen : j \in 1 .. Len(upto)
    BY <1>1, <1>4, Sizes
  <2> QED
    BY <1>1, <1>2, <1>4, <2>1, <2>2, Sizes
<1>6. FrameLen(h) = HeaderLen + LengthIn(h) + 3
  BY DEF FrameLen
<1> QED
  BY <1>1, <1>5, <1>6, Sizes DEF h

LEMMA FrameIsWhole ==
  ASSUME NEW pkt \in Packets
  PROVE  Collector!Whole(Frame(pkt))
<1> DEFINE h == pkt.header
           y == pkt.payload
           c == Crc(h \o y)
<1>1. /\ h \in Headers /\ h[1] = StartByte
      /\ y \in Seq(Bytes) /\ Len(y) = LengthIn(h) /\ LengthIn(h) <= MaxPayload
      /\ c \in Seq(Bytes)
      /\ Frame(pkt) = ((h \o y) \o c) \o <<EndByte>>
  BY FrameParts
<1>2. EndByte \in Bytes
  BY FrameAssumption
<1> HIDE DEF h, y
<1> QED
  BY <1>1, <1>2, WholeByTail

\* The first bytes of a frame grow as long as some are missing.
LEMMA PartGrows ==
  ASSUME NEW pkt \in Packets, NEW g \in Seq(Bytes), Begins(g, Frame(pkt))
  PROVE  Collector!Growing(g) <=> Len(g) < Len(Frame(pkt))
<1> DEFINE h == pkt.header
           F == Frame(pkt)
<1>1. /\ F \in Seq(Bytes) /\ Len(F) = FrameLen(h) /\ Len(F) > HeaderLen
      /\ \A j \in 1 .. HeaderLen : F[j] = h[j]
      /\ Len(g) <= Len(F) /\ \A j \in 1 .. Len(g) : g[j] = F[j]
      /\ Len(g) \in Nat /\ Len(F) \in Nat
  BY FrameShape, LenProperties DEF Begins
<1>2. h \in Seq(Bytes) /\ Len(h) = HeaderLen /\ LengthIn(h) <= MaxPayload
  BY FrameParts
<1> HIDE DEF F, h
<1>3. CASE Len(g) < HeaderLen
  BY <1>1, <1>3, Sizes, GrowingBeforeHeader DEF F
<1>4. CASE Len(g) >= HeaderLen
  <2> DEFINE head == SubSeq(g, 1, HeaderLen)
  <2>1. HeaderLen \in 0 .. Len(g)
    BY <1>1, <1>4, Sizes
  <2>2. head \in Seq(Bytes) /\ Len(head) = HeaderLen /\ \A j \in 1 .. HeaderLen : head[j] = g[j]
    BY <2>1, Prefix
  <2> HIDE DEF head
  <2>3. \A j \in 1 .. HeaderLen : head[j] = h[j]
    <3> TAKE j \in 1 .. HeaderLen
    <3>1. j \in 1 .. Len(g)
      BY <1>1, <1>4, Sizes
    <3> QED
      BY <1>1, <2>2, <3>1
  <2>4. head = h
    BY <1>2, <2>2, <2>3, SeqEqual
  <2>5. Collector!HeaderOf(g) = h /\ Collector!FrameLen(h) = FrameLen(h)
    BY <2>4 DEF Collector!HeaderOf, Collector!FrameLen, FrameLen, head
  <2> QED
    BY <1>1, <1>2, <1>4, <2>5, Sizes DEF Collector!Growing, F
<1> QED
  BY <1>1, <1>3, <1>4, Sizes

\* What a call of the parser returns, and the state it leaves.
LEMMA FeedReturns ==
  ASSUME NEW p, Bounded(p), NEW byte \in Bytes
  PROVE  /\ Feed(p, byte).ret < 0 => Feed(p, byte).parser.state = "ERROR"
         /\ Feed(p, byte).ret = 1 =>
              /\ p.state = "END" /\ byte = EndByte
              /\ Feed(p, byte).parser = InState(p, "IDLE")
              /\ Feed(p, byte).parser.state = "IDLE"
<1>1. p \in Parsers /\ p.state \in ParserStates
  BY DEF Bounded, Parsers
<1>2. /\ "ERROR" \in ParserStates /\ "IDLE" \in ParserStates /\ 0 \in Nat
  BY DEF ParserStates
<1>3. CASE p.state \in {"IDLE", "PAYLOAD", "CRC", "ERROR"}
  <2>1. Feed(p, byte).ret = 0
    BY <1>3, IdleBounds, PayloadBounds, CrcBounds, ErrorBounds DEF Feed
  <2> QED
    BY <2>1
<1>4. CASE p.state = "HEADER"
  <2> DEFINE q == NextOfHeader(p, byte)
  <2>1. q \in Parsers
    BY <1>4, HeaderGrows
  <2>2. InState(q, "ERROR").state = "ERROR"
    BY <1>2, <2>1, Assignments
  <2>3. Feed(p, byte) = FeedHeader(p, byte)
    BY <1>4 DEF Feed
  <2>4. \/ Feed(p, byte).ret = 0
        \/ Feed(p, byte) = Fed(InState(q, "ERROR"), -1)
    <3>1. \/ \E x : FeedHeader(p, byte) = Fed(x, 0)
          \/ FeedHeader(p, byte) = Fed(InState(q, "ERROR"), -1)
      BY <1>4, HeaderCases
    <3> QED
      BY <2>3, <3>1 DEF Fed
  <2> HIDE DEF q
  <2> QED
    BY <2>2, <2>4 DEF Fed
<1>5. CASE p.state = "END"
  <2>1. InState(p, "ERROR").state = "ERROR" /\ InState(p, "IDLE").state = "IDLE"
    BY <1>1, <1>2, Assignments
  <2>2. Feed(p, byte) = FeedEnd(p, byte)
    BY <1>5 DEF Feed
  <2> QED
    BY <1>5, <2>1, <2>2, EndCases DEF Fed
<1> QED
  BY <1>1, <1>3, <1>4, <1>5 DEF ParserStates

\* The parts of a frame are found in it again.
LEMMA PartsOfFrame ==
  ASSUME NEW h \in Seq(Bytes), NEW y \in Seq(Bytes), NEW c \in Seq(Bytes),
         Len(h) = HeaderLen, Len(y) = LengthIn(h)
  PROVE  LET F == ((h \o y) \o c) \o <<EndByte>>
         IN /\ h = SubSeq(F, 1, HeaderLen)
            /\ y = SubSeq(F, HeaderLen + 1, HeaderLen + LengthIn(SubSeq(F, 1, HeaderLen)))
<1> DEFINE z == <<EndByte>>
           tail == c \o z
           rest == y \o tail
           F == ((h \o y) \o c) \o z
<1>1. z \in Seq(Bytes)
  BY OneByte, FrameAssumption
<1> HIDE DEF z
<1>2. tail \in Seq(Bytes)
  BY <1>1, Concat
<1>3. h \o y \in Seq(Bytes)
  BY Concat
<1>4. F = (h \o y) \o tail
  BY <1>1, <1>3, Concat3
<1> HIDE DEF tail, F
<1>5. rest \in Seq(Bytes) /\ F = h \o rest
  <2>1. y \o tail \in Seq(Bytes)
    BY <1>2, Concat
  <2>2. (h \o y) \o tail = h \o (y \o tail)
    BY <1>2, Concat3
  <2> QED
    BY <1>4, <2>1, <2>2
<1> HIDE DEF rest
<1>6. Len(h) > 0
  BY Sizes
<1>7. SubSeq(F, 1, Len(h)) = h
  BY <1>5, <1>6, FirstPart
<1>8. SubSeq(F, Len(h) + 1, Len(h) + Len(y)) = y
  BY <1>2, <1>4, SecondPart
<1> QED
  BY <1>7, <1>8 DEF F, z

LEMMA FrameReads ==
  ASSUME NEW pkt \in Packets, NEW p \in Parsers, LengthIn(p.header) <= MaxPayload,
         ((p.header \o PacketPayload(p)) \o p.crc) \o <<EndByte>> = Frame(pkt)
  PROVE  p.header = pkt.header /\ PacketPayload(p) = pkt.payload
<1> DEFINE h == pkt.header
           y == pkt.payload
           c == Crc(h \o y)
           k == p.header
           x == PacketPayload(p)
           d == p.crc
           F == Frame(pkt)
<1>1. /\ h \in Seq(Bytes) /\ Len(h) = HeaderLen
      /\ y \in Seq(Bytes) /\ Len(y) = LengthIn(h) /\ c \in Seq(Bytes)
      /\ F = ((h \o y) \o c) \o <<EndByte>>
  BY FrameParts
<1>2. /\ k \in Seq(Bytes) /\ Len(k) = HeaderLen
      /\ x \in Seq(Bytes) /\ Len(x) = LengthIn(k) /\ d \in Seq(Bytes)
      /\ F = ((k \o x) \o d) \o <<EndByte>>
  BY Parts, Contents
<1> HIDE DEF h, y, c, k, x, d, F
<1>3. h = SubSeq(F, 1, HeaderLen)
      /\ y = SubSeq(F, HeaderLen + 1, HeaderLen + LengthIn(SubSeq(F, 1, HeaderLen)))
  <2> DEFINE G == ((h \o y) \o c) \o <<EndByte>>
  <2>1. /\ h = SubSeq(G, 1, HeaderLen)
        /\ y = SubSeq(G, HeaderLen + 1, HeaderLen + LengthIn(SubSeq(G, 1, HeaderLen)))
    BY <1>1, PartsOfFrame
  <2>2. F = G
    BY <1>1
  <2> HIDE DEF G
  <2> QED
    BY <2>1, <2>2
<1>4. k = SubSeq(F, 1, HeaderLen)
      /\ x = SubSeq(F, HeaderLen + 1, HeaderLen + LengthIn(SubSeq(F, 1, HeaderLen)))
  <2> DEFINE G == ((k \o x) \o d) \o <<EndByte>>
  <2>1. /\ k = SubSeq(G, 1, HeaderLen)
        /\ x = SubSeq(G, HeaderLen + 1, HeaderLen + LengthIn(SubSeq(G, 1, HeaderLen)))
    BY <1>2, PartsOfFrame
  <2>2. F = G
    BY <1>2
  <2> HIDE DEF G
  <2> QED
    BY <2>1, <2>2
<1>5. k = h /\ x = y
  BY <1>3, <1>4
<1> QED
  BY <1>5 DEF h, y, k, x

\* What the parser has taken are bytes.
LEMMA TakenTyped ==
  ASSUME NEW p, Bounded(p), InFrame(p)
  PROVE  CollectedIn(p) \in Seq(Bytes)
<1>1. /\ p \in Parsers /\ p.state \in ParserStates
      /\ p.header \in Seq(Bytes) /\ Len(p.header) = HeaderLen
      /\ p.payload \in Seq(Bytes) /\ Len(p.payload) = MaxPayload
      /\ p.crc \in Seq(Bytes) /\ Len(p.crc) = 2
      /\ p.bytes_received \in Nat
  BY Parts DEF Bounded, Parsers
<1>2. CASE p.state \in {"IDLE", "ERROR"}
  BY <1>2, EmptySeq DEF CollectedIn
<1>3. CASE p.state = "HEADER"
  <2>1. p.bytes_received \in 0 .. Len(p.header)
    BY <1>1, <1>3, Sizes DEF Bounded, InBuffer
  <2>2. SubSeq(p.header, 1, p.bytes_received) \in Seq(Bytes)
    BY <1>1, <2>1, Prefix
  <2> QED
    BY <1>3, <2>2 DEF CollectedIn
<1>4. CASE p.state = "PAYLOAD"
  <2>1. p.bytes_received \in 0 .. Len(p.payload)
    BY <1>1, <1>4, Sizes DEF Bounded, InBuffer, Parsers
  <2>2. SubSeq(p.payload, 1, p.bytes_received) \in Seq(Bytes)
    BY <1>1, <2>1, Prefix
  <2>3. p.header \o SubSeq(p.payload, 1, p.bytes_received) \in Seq(Bytes)
    BY <1>1, <2>2, Concat
  <2> QED
    BY <1>4, <2>3 DEF CollectedIn
<1>5. CASE p.state = "CRC"
  <2>1. p.bytes_received \in 0 .. Len(p.crc)
    BY <1>1, <1>5 DEF Bounded, InBuffer
  <2>2. SubSeq(p.crc, 1, p.bytes_received) \in Seq(Bytes)
    BY <1>1, <2>1, Prefix
  <2>3. p.header \o PacketPayload(p) \in Seq(Bytes)
    BY <1>1, <1>5, Contents DEF InFrame
  <2>4. (p.header \o PacketPayload(p)) \o SubSeq(p.crc, 1, p.bytes_received) \in Seq(Bytes)
    BY <2>2, <2>3, Concat
  <2> QED
    BY <1>5, <2>4 DEF CollectedIn
<1>6. CASE p.state = "END"
  <2>1. p.header \o PacketPayload(p) \in Seq(Bytes)
    BY <1>1, <1>6, Contents DEF InFrame
  <2>2. (p.header \o PacketPayload(p)) \o p.crc \in Seq(Bytes)
    BY <1>1, <2>1, Concat
  <2> QED
    BY <1>6, <2>2 DEF CollectedIn
<1> QED
  BY <1>1, <1>2, <1>3, <1>4, <1>5, <1>6 DEF ParserStates

\* A parser that has the first bytes of a frame and is fed the next one takes
\* it, and after the last one has the packet.
LEMMA FeedOfFrame ==
  ASSUME NEW p, Bounded(p), InFrame(p), NEW pkt \in Packets, NEW byte \in Bytes,
         Begins(CollectedIn(p), Frame(pkt)), Len(CollectedIn(p)) < Len(Frame(pkt)),
         byte = Frame(pkt)[Len(CollectedIn(p)) + 1],
         NEW q, q = Feed(p, byte).parser, NEW r, r = Feed(p, byte).ret
  PROVE  LET c == CollectedIn(p)
             F == Frame(pkt)
         IN /\ Append(c, byte) \in Seq(Bytes) /\ Begins(Append(c, byte), F)
            /\ Len(Append(c, byte)) = Len(c) + 1
            /\ \/ /\ Len(c) + 1 < Len(F) /\ r = 0
                  /\ CollectedIn(q) = Append(c, byte)
               \/ /\ Len(c) + 1 = Len(F) /\ r = 1
                  /\ q.state = "IDLE" /\ Packet(q) = pkt
<1> DEFINE c == CollectedIn(p)
           F == Frame(pkt)
           g == Append(c, byte)
<1>1. c \in Seq(Bytes) /\ Len(c) \in Nat
  BY TakenTyped, LenProperties
<1>2. F \in Seq(Bytes) /\ Len(F) \in Nat /\ F[1] = StartByte
  <2>1. F \in Seq(Bytes) /\ \A j \in 1 .. HeaderLen : F[j] = pkt.header[j]
    BY FrameShape
  <2>2. pkt.header[1] = StartByte
    BY FrameParts
  <2>3. 1 \in 1 .. HeaderLen
    BY Sizes
  <2> HIDE DEF F
  <2> QED
    BY <2>1, <2>2, <2>3, LenProperties
<1>3. p \in Parsers
  BY DEF Bounded
<1>4. /\ c = <<>> => byte = StartByte
  BY <1>1, <1>2
<1>5. Collects(p, byte, q, r) /\ InFrame(q)
  BY <1>4, FeedCollects
<1>6. Feed(p, byte).ret \in Returns
  BY FeedBounds
<1>7. /\ r < 0 => q.state = "ERROR"
      /\ r = 1 => p.state = "END" /\ byte = EndByte /\ q = InState(p, "IDLE") /\ q.state = "IDLE"
  BY FeedReturns
<1>8. /\ CollectedIn(q) = IF Collector!Growing(g) THEN g ELSE <<>>
      /\ CompletedIn(q, r) = IF ~Collector!Growing(g) /\ Collector!Whole(g) THEN g ELSE <<>>
  BY <1>5 DEF Collects
<1>9. Len(c) < Len(F) /\ \A j \in 1 .. Len(c) : c[j] = F[j]
  BY DEF Begins
<1>10. q.state \in {"IDLE", "ERROR"} => CollectedIn(q) = <<>>
  BY DEF CollectedIn
<1>11. c = CollectedIn(p) /\ F = Frame(pkt) /\ byte = F[Len(c) + 1]
  OBVIOUS
<1> HIDE DEF c, F
<1>12. /\ g \in Seq(Bytes) /\ g # <<>> /\ Len(g) = Len(c) + 1
       /\ \A j \in 1 .. Len(c) : g[j] = c[j]
       /\ g[Len(c) + 1] = byte
  BY <1>1, AppendProperties
<1> HIDE DEF g
<1>13. \A j \in 1 .. Len(g) : g[j] = F[j]
  BY <1>1, <1>9, <1>11, <1>12
<1>14. Begins(g, F)
  BY <1>1, <1>2, <1>9, <1>12, <1>13 DEF Begins
<1>15. Collector!Growing(g) <=> Len(g) < Len(F)
  BY <1>12, <1>14, PartGrows DEF F
<1>16. CASE Len(c) + 1 < Len(F)
  <2>1. CollectedIn(q) = g
    BY <1>8, <1>12, <1>15, <1>16
  <2>2. q.state \notin {"IDLE", "ERROR"}
    BY <1>10, <1>12, <2>1
  <2>3. r = 0
    BY <1>6, <1>7, <2>2 DEF Returns
  <2> QED
    BY <1>12, <1>14, <1>16, <2>1, <2>3 DEF c, F, g
<1>17. CASE Len(c) + 1 = Len(F)
  <2>1. g = F
    BY <1>2, <1>12, <1>13, <1>17, SeqEqual
  <2>2. Collector!Whole(g) /\ ~Collector!Growing(g)
    BY <1>2, <1>15, <2>1, FrameIsWhole DEF F
  <2>3. r = 1
    BY <1>8, <1>12, <2>2 DEF CompletedIn
  <2>4. /\ p.state = "END" /\ byte = EndByte
        /\ q.header = p.header /\ q.payload = p.payload /\ q.state = "IDLE"
    <3>1. "IDLE" \in ParserStates /\ 0 \in Nat
      BY DEF ParserStates
    <3>2. SameBuffers(InState(p, "IDLE"), p)
      BY <1>3, <3>1, Assignments
    <3> QED
      BY <1>7, <2>3, <3>2 DEF SameBuffers
  <2>5. LengthIn(p.header) <= MaxPayload
    BY <2>4 DEF InFrame
  <2>6. ((p.header \o PacketPayload(p)) \o p.crc) \o <<EndByte>> = Frame(pkt)
    <3>1. c = (p.header \o PacketPayload(p)) \o p.crc
      BY <1>11, <2>4 DEF CollectedIn
    <3>2. g = c \o <<byte>>
      BY <1>1, AppendIsConcat DEF g
    <3> QED
      BY <1>11, <2>1, <2>4, <3>1, <3>2
  <2>7. p.header = pkt.header /\ PacketPayload(p) = pkt.payload
    BY <1>3, <2>5, <2>6, FrameReads
  <2>8. Packet(q) = [header |-> pkt.header, payload |-> pkt.payload]
    BY <2>4, <2>7 DEF Packet, PacketPayload
  <2>9. Packet(q) = pkt
    BY <2>8, FrameParts
  <2> QED
    BY <1>12, <1>14, <1>17, <2>3, <2>4, <2>9 DEF c, F, g
<1> QED
  BY <1>1, <1>2, <1>9, <1>16, <1>17

----------------------------------------------------------------------------
(* The invariants *)

BridgeTyped ==
  /\ Bounded(parser) /\ InFrame(parser)
  /\ line \in Seq(Bytes) /\ block \in Seq(Bytes)
  /\ sent \in Seq(Packets) /\ received \in Seq([header : Headers, payload : Seq(Bytes)])
  /\ calling \in BOOLEAN
  /\ ~calling => block = <<>> /\ parser.state = "IDLE"

\* As long as nothing was disturbed, at most the last packet is under way, and
\* its bytes are in the parser, the block and the line, in this order.
OneUnderWay ==
  ~disturbed =>
    \/ Quiet /\ received = sent
    \/ \E pkt \in Packets : /\ sent = Append(received, pkt)
                            /\ parser.state # "ERROR"
                            /\ Rest(Taken, Waiting, Frame(pkt))

LineInv == BridgeTyped /\ OneUnderWay

\* Where the frames of s are: the first byte of the k-th is the from[k]-th of the
\* bytes w that wait, if it still waits.  Nothing but frames waits, in this order.
Laid(from, w, s) ==
  /\ \A k \in 1 .. Len(s), j \in Nat :
       j \in 1 .. Len(Frame(s[k])) /\ from[k] + j - 1 > 0 =>
         from[k] + j - 1 <= Len(w) /\ w[from[k] + j - 1] = Frame(s[k])[j]
  /\ \A i \in 1 .. Len(w) : \E k \in 1 .. Len(s) :
       i \in from[k] .. from[k] + Len(Frame(s[k])) - 1
  /\ \A k, l \in 1 .. Len(s) : k < l => from[k] + Len(Frame(s[k])) <= from[l]

\* The bytes c are how the frame of s begins that goes on where the waiting
\* bytes begin.
TakenOf(from, c, s) ==
  c # <<>> =>
    \E k \in 1 .. Len(s) : /\ from[k] = 1 - Len(c)
                           /\ Begins(c, Frame(s[k])) /\ Len(c) < Len(Frame(s[k]))

\* The packets r are some of s, in this order, and their frames lie behind.
Passed(from, place, c, s, r) ==
  /\ \A i, j \in 1 .. Len(r) : i < j => place[i] < place[j]
  /\ \A i \in 1 .. Len(r) : /\ r[i] = s[place[i]]
                            /\ from[place[i]] + Len(Frame(s[place[i]])) <= 1 - Len(c)

\* The frames that wait, those taken and those passed, all at once.
Placed(from, place, w, c, s, r) ==
  /\ from \in [1 .. Len(s) -> Int] /\ place \in [1 .. Len(r) -> 1 .. Len(s)]
  /\ Laid(from, w, s) /\ TakenOf(from, c, s) /\ Passed(from, place, c, s, r)

\* As long as start bytes only start packets, the parser finds where they begin.
InLine ==
  (\A k \in 1 .. Len(sent) : StartFree(sent[k])) =>
    \E from \in [1 .. Len(sent) -> Int], place \in [1 .. Len(received) -> 1 .. Len(sent)] :
      Placed(from, place, Waiting, Taken, sent, received)

OrderInv == BridgeTyped /\ InLine

----------------------------------------------------------------------------
(* Types *)

LEMMA FreshFits ==
  /\ Bounded(FreshParser) /\ InFrame(FreshParser)
  /\ FreshParser.state = "IDLE" /\ CollectedIn(FreshParser) = <<>>
<1>1. FreshParser.state = "IDLE"
  BY DEF FreshParser
<1>2. FreshParser \in Parsers
  BY FrameAssumption DEF FreshParser, Parsers, ParserStates, Headers
<1> QED
  BY <1>1, <1>2 DEF Bounded, InBuffer, InFrame, CollectedIn

LEMMA ResetFits ==
  ASSUME NEW p, Bounded(p)
  PROVE  /\ Bounded(Reset(p)) /\ InFrame(Reset(p))
         /\ Reset(p).state = "IDLE" /\ CollectedIn(Reset(p)) = <<>>
<1>1. Bounded(Reset(p)) /\ Reset(p).state = "IDLE"
  BY ResetBounds DEF Bounded
<1> QED
  BY <1>1 DEF InFrame, CollectedIn

\* The packet that the bridge hands out.
LEMMA PacketTyped ==
  ASSUME NEW p, Bounded(p), InFrame(p), NEW byte \in Bytes, Feed(p, byte).ret = 1
  PROVE  Packet(Feed(p, byte).parser) \in [header : Headers, payload : Seq(Bytes)]
<1> DEFINE q == Feed(p, byte).parser
<1>1. p \in Parsers
  BY DEF Bounded
<1>2. p.state = "END" /\ q = InState(p, "IDLE")
  BY FeedReturns
<1>3. SameBuffers(q, p)
  <2>1. "IDLE" \in ParserStates /\ 0 \in Nat
    BY DEF ParserStates
  <2> QED
    BY <1>1, <1>2, <2>1, Assignments
<1>4. LengthIn(p.header) <= MaxPayload
  BY <1>2 DEF InFrame
<1>5. PacketPayload(p) \in Seq(Bytes) /\ p.header \in Headers
  BY <1>1, <1>4, Contents DEF Parsers
<1> HIDE DEF q
<1>6. Packet(q) = [header |-> p.header, payload |-> PacketPayload(p)]
  BY <1>3 DEF Packet, PacketPayload, SameBuffers
<1>7. Packet(q) \in [header : Headers, payload : Seq(Bytes)]
  BY <1>5, <1>6
<1> QED
  BY <1>7 DEF q

LEMMA InitTyped == BridgeInit => BridgeTyped
<1> SUFFICES ASSUME BridgeInit PROVE BridgeTyped
  OBVIOUS
<1>1. parser = FreshParser
  BY DEF BridgeInit, ParserInit
<1>2. /\ Bounded(parser) /\ InFrame(parser) /\ parser.state = "IDLE"
  BY <1>1, FreshFits
<1> QED
  BY <1>2, EmptySeq DEF BridgeInit, BridgeTyped

LEMMA NextTyped == BridgeTyped /\ [BridgeNext]_bridgeVars => BridgeTyped'
<1> SUFFICES ASSUME BridgeTyped, [BridgeNext]_bridgeVars PROVE BridgeTyped'
  OBVIOUS
<1> DEFINE Received == [header : Headers, payload : Seq(Bytes)]
<1>1. ASSUME NEW pkt \in Packets, NodeSends(pkt) PROVE BridgeTyped'
  <2>1. line' \in Seq(Bytes)
    <3>1. line' = line \o Frame(pkt)
      BY <1>1 DEF NodeSends, Frame
    <3> QED
      BY <3>1, FrameShape, Concat DEF BridgeTyped
  <2>2. sent' \in Seq(Packets)
    BY <1>1, AppendProperties DEF NodeSends, BridgeTyped
  <2> QED
    BY <1>1, <2>1, <2>2 DEF NodeSends, BridgeTyped
<1>2. CASE Call
  BY <1>2, FreshFits DEF Call, BridgeTyped
<1>3. CASE ReadBlock
  <2>1. PICK n \in 1 .. BlockLen :
          /\ n <= Len(line)
          /\ block' = SubSeq(line, 1, n)
          /\ line' = SubSeq(line, n + 1, Len(line))
    BY <1>3 DEF ReadBlock
  <2>2. line \in Seq(Bytes) /\ Len(line) \in Nat /\ n \in Nat
    BY BridgeAssumption, LenProperties DEF BridgeTyped
  <2>3. block' \in Seq(Bytes)
    BY <2>1, <2>2, Prefix
  <2>4. line' \in Seq(Bytes)
    <3>1. \A i \in n + 1 .. Len(line) : line[i] \in Bytes
      BY <2>2, ElementOfSeq
    <3> QED
      BY <2>1, <2>2, <3>1, SubSeqProperties
  <2> QED
    BY <1>3, <2>3, <2>4 DEF ReadBlock, BridgeTyped
<1>4. CASE FeedBlock
  <2> DEFINE byte == Head(block)
             q == Feed(parser, byte).parser
             f == Feed(parser, byte).ret
  <2>1. /\ calling /\ block # <<>> /\ UNCHANGED <<line, sent>>
        /\ \/ /\ f = 1
              /\ received' = Append(received, Packet(q))
              /\ calling' = FALSE /\ parser' = q /\ block' = <<>>
           \/ /\ f # 1
              /\ parser' = IF f < 0 THEN Reset(q) ELSE q
              /\ block' = Tail(block)
              /\ UNCHANGED <<calling, received>>
    BY <1>4 DEF FeedBlock
  <2>2. byte \in Bytes /\ Tail(block) \in Seq(Bytes)
    BY <2>1, HeadTailProperties DEF BridgeTyped
  <2>3. Bounded(parser) /\ InFrame(parser)
    BY DEF BridgeTyped
  <2>4. Bounded(q) /\ InFrame(q)
    BY <2>2, <2>3, FeedBounds, FeedCollects
  <2>5. f = 1 => q.state = "IDLE" /\ Packet(q) \in Received
    BY <2>2, <2>3, FeedReturns, PacketTyped
  <2>6. received \in Seq(Received)
    BY DEF BridgeTyped
  <2> HIDE DEF byte, q, f, Received
  <2>7. CASE f = 1
    <3>1. received' \in Seq(Received)
      BY <2>1, <2>5, <2>6, <2>7, AppendProperties
    <3>2. /\ Bounded(parser') /\ InFrame(parser') /\ parser'.state = "IDLE"
          /\ block' = <<>> /\ block' \in Seq(Bytes) /\ calling' = FALSE
      BY <2>1, <2>4, <2>5, <2>7, EmptySeq
    <3> QED
      BY <2>1, <3>1, <3>2 DEF BridgeTyped, Received
  <2>8. CASE f # 1
    <3>1. Bounded(parser') /\ InFrame(parser')
      BY <2>1, <2>4, <2>8, ResetFits
    <3> QED
      BY <2>1, <2>2, <2>8, <3>1 DEF BridgeTyped
  <2> QED
    BY <2>7, <2>8
<1>5. CASE Timeout
  BY <1>5, FreshFits DEF Timeout, BridgeTyped
<1>6. CASE UNCHANGED bridgeVars
  BY <1>6 DEF bridgeVars, BridgeTyped
<1> QED
  BY <1>1, <1>2, <1>3, <1>4, <1>5, <1>6 DEF BridgeNext

----------------------------------------------------------------------------
(* What the steps do to the bytes that wait *)

\* The first n of them are gone.
Dropped(n) ==
  /\ n \in 0 .. Len(Waiting)
  /\ Len(Waiting') = Len(Waiting) - n
  /\ \A i \in 1 .. Len(Waiting) - n : Waiting'[i] = Waiting[n + i]

LEMMA WaitingTyped ==
  ASSUME BridgeTyped
  PROVE  /\ Waiting \in Seq(Bytes) /\ Len(Waiting) \in Nat
         /\ Len(Waiting) = Len(block) + Len(line)
         /\ Taken \in Seq(Bytes) /\ Len(Taken) \in Nat
         /\ (block = <<>> => Waiting = line)
<1>1. block \in Seq(Bytes) /\ line \in Seq(Bytes)
  BY DEF BridgeTyped
<1>2. Waiting \in Seq(Bytes) /\ Len(Waiting) = Len(block) + Len(line)
  BY <1>1, Concat DEF Waiting
<1>3. Taken \in Seq(Bytes)
  BY TakenTyped DEF Taken, BridgeTyped
<1>4. block = <<>> => Waiting = line
  BY <1>1, ConcatEmptySeq DEF Waiting
<1> QED
  BY <1>2, <1>3, <1>4, LenProperties

LEMMA NodeSendsWaiting ==
  ASSUME BridgeTyped, NEW pkt \in Packets, NodeSends(pkt)
  PROVE  Waiting' = Waiting \o Frame(pkt) /\ Taken' = Taken
<1>1. block \in Seq(Bytes) /\ line \in Seq(Bytes) /\ Frame(pkt) \in Seq(Bytes)
  BY FrameShape DEF BridgeTyped
<1>2. line' = line \o Frame(pkt) /\ block' = block /\ parser' = parser
  BY DEF NodeSends, Frame
<1>3. (block \o line) \o Frame(pkt) = block \o (line \o Frame(pkt))
  BY <1>1, Concat3
<1> QED
  BY <1>2, <1>3 DEF Waiting, Taken

LEMMA ReadBlockWaiting ==
  ASSUME BridgeTyped, ReadBlock
  PROVE  Waiting' = Waiting /\ Taken' = Taken /\ line # <<>>
<1>1. PICK n \in 1 .. BlockLen :
        /\ n <= Len(line)
        /\ block' = SubSeq(line, 1, n)
        /\ line' = SubSeq(line, n + 1, Len(line))
  BY DEF ReadBlock
<1> DEFINE m == Len(line)
<1>2. line \in Seq(Bytes) /\ m \in Nat /\ n \in Nat /\ n >= 1 /\ m >= 1 /\ block = <<>>
  BY <1>1, BridgeAssumption, LenProperties DEF BridgeTyped, ReadBlock
<1>3. line # <<>>
  BY <1>2, EmptySeq
<1>4. SubSeq(line, 1, n) \o SubSeq(line, n + 1, m) = line
  <2>1. 1 \in 1 .. m + 1 /\ n \in 1 - 1 .. m /\ m \in n .. m
    BY <1>1, <1>2
  <2> HIDE DEF m
  <2>2. SubSeq(line, 1, n) \o SubSeq(line, n + 1, m) = SubSeq(line, 1, m)
    BY <1>2, <2>1, ConcatAdjacentSubSeq DEF m
  <2> QED
    BY <1>2, <2>2, SubSeqFull DEF m
<1>5. Waiting' = line
  BY <1>1, <1>4 DEF Waiting
<1>6. Waiting = line
  BY <1>2, WaitingTyped
<1> QED
  BY <1>3, <1>5, <1>6 DEF ReadBlock, Taken

LEMMA FeedBlockWaiting ==
  ASSUME BridgeTyped, FeedBlock
  PROVE  LET byte == Waiting[1]
             q == Feed(parser, byte).parser
             f == Feed(parser, byte).ret
         IN /\ byte \in Bytes /\ Len(Waiting) > 0 /\ block # <<>>
            /\ UNCHANGED <<sent, disturbed>>
            /\ \/ /\ f = 1 /\ block' = <<>> /\ parser' = q
                  /\ received' = Append(received, Packet(q))
                  /\ \E n \in Nat \ {0} : Dropped(n)
               \/ /\ f # 1 /\ Dropped(1) /\ UNCHANGED received
                  /\ parser' = IF f < 0 THEN Reset(q) ELSE q
<1> DEFINE byte == Head(block)
           q == Feed(parser, byte).parser
           f == Feed(parser, byte).ret
           a == Len(block)
           b == Len(line)
<1>1. /\ block # <<>> /\ UNCHANGED <<line, sent, disturbed>>
      /\ \/ /\ f = 1 /\ block' = <<>> /\ parser' = q
            /\ received' = Append(received, Packet(q))
         \/ /\ f # 1 /\ block' = Tail(block) /\ UNCHANGED received
            /\ parser' = IF f < 0 THEN Reset(q) ELSE q
  BY DEF FeedBlock
<1>2. /\ block \in Seq(Bytes) /\ line \in Seq(Bytes)
      /\ a \in Nat /\ b \in Nat /\ a >= 1
  BY <1>1, EmptySeq, LenProperties DEF BridgeTyped
<1>3. /\ Len(Waiting) = a + b
      /\ \A j \in 1 .. a : Waiting[j] = block[j]
      /\ \A j \in 1 .. b : Waiting[a + j] = line[j]
  BY <1>2, ConcatElements DEF Waiting
<1>4. byte = Waiting[1] /\ byte \in Bytes
  <2>1. block[1] = Head(block)
    BY <1>2
  <2>2. Head(block) \in Bytes
    BY <1>1, <1>2, HeadTailProperties
  <2> QED
    BY <1>2, <1>3, <2>1, <2>2
<1>5. ASSUME block' = <<>> PROVE Dropped(a)
  <2>1. Waiting' = line
    BY <1>1, <1>2, <1>5, ConcatEmptySeq DEF Waiting
  <2> QED
    BY <1>2, <1>3, <2>1 DEF Dropped
<1>6. ASSUME block' = Tail(block) PROVE Dropped(1)
  <2> DEFINE t == Tail(block)
             c == a - 1
             w == Waiting'
  <2>1. t \in Seq(Bytes) /\ Len(t) = c /\ \A i \in 1 .. c : t[i] = block[i + 1]
    BY <1>1, <1>2, HeadTailProperties
  <2>2. w = t \o line
    BY <1>1, <1>6 DEF Waiting
  <2> HIDE DEF t, w
  <2>3. /\ Len(w) = c + b
        /\ \A j \in 1 .. c : w[j] = t[j]
        /\ \A j \in 1 .. b : w[c + j] = line[j]
    <3>1. /\ Len(t \o line) = Len(t) + Len(line)
          /\ \A j \in 1 .. Len(t) : (t \o line)[j] = t[j]
          /\ \A j \in 1 .. Len(line) : (t \o line)[Len(t) + j] = line[j]
      BY <1>2, <2>1, ConcatElements
    <3> QED
      BY <2>1, <2>2, <3>1
  <2>4. ASSUME NEW i \in 1 .. a + b - 1 PROVE w[i] = Waiting[1 + i]
    <3>1. CASE i <= c
      <4>1. i \in 1 .. c /\ i + 1 \in 1 .. a /\ 1 + i = i + 1
        BY <1>2, <3>1
      <4> HIDE DEF c, a, b
      <4>2. w[i] = t[i] /\ t[i] = block[i + 1] /\ Waiting[i + 1] = block[i + 1]
        BY <1>3, <2>1, <2>3, <4>1
      <4> QED
        BY <4>1, <4>2
    <3>2. CASE i > c
      <4> DEFINE j == i - c
      <4>1. j \in 1 .. b /\ c + j = i /\ a + j = 1 + i
        BY <1>2, <3>2
      <4> HIDE DEF j, c, a, b
      <4>2. w[c + j] = line[j] /\ Waiting[a + j] = line[j]
        BY <1>3, <2>3, <4>1
      <4> QED
        BY <4>1, <4>2
    <3> QED
      BY <1>2, <3>1, <3>2
  <2>5. Len(w) = a + b - 1 /\ 1 \in 0 .. a + b
    BY <1>2, <2>3
  <2> QED
    BY <1>3, <2>4, <2>5 DEF Dropped, w
<1>7. Len(Waiting) > 0 /\ a \in Nat \ {0}
  BY <1>2, <1>3
<1> HIDE DEF byte, q, f, a, b
<1>8. /\ byte \in Bytes /\ Len(Waiting) > 0 /\ block # <<>>
      /\ UNCHANGED <<sent, disturbed>>
      /\ \/ /\ f = 1 /\ block' = <<>> /\ parser' = q
            /\ received' = Append(received, Packet(q))
            /\ \E n \in Nat \ {0} : Dropped(n)
         \/ /\ f # 1 /\ Dropped(1) /\ UNCHANGED received
            /\ parser' = IF f < 0 THEN Reset(q) ELSE q
  BY <1>1, <1>4, <1>5, <1>6, <1>7
<1> QED
  BY <1>4, <1>8 DEF q, f

\* A call of the bridge and the end of its time leave what waits alone.
LEMMA CallWaiting ==
  ASSUME BridgeTyped, Call \/ Timeout
  PROVE  /\ Waiting' = Waiting /\ Taken' = <<>> /\ parser'.state = "IDLE"
         /\ UNCHANGED <<line, block, sent, received>>
         /\ Call => Taken = <<>> /\ UNCHANGED disturbed /\ parser.state = "IDLE"
         /\ Timeout => disturbed' = (disturbed \/ parser.state # "IDLE")
<1>1. parser' = FreshParser /\ UNCHANGED <<line, block, sent, received>>
  BY DEF Call, Timeout
<1>2. Call => parser.state = "IDLE"
  BY DEF Call, BridgeTyped
<1>3. parser.state = "IDLE" => Taken = <<>>
  BY DEF Taken, CollectedIn
<1> QED
  BY <1>1, <1>2, <1>3, FreshFits DEF Call, Timeout, Taken, Waiting

----------------------------------------------------------------------------
(* One packet at a time *)

LEMMA InitLine == BridgeInit => OneUnderWay
<1> SUFFICES ASSUME BridgeInit PROVE OneUnderWay
  OBVIOUS
<1>1. parser.state = "IDLE"
  BY DEF BridgeInit, ParserInit, FreshParser
<1> QED
  BY <1>1 DEF BridgeInit, OneUnderWay, Quiet

LEMMA QuietIsEmpty ==
  ASSUME BridgeTyped, Quiet
  PROVE  Waiting = <<>> /\ Taken = <<>>
BY ConcatEmptySeq, EmptySeq DEF BridgeTyped, Quiet, Waiting, Taken, CollectedIn

LEMMA RestOfNothing ==
  ASSUME NEW pkt \in Packets
  PROVE  ~Rest(<<>>, <<>>, Frame(pkt)) /\ Rest(<<>>, Frame(pkt), Frame(pkt))
<1>1. Len(Frame(pkt)) > 0 /\ Len(Frame(pkt)) \in Nat
  BY FrameShape, LenProperties, Sizes
<1>2. Len(<<>>) = 0
  BY EmptySeq
<1> QED
  BY <1>1, <1>2 DEF Rest, Begins

LEMMA NextLine == LineInv /\ [BridgeNext]_bridgeVars => OneUnderWay'
<1> SUFFICES ASSUME LineInv, [BridgeNext]_bridgeVars PROVE OneUnderWay'
  OBVIOUS
<1>1. BridgeTyped /\ OneUnderWay
  BY DEF LineInv
<1>2. ASSUME NEW pkt \in Packets, NodeSends(pkt) PROVE OneUnderWay'
  <2> SUFFICES ASSUME ~disturbed'
               PROVE  /\ sent' = Append(received', pkt)
                      /\ parser'.state # "ERROR"
                      /\ Rest(Taken', Waiting', Frame(pkt))
    BY DEF OneUnderWay
  <2>1. ~disturbed /\ Quiet /\ sent' = Append(sent, pkt) /\ UNCHANGED <<received, parser>>
    BY <1>2 DEF NodeSends
  <2>2. Waiting = <<>> /\ Taken = <<>>
    BY <1>1, <2>1, QuietIsEmpty
  <2>3. received = sent
    BY <1>1, <2>1, <2>2, RestOfNothing DEF OneUnderWay
  <2>4. Waiting' = Frame(pkt) /\ Taken' = <<>>
    <3>1. Waiting' = <<>> \o Frame(pkt) /\ Taken' = <<>>
      BY <1>1, <1>2, <2>2, NodeSendsWaiting
    <3>2. <<>> \o Frame(pkt) = Frame(pkt)
      BY FrameShape, ConcatEmptySeq
    <3> QED
      BY <3>1, <3>2
  <2> QED
    BY <2>1, <2>3, <2>4, RestOfNothing DEF Quiet
<1>3. CASE Call \/ Timeout
  <2> SUFFICES ASSUME ~disturbed' PROVE OneUnderWay'
    BY DEF OneUnderWay
  <2>1. /\ Waiting' = Waiting /\ Taken' = <<>> /\ Taken = <<>>
        /\ parser.state = "IDLE" /\ parser'.state = "IDLE"
        /\ ~disturbed /\ UNCHANGED <<line, block, sent, received>>
    <3>1. parser.state = "IDLE" => Taken = <<>>
      BY DEF Taken, CollectedIn
    <3>2. CASE Call
      BY <1>1, <3>2, CallWaiting
    <3>3. CASE Timeout
      <4>1. disturbed' = (disturbed \/ parser.state # "IDLE")
        BY <3>3 DEF Timeout
      <4>2. /\ Waiting' = Waiting /\ Taken' = <<>> /\ parser'.state = "IDLE"
            /\ UNCHANGED <<line, block, sent, received>>
        BY <1>1, <3>3, CallWaiting
      <4> QED
        BY <3>1, <4>1, <4>2
    <3> QED
      BY <1>3, <3>2, <3>3
  <2>2. CASE Quiet /\ received = sent
    BY <2>1, <2>2 DEF Quiet, OneUnderWay
  <2>3. CASE \E pkt \in Packets : /\ sent = Append(received, pkt)
                                  /\ Rest(Taken, Waiting, Frame(pkt))
    <3>1. PICK pkt \in Packets : sent = Append(received, pkt) /\ Rest(Taken, Waiting, Frame(pkt))
      BY <2>3
    <3>2. Rest(Taken', Waiting', Frame(pkt))
      BY <2>1, <3>1
    <3>3. sent' = Append(received', pkt) /\ parser'.state # "ERROR"
      BY <2>1, <3>1
    <3> QED
      BY <3>2, <3>3 DEF OneUnderWay
  <2> QED
    BY <1>1, <2>1, <2>2, <2>3 DEF OneUnderWay
<1>4. CASE ReadBlock
  <2>1. /\ Waiting' = Waiting /\ Taken' = Taken /\ ~Quiet
        /\ UNCHANGED <<parser, sent, received, disturbed>>
    BY <1>1, <1>4, ReadBlockWaiting DEF ReadBlock, Quiet
  <2> SUFFICES ASSUME ~disturbed PROVE OneUnderWay'
    BY <2>1 DEF OneUnderWay
  <2>2. PICK pkt \in Packets : /\ sent = Append(received, pkt) /\ parser.state # "ERROR"
                               /\ Rest(Taken, Waiting, Frame(pkt))
    BY <1>1, <2>1 DEF OneUnderWay
  <2>3. Rest(Taken', Waiting', Frame(pkt))
    BY <2>1, <2>2
  <2>4. sent' = Append(received', pkt) /\ parser'.state # "ERROR"
    BY <2>1, <2>2
  <2> QED
    BY <2>3, <2>4 DEF OneUnderWay
<1>5. CASE FeedBlock
  <2> DEFINE byte == Waiting[1]
             q == Feed(parser, byte).parser
             f == Feed(parser, byte).ret
             c == Taken
             w == Waiting
  <2>1. /\ byte \in Bytes /\ Len(w) > 0 /\ block # <<>>
        /\ UNCHANGED <<sent, disturbed>>
        /\ \/ /\ f = 1 /\ block' = <<>> /\ parser' = q
              /\ received' = Append(received, Packet(q))
              /\ \E n \in Nat \ {0} : Dropped(n)
           \/ /\ f # 1 /\ Dropped(1) /\ UNCHANGED received
              /\ parser' = IF f < 0 THEN Reset(q) ELSE q
    BY <1>1, <1>5, FeedBlockWaiting
  <2> SUFFICES ASSUME ~disturbed PROVE OneUnderWay'
    BY <2>1 DEF OneUnderWay
  <2>2. PICK pkt \in Packets : sent = Append(received, pkt) /\ Rest(c, w, Frame(pkt))
    BY <1>1, <2>1 DEF OneUnderWay, Quiet
  <2> DEFINE F == Frame(pkt)
             g == Append(c, byte)
  <2>3. /\ Len(c) \in Nat /\ Len(w) \in Nat /\ w \in Seq(Bytes)
        /\ c = CollectedIn(parser) /\ Bounded(parser) /\ InFrame(parser)
    BY <1>1, WaitingTyped DEF Taken, BridgeTyped
  <2>4. /\ Begins(c, F) /\ Len(c) + Len(w) = Len(F) /\ Len(c) < Len(F)
        /\ byte = F[Len(c) + 1]
        /\ \A j \in 1 .. Len(w) : w[j] = F[Len(c) + j]
    BY <2>1, <2>2, <2>3 DEF Rest, Begins
  <2>5. /\ g \in Seq(Bytes) /\ Begins(g, F) /\ Len(g) = Len(c) + 1
        /\ \/ Len(c) + 1 < Len(F) /\ f = 0 /\ CollectedIn(q) = g
           \/ Len(c) + 1 = Len(F) /\ f = 1 /\ q.state = "IDLE" /\ Packet(q) = pkt
    <3> HIDE DEF w, F
    <3>1. /\ Begins(CollectedIn(parser), Frame(pkt))
          /\ Len(CollectedIn(parser)) < Len(Frame(pkt))
          /\ byte = Frame(pkt)[Len(CollectedIn(parser)) + 1]
      BY <2>3, <2>4 DEF F
    <3> HIDE DEF byte
    <3> QED
      BY <2>1, <2>3, <3>1, FeedOfFrame DEF F
  <2> HIDE DEF byte, q, f, c, w, F, g
  <2>6. CASE f = 0 /\ CollectedIn(q) = g
    <3>1. Dropped(1) /\ parser' = q /\ UNCHANGED received
      BY <2>1, <2>6
    <3>2. Taken' = g
      BY <2>6, <3>1 DEF Taken
    <3>3. g # <<>>
      BY <2>3, <2>5, EmptySeq
    <3>4. parser'.state # "ERROR"
      BY <2>6, <3>1, <3>3 DEF CollectedIn
    <3>5. /\ Len(Waiting') = Len(w) - 1
          /\ \A i \in 1 .. Len(w) - 1 : Waiting'[i] = w[1 + i]
      BY <3>1 DEF Dropped, w
    <3>6. Rest(g, Waiting', F)
      <4> DEFINE v == Waiting'
      <4>1. Len(v) = Len(w) - 1 /\ \A i \in 1 .. Len(w) - 1 : v[i] = w[1 + i]
        BY <3>5
      <4> HIDE DEF v
      <4>2. \A j \in 1 .. Len(v) : v[j] = F[Len(g) + j]
        <5> TAKE j \in 1 .. Len(v)
        <5>1. /\ 1 + j \in 1 .. Len(w) /\ j \in 1 .. Len(w) - 1
              /\ Len(g) + j = Len(c) + (1 + j)
          BY <2>3, <2>5, <4>1
        <5> QED
          BY <2>4, <4>1, <5>1
      <4>3. Len(g) + Len(v) = Len(F)
        <5>1. Len(g) = Len(c) + 1
          BY <2>5
        <5>2. Len(c) + Len(w) = Len(F)
          BY <2>4
        <5>3. Len(v) = Len(w) - 1
          BY <4>1
        <5> QED
          BY <2>3, <5>1, <5>2, <5>3
      <4>4. Rest(g, v, F)
        BY <2>5, <4>2, <4>3 DEF Rest
      <4> QED
        BY <4>4 DEF v
    <3> QED
      BY <2>1, <2>2, <3>1, <3>2, <3>4, <3>6 DEF OneUnderWay, F
  <2>7. CASE /\ Len(c) + 1 = Len(F) /\ f = 1 /\ q.state = "IDLE" /\ Packet(q) = pkt
    <3>1. /\ block' = <<>> /\ parser' = q /\ received' = Append(received, pkt)
          /\ \E n \in Nat \ {0} : Dropped(n)
      BY <2>1, <2>7
    <3>2. PICK n \in Nat \ {0} : Dropped(n)
      BY <3>1
    <3>3. Len(Waiting') = 0
      BY <2>3, <2>4, <2>7, <3>2 DEF Dropped, w
    <3>4. line' = <<>>
      <4>1. BridgeTyped'
        BY <1>1, NextTyped
      <4>2. line' \in Seq(Bytes)
        BY <4>1 DEF BridgeTyped
      <4>3. Waiting' = line'
        BY <3>1, <4>2, ConcatEmptySeq DEF Waiting
      <4> QED
        BY <3>3, <4>2, <4>3, EmptySeq
    <3>5. Quiet'
      BY <2>7, <3>1, <3>4 DEF Quiet
    <3> QED
      BY <2>1, <2>2, <3>1, <3>5 DEF OneUnderWay
  <2> QED
    BY <2>5, <2>6, <2>7
<1>6. CASE UNCHANGED bridgeVars
  BY <1>1, <1>6 DEF bridgeVars, OneUnderWay, Quiet, Taken, Waiting
<1> QED
  BY <1>2, <1>3, <1>4, <1>5, <1>6 DEF BridgeNext

\* A node that sends one packet at a time loses none, whatever is in it and
\* however its bytes arrive in blocks (uart_bridge_receive).
THEOREM QuietLineKeeps == BridgeSpec => []QuietLineLosesNothing
<1>1. BridgeInit => LineInv
  BY InitTyped, InitLine DEF LineInv
<1>2. LineInv /\ [BridgeNext]_bridgeVars => LineInv'
  BY NextTyped, NextLine DEF LineInv
<1>3. LineInv => QuietLineLosesNothing
  <2> SUFFICES ASSUME LineInv, ~disturbed, Quiet PROVE received = sent
    BY DEF QuietLineLosesNothing
  <2>1. Waiting = <<>> /\ Taken = <<>>
    BY QuietIsEmpty DEF LineInv
  <2> QED
    BY <2>1, RestOfNothing DEF LineInv, OneUnderWay
<1> QED
  BY <1>1, <1>2, <1>3, PTL DEF BridgeSpec

----------------------------------------------------------------------------
(* Packets at any pace *)

Moved(from, n) == [k \in DOMAIN from |-> from[k] - n]

\* The function f on 1 .. n and x behind.
Extended(f, n, x) == [i \in 1 .. n + 1 |-> IF i <= n THEN f[i] ELSE x]

LEMMA FrameLens ==
  ASSUME NEW s \in Seq(Packets), NEW k \in 1 .. Len(s)
  PROVE  s[k] \in Packets /\ Len(Frame(s[k])) \in Nat /\ Len(Frame(s[k])) > 0
<1>1. s[k] \in Packets
  BY ElementOfSeq
<1>2. Frame(s[k]) \in Seq(Bytes) /\ Len(Frame(s[k])) > HeaderLen
  BY <1>1, FrameShape
<1> QED
  BY <1>1, <1>2, LenProperties, Sizes

\* The frames keep their order when the first n bytes are gone.
LEMMA LaidMoves ==
  ASSUME NEW s \in Seq(Packets), NEW w \in Seq(Bytes), NEW from \in [1 .. Len(s) -> Int],
         Laid(from, w, s), NEW n \in 0 .. Len(w), NEW v, Len(v) = Len(w) - n,
         \A i \in 1 .. Len(w) - n : v[i] = w[n + i]
  PROVE  Moved(from, n) \in [1 .. Len(s) -> Int] /\ Laid(Moved(from, n), v, s)
<1> DEFINE m == Moved(from, n)
           L(k) == Len(Frame(s[k]))
<1>1. Len(s) \in Nat /\ Len(w) \in Nat /\ n \in Nat
  BY LenProperties
<1>2. m \in [1 .. Len(s) -> Int] /\ \A k \in 1 .. Len(s) : m[k] = from[k] - n
  BY <1>1 DEF Moved
<1>3. \A k \in 1 .. Len(s) : L(k) \in Nat /\ L(k) > 0 /\ from[k] \in Int
  BY FrameLens
<1> HIDE DEF m, L
<1>4. ASSUME NEW k \in 1 .. Len(s), NEW j \in Nat, j \in 1 .. L(k), m[k] + j - 1 > 0
      PROVE  m[k] + j - 1 <= Len(v) /\ v[m[k] + j - 1] = Frame(s[k])[j]
  <2> DEFINE i == m[k] + j - 1
             h == from[k] + j - 1
  <2>1. h = n + i /\ i \in Int /\ i > 0 /\ h > 0
    <3> DEFINE a == from[k]
               b == m[k]
    <3>1. b = a - n /\ a \in Int /\ b + j - 1 > 0 /\ i = b + j - 1 /\ h = a + j - 1
      BY <1>2, <1>3, <1>4
    <3> HIDE DEF a, b, i, h
    <3> QED
      BY <1>1, <3>1
  <2>2. h <= Len(w) /\ w[h] = Frame(s[k])[j]
    BY <1>4, <2>1 DEF Laid, L
  <2> HIDE DEF i, h
  <2>3. i \in 1 .. Len(w) - n
    BY <1>1, <2>1, <2>2
  <2>4. i <= Len(v) /\ v[i] = w[n + i]
    BY <1>1, <2>3
  <2> QED
    BY <2>1, <2>2, <2>4 DEF i
<1>5. ASSUME NEW i \in 1 .. Len(v)
      PROVE  \E k \in 1 .. Len(s) : i \in m[k] .. m[k] + L(k) - 1
  <2>1. n + i \in 1 .. Len(w)
    BY <1>1
  <2>2. PICK k \in 1 .. Len(s) : n + i \in from[k] .. from[k] + L(k) - 1
    BY <2>1 DEF Laid, L
  <2>3. i \in m[k] .. m[k] + L(k) - 1
    <3> DEFINE a == from[k]
               b == m[k]
               len == L(k)
    <3>1. b = a - n /\ a \in Int /\ len \in Nat /\ i \in Int /\ n + i \in a .. a + len - 1
      BY <1>1, <1>2, <1>3, <2>2
    <3> HIDE DEF a, b, len
    <3>2. i \in b .. b + len - 1
      BY <1>1, <3>1
    <3> QED
      BY <3>2 DEF b, len
  <2> QED
    BY <2>3
<1>6. ASSUME NEW k \in 1 .. Len(s), NEW l \in 1 .. Len(s), k < l
      PROVE  m[k] + L(k) <= m[l]
  <2>1. from[k] + L(k) <= from[l]
    BY <1>6 DEF Laid, L
  <2> QED
    BY <1>1, <1>2, <1>3, <2>1
<1> QED
  BY <1>2, <1>4, <1>5, <1>6 DEF Laid, L, m

\* A packet that is sent is laid behind the others.
LEMMA LaidGrows ==
  ASSUME NEW s \in Seq(Packets), NEW w \in Seq(Bytes), NEW from \in [1 .. Len(s) -> Int],
         Laid(from, w, s), NEW pkt \in Packets
  PROVE  /\ Extended(from, Len(s), Len(w) + 1) \in [1 .. Len(Append(s, pkt)) -> Int]
         /\ Laid(Extended(from, Len(s), Len(w) + 1), w \o Frame(pkt), Append(s, pkt))
<1> DEFINE z == Len(s) + 1
           next == Extended(from, Len(s), Len(w) + 1)
           t == Append(s, pkt)
           F == Frame(pkt)
           v == w \o F
           L(k) == Len(Frame(s[k]))
           M(k) == Len(Frame(t[k]))
<1>1. Len(s) \in Nat /\ Len(w) \in Nat
  BY LenProperties
<1>2. /\ t \in Seq(Packets) /\ Len(t) = z /\ t[z] = pkt
      /\ \A k \in 1 .. Len(s) : t[k] = s[k]
  BY AppendProperties
<1>3. F \in Seq(Bytes) /\ Len(F) \in Nat
  BY FrameShape, LenProperties
<1> HIDE DEF F
<1>4. /\ v \in Seq(Bytes) /\ Len(v) = Len(w) + Len(F)
      /\ \A j \in 1 .. Len(w) : v[j] = w[j]
      /\ \A j \in 1 .. Len(F) : v[Len(w) + j] = F[j]
  BY <1>3, ConcatElements
<1>5. \A k \in 1 .. Len(s) : L(k) \in Nat /\ L(k) > 0 /\ from[k] \in Int
  BY FrameLens
<1>6. /\ next \in [1 .. z -> Int] /\ next[z] = Len(w) + 1
      /\ \A k \in 1 .. Len(s) : next[k] = from[k]
  BY <1>1 DEF Extended
<1>7. /\ M(z) = Len(F) /\ Frame(t[z]) = F
      /\ \A k \in 1 .. Len(s) : M(k) = L(k) /\ Frame(t[k]) = Frame(s[k])
  BY <1>2 DEF F
<1>8. \A k \in 1 .. z : k \in 1 .. Len(s) \/ k = z
  BY <1>1
<1>9. z \in 1 .. z /\ \A k \in 1 .. Len(s) : k \in 1 .. z /\ k < z
  BY <1>1
<1> HIDE DEF z, next, t, v, L, M
<1>10. \A k \in 1 .. Len(s) : from[k] + L(k) <= Len(w) + 1
  <2> TAKE k \in 1 .. Len(s)
  <2> DEFINE j == L(k)
  <2>1. j \in Nat /\ j \in 1 .. L(k) /\ from[k] \in Int
    BY <1>5
  <2>2. from[k] + j - 1 > 0 => from[k] + j - 1 <= Len(w)
    BY <2>1 DEF Laid, L
  <2> QED
    BY <1>1, <2>1, <2>2
<1>11. ASSUME NEW k \in 1 .. z, NEW j \in Nat, j \in 1 .. M(k), next[k] + j - 1 > 0
       PROVE  next[k] + j - 1 <= Len(v) /\ v[next[k] + j - 1] = Frame(t[k])[j]
  <2>1. CASE k \in 1 .. Len(s)
    <3> DEFINE i == from[k] + j - 1
    <3>1. i <= Len(w) /\ w[i] = Frame(s[k])[j] /\ i > 0
      BY <1>6, <1>7, <1>11, <2>1 DEF Laid, L
    <3>2. i \in Int
      BY <1>5, <2>1
    <3> HIDE DEF i
    <3>3. i \in 1 .. Len(w) /\ i <= Len(w) + Len(F)
      BY <1>1, <1>3, <3>1, <3>2
    <3>4. next[k] + j - 1 = i
      BY <1>6, <2>1 DEF i
    <3> QED
      BY <1>4, <1>7, <2>1, <3>1, <3>3, <3>4
  <2>2. CASE k = z
    <3>1. j \in 1 .. Len(F) /\ next[k] + j - 1 = Len(w) + j
      BY <1>1, <1>6, <1>7, <1>11, <2>2
    <3>2. Len(w) + j <= Len(v)
      BY <1>1, <1>3, <1>4, <3>1
    <3> QED
      BY <1>4, <1>7, <2>2, <3>1, <3>2
  <2> QED
    BY <1>8, <2>1, <2>2
<1>12. ASSUME NEW i \in 1 .. Len(v)
       PROVE  \E k \in 1 .. z : i \in next[k] .. next[k] + M(k) - 1
  <2>1. CASE i \in 1 .. Len(w)
    <3>1. PICK k \in 1 .. Len(s) : i \in from[k] .. from[k] + L(k) - 1
      BY <2>1 DEF Laid, L
    <3> QED
      BY <1>6, <1>7, <1>9, <3>1
  <2>2. CASE i \notin 1 .. Len(w)
    <3>1. i \in Len(w) + 1 .. Len(w) + 1 + Len(F) - 1
      BY <1>1, <1>3, <1>4, <2>2
    <3> QED
      BY <1>6, <1>7, <1>9, <3>1
  <2> QED
    BY <2>1, <2>2
<1>13. ASSUME NEW k \in 1 .. z, NEW l \in 1 .. z, k < l
       PROVE  next[k] + M(k) <= next[l]
  <2>1. k \in 1 .. Len(s)
    BY <1>1, <1>13 DEF z
  <2>2. CASE l \in 1 .. Len(s)
    <3>1. from[k] + L(k) <= from[l]
      BY <1>13, <2>1, <2>2 DEF Laid, L
    <3> QED
      BY <1>6, <1>7, <2>1, <2>2, <3>1
  <2>3. CASE l = z
    BY <1>6, <1>7, <1>10, <2>1, <2>3
  <2> QED
    BY <1>8, <2>2, <2>3
<1>14. next \in [1 .. Len(t) -> Int] /\ Laid(next, v, t)
  BY <1>2, <1>6, <1>11, <1>12, <1>13 DEF Laid, M
<1> QED
  BY <1>14 DEF next, z, v, t, F

\* What lay behind still does when n bytes are gone and the parser has taken no
\* more than those.
LEMMA PassedMoves ==
  ASSUME NEW s \in Seq(Packets), NEW r, Len(r) \in Nat, NEW from \in [1 .. Len(s) -> Int],
         NEW place \in [1 .. Len(r) -> 1 .. Len(s)], NEW c, Len(c) \in Nat,
         Passed(from, place, c, s, r), NEW n \in Nat, NEW d, Len(d) \in Nat, Len(d) <= Len(c) + n
  PROVE  Passed(Moved(from, n), place, d, s, r)
<1> SUFFICES ASSUME NEW i \in 1 .. Len(r)
             PROVE  Moved(from, n)[place[i]] + Len(Frame(s[place[i]])) <= 1 - Len(d)
  BY DEF Passed
<1> DEFINE k == place[i]
           L == Len(Frame(s[k]))
<1>1. k \in 1 .. Len(s)
  OBVIOUS
<1> HIDE DEF k
<1>2. L \in Nat /\ from[k] \in Int /\ Moved(from, n)[k] = from[k] - n
  BY <1>1, FrameLens DEF Moved
<1>3. from[k] + L <= 1 - Len(c)
  BY DEF Passed, k
<1> HIDE DEF L
<1>4. (from[k] - n) + L <= 1 - Len(d)
  BY <1>2, <1>3
<1> QED
  BY <1>2, <1>4 DEF k, L

\* A packet behind all that were received is received as the next.
LEMMA PassedGrows ==
  ASSUME NEW s \in Seq(Packets), NEW R, NEW r \in Seq(R), NEW from \in [1 .. Len(s) -> Int],
         NEW place \in [1 .. Len(r) -> 1 .. Len(s)],
         NEW c, Len(c) \in Nat, NEW w, Laid(from, w, s), Passed(from, place, c, s, r),
         NEW k \in 1 .. Len(s), s[k] \in R, from[k] = 1 - Len(c),
         Len(Frame(s[k])) = Len(c) + 1, NEW n \in Nat \ {0}
  PROVE  /\ Extended(place, Len(r), k) \in [1 .. Len(Append(r, s[k])) -> 1 .. Len(s)]
         /\ Passed(Moved(from, n), Extended(place, Len(r), k), <<>>, s, Append(r, s[k]))
<1> DEFINE z == Len(r) + 1
           next == Extended(place, Len(r), k)
           t == Append(r, s[k])
           L(l) == Len(Frame(s[l]))
           m == Moved(from, n)
<1>1. Len(r) \in Nat
  BY LenProperties
<1>2. /\ Len(t) = z /\ t[z] = s[k]
      /\ \A i \in 1 .. Len(r) : t[i] = r[i]
  BY AppendProperties
<1>3. /\ next \in [1 .. z -> 1 .. Len(s)] /\ next[z] = k
      /\ \A i \in 1 .. Len(r) : next[i] = place[i]
  BY <1>1 DEF Extended
<1>4. \A l \in 1 .. Len(s) : L(l) \in Nat /\ L(l) > 0 /\ from[l] \in Int
  BY FrameLens
<1>5. \A l \in 1 .. Len(s) : m[l] = from[l] - n
  BY DEF Moved
<1>6. \A i \in 1 .. z : i \in 1 .. Len(r) \/ i = z
  BY <1>1
<1>7. L(k) = Len(c) + 1
  OBVIOUS
<1>8. \A a, b \in 1 .. Len(s) : a < b => from[a] + L(a) <= from[b]
  BY DEF Laid
<1>9. \A i \in 1 .. Len(r) : from[place[i]] + L(place[i]) <= 1 - Len(c)
  BY DEF Passed
<1> HIDE DEF L, m, next, t
<1>10. ASSUME NEW i \in 1 .. Len(r) PROVE place[i] < k /\ m[place[i]] + L(place[i]) <= 1
  <2> DEFINE l == place[i]
  <2>1. l \in 1 .. Len(s) /\ l \in Int /\ k \in Int
    OBVIOUS
  <2>2. from[l] + L(l) <= 1 - Len(c)
    BY <1>9
  <2> HIDE DEF l
  <2>3. l # k
    BY <1>4, <2>1, <2>2
  <2>4. ~(k < l)
    <3> SUFFICES ASSUME k < l PROVE FALSE
      OBVIOUS
    <3>1. from[k] + L(k) <= from[l]
      BY <1>8, <2>1
    <3>2. L(l) \in Nat /\ from[l] \in Int /\ L(l) > 0
      BY <1>4, <2>1
    <3> QED
      BY <1>7, <2>2, <3>1, <3>2
  <2>5. m[l] + L(l) <= 1
    <3>1. L(l) \in Nat /\ from[l] \in Int /\ m[l] = from[l] - n
      BY <1>4, <1>5, <2>1
    <3> QED
      BY <2>2, <3>1
  <2> QED
    BY <2>1, <2>3, <2>4, <2>5 DEF l
<1>11. m[k] + L(k) <= 1
  <2>1. m[k] = 1 - Len(c) - n
    BY <1>5
  <2> QED
    BY <1>7, <2>1
<1>12. ASSUME NEW i \in 1 .. z
       PROVE  t[i] = s[next[i]] /\ m[next[i]] + L(next[i]) <= 1
  <2>1. CASE i \in 1 .. Len(r)
    <3>1. r[i] = s[place[i]]
      BY <2>1 DEF Passed
    <3> QED
      BY <1>2, <1>3, <1>10, <2>1, <3>1
  <2>2. CASE i = z
    BY <1>2, <1>3, <1>11, <2>2
  <2> QED
    BY <1>6, <2>1, <2>2
<1>13. ASSUME NEW i \in 1 .. z, NEW j \in 1 .. z, i < j PROVE next[i] < next[j]
  <2>1. i \in 1 .. Len(r)
    BY <1>1, <1>13
  <2>2. CASE j \in 1 .. Len(r)
    <3>1. place[i] < place[j]
      BY <1>13, <2>1, <2>2 DEF Passed
    <3> QED
      BY <1>3, <2>1, <2>2, <3>1
  <2>3. CASE j = z
    BY <1>3, <1>10, <2>1, <2>3
  <2> QED
    BY <1>6, <2>2, <2>3
<1>14. Len(<<>>) = 0
  BY EmptySeq
<1>15. next \in [1 .. Len(t) -> 1 .. Len(s)] /\ Passed(m, next, <<>>, s, t)
  <2> HIDE DEF z
  <2>1. \A i \in 1 .. Len(t) : m[next[i]] + Len(Frame(s[next[i]])) <= 1 - Len(<<>>)
    BY <1>2, <1>12, <1>14 DEF L
  <2> QED
    BY <1>2, <1>3, <1>12, <1>13, <2>1 DEF Passed
<1> QED
  BY <1>15 DEF next, t, m

\* Where the byte that is fed next belongs: outside a frame a start byte starts
\* one, inside a frame the byte is its next.
LEMMA NextOfFrame ==
  ASSUME NEW s \in Seq(Packets), \A k \in 1 .. Len(s) : StartFree(s[k]),
         NEW w \in Seq(Bytes), Len(w) > 0, NEW from \in [1 .. Len(s) -> Int], Laid(from, w, s),
         NEW c \in Seq(Bytes), TakenOf(from, c, s), c # <<>> \/ w[1] = StartByte
  PROVE  \E k \in 1 .. Len(s) : /\ from[k] = 1 - Len(c)
                                /\ Begins(c, Frame(s[k])) /\ Len(c) < Len(Frame(s[k]))
                                /\ w[1] = Frame(s[k])[Len(c) + 1]
<1>1. CASE c # <<>>
  <2>1. PICK k \in 1 .. Len(s) : /\ from[k] = 1 - Len(c)
                                 /\ Begins(c, Frame(s[k])) /\ Len(c) < Len(Frame(s[k]))
    BY <1>1 DEF TakenOf
  <2> DEFINE j == Len(c) + 1
  <2>2. /\ j \in Nat /\ j \in 1 .. Len(Frame(s[k])) /\ from[k] + j - 1 = 1
    BY <2>1, LenProperties, FrameLens
  <2> HIDE DEF j
  <2>3. w[1] = Frame(s[k])[j]
    BY <2>2 DEF Laid
  <2> QED
    BY <2>1, <2>3 DEF j
<1>2. CASE c = <<>>
  <2>1. 1 \in 1 .. Len(w)
    BY LenProperties
  <2>2. PICK k \in 1 .. Len(s) : 1 \in from[k] .. from[k] + Len(Frame(s[k])) - 1
    BY <2>1 DEF Laid
  <2> DEFINE j == 2 - from[k]
             F == Frame(s[k])
  <2>3. Len(F) \in Nat /\ from[k] \in Int
    BY FrameLens
  <2>4. j \in Nat /\ j \in 1 .. Len(F) /\ from[k] + j - 1 = 1
    BY <2>2, <2>3
  <2> HIDE DEF j
  <2>5. w[1] = F[j]
    BY <2>4 DEF Laid
  <2>6. \A i \in 2 .. Len(F) : F[i] # StartByte
    BY DEF StartFree, Frame
  <2> HIDE DEF F
  <2>7. j = 1
    BY <1>2, <2>3, <2>4, <2>5, <2>6
  <2>8. Len(c) = 0
    BY <1>2, EmptySeq
  <2>9. from[k] = 1 - Len(c) /\ Len(c) < Len(F) /\ w[1] = F[Len(c) + 1] /\ Begins(c, F)
    BY <2>3, <2>4, <2>5, <2>7, <2>8 DEF Begins
  <2> QED
    BY <2>9 DEF F
<1> QED
  BY <1>1, <1>2

LEMMA InitInLine == BridgeInit => InLine
<1> SUFFICES ASSUME BridgeInit PROVE InLine
  OBVIOUS
<1>1. line = <<>> /\ block = <<>> /\ sent = <<>> /\ received = <<>> /\ parser.state = "IDLE"
  BY DEF BridgeInit, ParserInit, FreshParser
<1>2. Waiting = <<>> /\ Taken = <<>>
  <2>1. <<>> \o <<>> = <<>>
    BY EmptySeq, ConcatEmptySeq
  <2> QED
    BY <1>1, <2>1 DEF Waiting, Taken, CollectedIn
<1>3. Len(<<>>) = 0
  BY EmptySeq
<1> DEFINE none == [k \in 1 .. 0 |-> 1]
<1>4. 1 .. 0 = {}
  OBVIOUS
<1>5. none \in [1 .. 0 -> Int] /\ none \in [1 .. 0 -> 1 .. 0]
  BY <1>4
<1> HIDE DEF none
<1>6. Placed(none, none, <<>>, <<>>, <<>>, <<>>)
  BY <1>3, <1>4, <1>5 DEF Placed, Laid, TakenOf, Passed
<1> QED
  BY <1>1, <1>2, <1>3, <1>5, <1>6 DEF InLine

\* Nothing of a frame is in the parser any more.
LEMMA TakenGone ==
  ASSUME NEW s \in Seq(Packets), NEW r, Len(r) \in Nat, NEW from, NEW place, NEW w,
         NEW c, Len(c) \in Nat, Placed(from, place, w, c, s, r)
  PROVE  Placed(from, place, w, <<>>, s, r)
<1>1. Len(<<>>) = 0
  BY EmptySeq
<1>2. /\ from \in [1 .. Len(s) -> Int] /\ place \in [1 .. Len(r) -> 1 .. Len(s)]
      /\ Laid(from, w, s) /\ Passed(from, place, c, s, r)
  BY DEF Placed
<1>3. ASSUME NEW i \in 1 .. Len(r)
      PROVE  from[place[i]] + Len(Frame(s[place[i]])) <= 1 - Len(<<>>)
  <2> DEFINE k == place[i]
             L == Len(Frame(s[k]))
  <2>1. k \in 1 .. Len(s)
    BY <1>2
  <2> HIDE DEF k
  <2>2. L \in Nat /\ from[k] \in Int
    BY <1>2, <2>1, FrameLens
  <2>3. from[k] + L <= 1 - Len(c)
    BY <1>2 DEF Passed, k
  <2> HIDE DEF L
  <2>4. from[k] + L <= 1 - Len(<<>>)
    BY <1>1, <2>2, <2>3
  <2> QED
    BY <2>4 DEF k, L
<1>4. Passed(from, place, <<>>, s, r)
  BY <1>2, <1>3 DEF Passed
<1> QED
  BY <1>2, <1>4 DEF Placed, TakenOf

LEMMA NextInLine == OrderInv /\ [BridgeNext]_bridgeVars => InLine'
<1> SUFFICES ASSUME OrderInv, [BridgeNext]_bridgeVars,
                    \A k \in 1 .. Len(sent') : StartFree(sent'[k])
             PROVE  \E from, place : Placed(from, place, Waiting', Taken', sent', received')
  BY DEF InLine, Placed
<1> DEFINE w == Waiting
           c == Taken
<1>1. /\ BridgeTyped /\ sent \in Seq(Packets) /\ Len(sent) \in Nat
      /\ received \in Seq([header : Headers, payload : Seq(Bytes)]) /\ Len(received) \in Nat
      /\ w \in Seq(Bytes) /\ Len(w) \in Nat /\ c \in Seq(Bytes) /\ Len(c) \in Nat
  BY WaitingTyped, LenProperties DEF OrderInv, BridgeTyped
<1>2. \/ sent' = sent
      \/ \E pkt \in Packets : sent' = Append(sent, pkt)
  BY DEF BridgeNext, NodeSends, Call, ReadBlock, FeedBlock, Timeout, bridgeVars
<1>3. \A k \in 1 .. Len(sent) : StartFree(sent[k])
  <2>1. CASE sent' = sent
    BY <2>1
  <2>2. CASE \E pkt \in Packets : sent' = Append(sent, pkt)
    <3>1. PICK pkt \in Packets : sent' = Append(sent, pkt)
      BY <2>2
    <3>2. TAKE k \in 1 .. Len(sent)
    <3>3. sent'[k] = sent[k] /\ k \in 1 .. Len(sent')
      BY <1>1, <3>1, AppendProperties
    <3> QED
      BY <3>3
  <2> QED
    BY <1>2, <2>1, <2>2
<1>4. PICK from, place : Placed(from, place, w, c, sent, received)
  BY <1>3 DEF OrderInv, InLine, Placed
<1>5. /\ from \in [1 .. Len(sent) -> Int] /\ place \in [1 .. Len(received) -> 1 .. Len(sent)]
      /\ Laid(from, w, sent) /\ TakenOf(from, c, sent)
      /\ Passed(from, place, c, sent, received)
  BY <1>4 DEF Placed
<1>6. ASSUME NEW pkt \in Packets, NodeSends(pkt)
      PROVE  \E next : Placed(next, place, Waiting', Taken', sent', received')
  <2> DEFINE next == Extended(from, Len(sent), Len(w) + 1)
  <2>1. Waiting' = w \o Frame(pkt) /\ Taken' = c
    BY <1>1, <1>6, NodeSendsWaiting
  <2>2. sent' = Append(sent, pkt) /\ received' = received
    BY <1>6 DEF NodeSends
  <2>3. next \in [1 .. Len(sent') -> Int] /\ Laid(next, Waiting', sent')
    <3> HIDE DEF w, c
    <3>1. next \in [1 .. Len(Append(sent, pkt)) -> Int]
      BY <1>1, <1>5, LaidGrows
    <3>2. Laid(next, w \o Frame(pkt), Append(sent, pkt))
      BY <1>1, <1>5, LaidGrows
    <3> HIDE DEF next
    <3> QED
      BY <2>1, <2>2, <3>1, <3>2
  <2>4. /\ \A k \in 1 .. Len(sent) : next[k] = from[k] /\ sent'[k] = sent[k]
        /\ Len(sent') = Len(sent) + 1
    BY <1>1, <2>2, AppendProperties DEF Extended
  <2> HIDE DEF next
  <2>5. \A k \in 1 .. Len(sent) : k \in 1 .. Len(sent')
    BY <1>1, <2>4
  <2>6. TakenOf(next, c, sent')
    BY <1>5, <2>4, <2>5 DEF TakenOf
  <2>7. \A i \in 1 .. Len(received) : place[i] \in 1 .. Len(sent)
    BY <1>5
  <2>8. Passed(next, place, c, sent', received)
    BY <1>5, <2>4, <2>7 DEF Passed
  <2>9. place \in [1 .. Len(received) -> 1 .. Len(sent')]
    BY <1>5, <2>5
  <2> QED
    BY <2>1, <2>2, <2>3, <2>6, <2>8, <2>9 DEF Placed
<1>7. CASE Call \/ Timeout
  <2>1. Waiting' = w /\ Taken' = <<>> /\ sent' = sent /\ received' = received
    BY <1>1, <1>7, CallWaiting
  <2> HIDE DEF w, c
  <2>2. Placed(from, place, w, <<>>, sent, received)
    BY <1>1, <1>4, TakenGone
  <2> QED
    BY <2>1, <2>2
<1>8. CASE ReadBlock
  <2>1. Waiting' = w /\ Taken' = c /\ sent' = sent /\ received' = received
    BY <1>1, <1>8, ReadBlockWaiting DEF ReadBlock
  <2> QED
    BY <1>4, <2>1
<1>9. CASE FeedBlock
  <2> DEFINE byte == Waiting[1]
             q == Feed(parser, byte).parser
             f == Feed(parser, byte).ret
  <2>1. /\ byte \in Bytes /\ Len(w) > 0 /\ sent' = sent
        /\ \/ /\ f = 1 /\ parser' = q
              /\ received' = Append(received, Packet(q))
              /\ \E n \in Nat \ {0} : Dropped(n)
           \/ /\ f # 1 /\ Dropped(1) /\ received' = received
              /\ parser' = IF f < 0 THEN Reset(q) ELSE q
    BY <1>1, <1>9, FeedBlockWaiting
  <2>2. /\ c = CollectedIn(parser) /\ Bounded(parser) /\ InFrame(parser)
        /\ byte = w[1] /\ Taken' = CollectedIn(parser')
    BY <1>1 DEF Taken, BridgeTyped
  <2>3. ASSUME NEW n \in Nat, Dropped(n)
        PROVE  /\ Moved(from, n) \in [1 .. Len(sent) -> Int]
               /\ Laid(Moved(from, n), Waiting', sent)
    <3>1. /\ n \in 0 .. Len(w) /\ Len(Waiting') = Len(w) - n
          /\ \A i \in 1 .. Len(w) - n : Waiting'[i] = w[n + i]
      BY <2>3 DEF Dropped
    <3> HIDE DEF w, c
    <3> QED
      BY <1>1, <1>5, <3>1, LaidMoves
  <2> HIDE DEF byte, q, f, w, c
  <2>4. CASE c = <<>> /\ byte # StartByte
    <3>1. CollectedIn(q) = <<>> /\ f # 1
      <4>1. CollectedIn(q) = <<>> /\ CompletedIn(q, f) = <<>>
        BY <2>1, <2>2, <2>4, FeedCollects DEF q, f
      <4>2. parser.state # "END"
        <5> SUFFICES ASSUME parser.state = "END" PROVE FALSE
          OBVIOUS
        <5>1. parser \in Parsers /\ LengthIn(parser.header) <= MaxPayload
          BY <2>2 DEF Bounded, InFrame
        <5>2. /\ parser.header \o PacketPayload(parser) \in Seq(Bytes)
              /\ parser.crc \in Seq(Bytes) /\ Len(parser.crc) = 2
          BY <5>1, Parts, Contents
        <5>3. c = (parser.header \o PacketPayload(parser)) \o parser.crc
          BY <2>2 DEF CollectedIn
        <5>4. Len(c) = Len(parser.header \o PacketPayload(parser)) + Len(parser.crc)
              /\ Len(parser.header \o PacketPayload(parser)) \in Nat
          BY <5>2, <5>3, Concat
        <5> QED
          BY <2>4, <5>2, <5>4, EmptySeq
      <4>3. f # 1
        BY <2>1, <2>2, <4>2, FeedReturns DEF f
      <4> QED
        BY <4>1, <4>3
    <3>2. Dropped(1) /\ received' = received /\ parser' \in {Reset(q), q}
      BY <2>1, <3>1
    <3>3. Taken' = <<>>
      <4>1. Bounded(q)
        BY <2>1, <2>2, FeedBounds DEF q
      <4>2. CollectedIn(Reset(q)) = <<>>
        BY <4>1, ResetFits
      <4> QED
        BY <2>2, <3>1, <3>2, <4>2
    <3>4. Len(<<>>) = 0 /\ 0 <= Len(c) + 1
      BY <1>1, EmptySeq
    <3>5. Passed(Moved(from, 1), place, <<>>, sent, received)
      BY <1>1, <1>5, <3>4, PassedMoves
    <3>6. Placed(Moved(from, 1), place, Waiting', <<>>, sent, received)
      BY <1>5, <2>3, <3>2, <3>5 DEF Placed, TakenOf
    <3> QED
      BY <2>1, <3>2, <3>3, <3>6
  <2>5. CASE c # <<>> \/ byte = StartByte
    <3>1. PICK k \in 1 .. Len(sent) :
            /\ from[k] = 1 - Len(c)
            /\ Begins(c, Frame(sent[k])) /\ Len(c) < Len(Frame(sent[k]))
            /\ byte = Frame(sent[k])[Len(c) + 1]
      BY <1>1, <1>3, <1>5, <2>1, <2>2, <2>5, NextOfFrame
    <3> DEFINE pkt == sent[k]
               F == Frame(pkt)
               g == Append(c, byte)
    <3>2. pkt \in Packets /\ Len(F) \in Nat
      BY <1>1, FrameLens
    <3> HIDE DEF pkt, F
    <3>3. /\ Begins(c, F) /\ Len(c) < Len(F) /\ byte = F[Len(c) + 1]
      BY <3>1 DEF pkt, F
    <3>4. /\ g \in Seq(Bytes) /\ Begins(g, F) /\ Len(g) = Len(c) + 1
          /\ \/ Len(c) + 1 < Len(F) /\ f = 0 /\ CollectedIn(q) = g
             \/ Len(c) + 1 = Len(F) /\ f = 1 /\ q.state = "IDLE" /\ Packet(q) = pkt
      <4>1. /\ Begins(CollectedIn(parser), Frame(pkt))
            /\ Len(CollectedIn(parser)) < Len(Frame(pkt))
            /\ byte = Frame(pkt)[Len(CollectedIn(parser)) + 1]
        BY <2>2, <3>3 DEF F
      <4> QED
        BY <2>1, <2>2, <3>2, <4>1, FeedOfFrame DEF F, q, f
    <3> HIDE DEF g
    <3>5. CASE Len(c) + 1 < Len(F) /\ f = 0 /\ CollectedIn(q) = g
      <4>1. Dropped(1) /\ received' = received /\ Taken' = g
        BY <2>1, <2>2, <3>5
      <4>2. Len(g) <= Len(c) + 1 /\ Len(g) \in Nat
        BY <1>1, <3>4
      <4>3. Passed(Moved(from, 1), place, g, sent, received)
        BY <1>1, <1>5, <4>2, PassedMoves
      <4>4. TakenOf(Moved(from, 1), g, sent)
        <5>1. Moved(from, 1)[k] = from[k] - 1
          BY <1>5 DEF Moved
        <5>2. Moved(from, 1)[k] = 1 - Len(g)
          BY <1>1, <3>1, <3>4, <5>1
        <5>3. Begins(g, Frame(sent[k])) /\ Len(g) < Len(Frame(sent[k]))
          BY <3>4, <3>5 DEF F, pkt
        <5> QED
          BY <5>2, <5>3 DEF TakenOf
      <4>5. Placed(Moved(from, 1), place, Waiting', g, sent, received)
        BY <1>5, <2>3, <4>1, <4>3, <4>4 DEF Placed
      <4> QED
        BY <2>1, <4>1, <4>5
    <3>6. CASE Len(c) + 1 = Len(F) /\ f = 1 /\ q.state = "IDLE" /\ Packet(q) = pkt
      <4>1. /\ parser' = q /\ received' = Append(received, sent[k])
            /\ \E n \in Nat \ {0} : Dropped(n)
        BY <2>1, <3>6 DEF pkt
      <4>2. PICK n \in Nat \ {0} : Dropped(n)
        BY <4>1
      <4>3. Taken' = <<>>
        BY <2>2, <3>6, <4>1 DEF CollectedIn
      <4> DEFINE R == [header : Headers, payload : Seq(Bytes)]
                 next == Extended(place, Len(received), k)
      <4>4. sent[k] \in R /\ received \in Seq(R)
        BY <1>1, <3>2, BridgeAssumption DEF pkt
      <4>5. Len(Frame(sent[k])) = Len(c) + 1
        BY <3>6 DEF F, pkt
      <4> HIDE DEF R
      <4>6. /\ next \in [1 .. Len(Append(received, sent[k])) -> 1 .. Len(sent)]
            /\ Passed(Moved(from, n), next, <<>>, sent, Append(received, sent[k]))
        <5>1. from[k] = 1 - Len(c) /\ n \in Nat \ {0} /\ k \in 1 .. Len(sent)
          BY <3>1, <4>2
        <5>2. /\ sent \in Seq(Packets) /\ Len(c) \in Nat
              /\ from \in [1 .. Len(sent) -> Int]
              /\ place \in [1 .. Len(received) -> 1 .. Len(sent)]
              /\ Laid(from, w, sent) /\ Passed(from, place, c, sent, received)
          BY <1>1, <1>5
        <5> QED
          BY <4>4, <4>5, <5>1, <5>2, PassedGrows
      <4> HIDE DEF next
      <4>7. Placed(Moved(from, n), next, Waiting', <<>>, sent, Append(received, sent[k]))
        BY <2>3, <4>2, <4>6 DEF Placed, TakenOf
      <4> QED
        BY <2>1, <4>1, <4>3, <4>7
    <3> QED
      BY <3>4, <3>5, <3>6
  <2> QED
    BY <2>4, <2>5
<1>10. CASE UNCHANGED bridgeVars
  <2>1. Waiting' = w /\ Taken' = c /\ sent' = sent /\ received' = received
    BY <1>10 DEF bridgeVars, Waiting, Taken
  <2> QED
    BY <1>4, <2>1
<1> QED
  BY <1>6, <1>7, <1>8, <1>9, <1>10 DEF BridgeNext

\* However fast the node sends and wherever a call ends, the packets received
\* are some of those sent, each once and in order, as long as start bytes only
\* start packets (uart_bridge_receive, protocol_parser_feed).
THEOREM ReceivedAsSent == BridgeSpec => []ReceivedInOrder
<1>1. BridgeInit => OrderInv
  BY InitTyped, InitInLine DEF OrderInv
<1>2. OrderInv /\ [BridgeNext]_bridgeVars => OrderInv'
  BY NextTyped, NextInLine DEF OrderInv
<1>3. OrderInv => ReceivedInOrder
  <2> SUFFICES ASSUME OrderInv, \A k \in 1 .. Len(sent) : StartFree(sent[k])
               PROVE  IsPartOf(received, sent)
    BY DEF ReceivedInOrder
  <2>1. PICK from \in [1 .. Len(sent) -> Int], place \in [1 .. Len(received) -> 1 .. Len(sent)] :
          Passed(from, place, Taken, sent, received)
    BY DEF OrderInv, InLine, Placed
  <2> DEFINE all == 1 .. Len(sent)
  <2>2. all \in SUBSET (1 .. Len(sent)) /\ place \in [1 .. Len(received) -> all]
    OBVIOUS
  <2>3. /\ \A i, j \in 1 .. Len(received) : i < j => place[i] < place[j]
        /\ \A i \in 1 .. Len(received) : received[i] = sent[place[i]]
    BY <2>1 DEF Passed
  <2> HIDE DEF all
  <2> QED
    BY <2>2, <2>3 DEF IsPartOf
<1> QED
  BY <1>1, <1>2, <1>3, PTL DEF BridgeSpec
=============================================================================
