----------------------------- MODULE UartBridge -----------------------------
(***************************************************************************)
(* The gateway's end of the serial line (uart_bridge.c): the bridge task   *)
(* calls uart_bridge_receive again and again; a call reads the line in     *)
(* blocks and feeds them to a parser of its own until a packet is complete *)
(* or the time is up.                                                      *)
(*                                                                         *)
(* The node sends packets at any pace.  The line itself damages nothing:   *)
(* what is lost here is lost by the bridge.  How much of a frame has       *)
(* arrived when a block is read, and when the time is up, is open.         *)
(***************************************************************************)
EXTENDS FrameParser

CONSTANTS
  Packets,    \* the packets the node sends, as records header, payload
  BlockLen,   \* bytes in the buffer data of uart_bridge_receive (64)
  MaxSent     \* bound on the packets sent

VARIABLES
  line,       \* bytes in the driver's buffer or on their way to it
  block,      \* bytes of data that are not fed yet
  calling,    \* is a call of uart_bridge_receive under way?
  sent,       \* history: the packets the node sent
  received,   \* history: the packets handed to the bridge task
  disturbed   \* history: was a frame sent while another was on its way, or
              \* the time up in the middle of one?

bridgeVars == <<parser, ret, line, block, calling, sent, received, disturbed>>

ASSUME BridgeAssumption ==
  /\ BlockLen \in Nat \ {0}
  /\ MaxSent \in Nat
  /\ \A pkt \in Packets : /\ pkt \in [header : Headers, payload : Seq(Bytes)]
                         /\ CanBuild(pkt.header, pkt.payload)
                         /\ Crc(pkt.header \o pkt.payload) \in Seq(Bytes)

BridgeInit ==
  /\ ParserInit
  /\ line = <<>>
  /\ block = <<>>
  /\ calling = FALSE
  /\ sent = <<>>
  /\ received = <<>>
  /\ disturbed = FALSE

\* Nothing of a frame is on the line, in a block or in the parser.
Quiet == line = <<>> /\ block = <<>> /\ parser.state = "IDLE"

NodeSends(pkt) ==
  /\ Len(sent) < MaxSent
  /\ sent' = Append(sent, pkt)
  /\ line' = line \o Serialize(pkt.header, pkt.payload)
  /\ disturbed' = (disturbed \/ ~Quiet)
  /\ UNCHANGED <<parser, ret, block, calling, received>>

\* uart_bridge_receive: a new parser, on the stack.
Call ==
  /\ ~calling
  /\ calling' = TRUE
  /\ parser' = FreshParser
  /\ ret' = 0
  /\ UNCHANGED <<line, block, sent, received, disturbed>>

\* Slip: a byte is lost between two blocks.
ReadBlock_OneTooMany ==
  /\ calling /\ block = <<>>
  /\ \E n \in 1 .. BlockLen :
       /\ n <= Len(line)
       /\ block' = SubSeq(line, 1, n)
       /\ line' = SubSeq(line, n + 2, Len(line))
  /\ UNCHANGED <<parser, ret, calling, sent, received, disturbed>>

\* uart_read_bytes: what has arrived, at most a block.
ReadBlock ==
  /\ calling /\ block = <<>>
  /\ \E n \in 1 .. BlockLen :
       /\ n <= Len(line)
       /\ block' = SubSeq(line, 1, n)
       /\ line' = SubSeq(line, n + 1, Len(line))
  /\ UNCHANGED <<parser, ret, calling, sent, received, disturbed>>

Packet(p) == [header |-> p.header, payload |-> PacketPayload(p)]

\* Slip: the bytes of the packet are fed to the next call once more.
FeedBlock_Again ==
  /\ calling /\ block # <<>>
  /\ LET fed == Feed(parser, Head(block))
     IN /\ ret' = fed.ret
        /\ \/ /\ fed.ret = 1
              /\ received' = Append(received, Packet(fed.parser))
              /\ calling' = FALSE
              /\ parser' = fed.parser
              /\ block' = Serialize(fed.parser.header, PacketPayload(fed.parser))
           \/ /\ fed.ret # 1
              /\ parser' = IF fed.ret < 0 THEN Reset(fed.parser) ELSE fed.parser
              /\ block' = Tail(block)
              /\ UNCHANGED <<calling, received>>
  /\ UNCHANGED <<line, sent, disturbed>>

\* The next byte of the block.  A complete packet ends the call, and what is
\* left of the block with it; an error resets the parser.
FeedBlock ==
  /\ calling /\ block # <<>>
  /\ LET fed == Feed(parser, Head(block))
     IN /\ ret' = fed.ret
        /\ \/ /\ fed.ret = 1
              /\ received' = Append(received, Packet(fed.parser))
              /\ calling' = FALSE
              /\ parser' = fed.parser
              /\ block' = <<>>
           \/ /\ fed.ret # 1
              /\ parser' = IF fed.ret < 0 THEN Reset(fed.parser) ELSE fed.parser
              /\ block' = Tail(block)
              /\ UNCHANGED <<calling, received>>
  /\ UNCHANGED <<line, sent, disturbed>>

\* The time is up between two blocks; what the parser has is gone.
Timeout ==
  /\ calling /\ block = <<>>
  /\ calling' = FALSE
  /\ ret' = 0
  /\ parser' = FreshParser
  /\ disturbed' = (disturbed \/ parser.state # "IDLE")
  /\ UNCHANGED <<line, block, sent, received>>

BridgeNext ==
  \/ \E pkt \in Packets : NodeSends(pkt)
  \/ Call
  \/ ReadBlock
  \/ FeedBlock
  \/ Timeout

BridgeSpec == BridgeInit /\ [][BridgeNext]_bridgeVars

----------------------------------------------------------------------------
(* Properties *)

\* A node that waits until its packet was taken before it sends the next one,
\* and calls that last long enough for a frame: no packet is lost, none comes
\* twice, and a start or end byte inside a packet does no harm.
QuietLineLosesNothing == ~disturbed /\ Quiet => received = sent

\* pkt has no start byte behind its first byte.
StartFree(pkt) ==
  \A k \in 2 .. Len(Serialize(pkt.header, pkt.payload)) :
    Serialize(pkt.header, pkt.payload)[k] # StartByte

\* r is what is left of s when some of its elements are taken out.
IsPartOf(r, s) ==
  \E kept \in SUBSET (1 .. Len(s)) :
    \E place \in [1 .. Len(r) -> kept] :
      /\ \A i, j \in 1 .. Len(r) : i < j => place[i] < place[j]
      /\ \A i \in 1 .. Len(r) : r[i] = s[place[i]]

\* However fast the node sends and whenever the time is up, the bridge loses
\* packets but repeats, reorders and invents none, as long as start bytes only
\* start packets.
ReceivedInOrder ==
  (\A k \in 1 .. Len(sent) : StartFree(sent[k])) => IsPartOf(received, sent)

----------------------------------------------------------------------------
(* What the documentation says, and the code does not do *)

\* docs/technical/system_overview.md: the frame bytes inside a payload are
\* escaped.  A packet the bridge hands out was then one that the node sent.
OnlySentReceived ==
  \A k \in 1 .. Len(received) : \E l \in 1 .. Len(sent) : received[k] = sent[l]
============================================================================
