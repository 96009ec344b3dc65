---------------------------- MODULE MCUartBridge ----------------------------
(***************************************************************************)
(* Small packets on the line: a header of start byte, type and length.     *)
(***************************************************************************)
EXTENDS UartBridge

MCBytes == 0 .. 9

LastByte(header) == header[HeaderLen]

Sum[s \in Seq(Nat)] == IF s = <<>> THEN 0 ELSE Head(s) + Sum[Tail(s)]
SumLow(s) == Sum[s] % 7
SumHigh(s) == (Len(s) + s[Len(s)]) % 7

Pkt(type, payload) == [header |-> <<StartByte, type, Len(payload)>>, payload |-> payload]

Empty == Pkt(1, <<>>)
Plain == Pkt(2, <<4, 5>>)
EndInside == Pkt(3, <<EndByte>>)
StartInside == Pkt(4, <<StartByte, 0>>)

\* A packet that carries another one.
Inner == Serialize(Empty.header, Empty.payload)
Carrier == Pkt(5, Inner)

Ordinary == {Empty, Plain, EndInside, StartInside}
OnlyCarrier == {Carrier}
============================================================================
