\* Packets at any pace, blocks and timeouts anywhere.
SPECIFICATION BridgeSpec
CONSTANTS
  Bytes <- MCBytes
  StartByte = 8
  EndByte = 9
  ZeroByte = 0
  HeaderLen = 3
  MaxPayload = 2
  LengthIn <- LastByte
  CrcLow <- SumLow
  CrcHigh <- SumHigh
  Packets <- Ordinary
  BlockLen = 5
  MaxSent = 3
INVARIANTS
  QuietLineLosesNothing
  ReceivedInOrder
