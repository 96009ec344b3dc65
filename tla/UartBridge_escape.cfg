\* Packets whose payload holds the bytes of a frame.
SPECIFICATION BridgeSpec
CONSTANTS
  Bytes <- MCBytes
  StartByte = 8
  EndByte = 9
  ZeroByte = 0
  HeaderLen = 3
  MaxPayload = 6
  LengthIn <- LastByte
  CrcLow <- SumLow
  CrcHigh <- SumHigh
  Packets <- OnlyCarrier
  BlockLen = 5
  MaxSent = 2
INVARIANTS
  OnlySentReceived
