\* Any bytes, and a caller that resets the parser or does not.
SPECIFICATION ReceiverSpec
CONSTANTS
  Bytes <- MCBytes
  StartByte = 2
  EndByte = 3
  ZeroByte = 0
  HeaderLen = 3
  MaxPayload = 2
  LengthIn <- LastByte
  CrcLow <- SumLow
  CrcHigh <- SumHigh
  NoByte = NoByte
INVARIANTS
  ParserTypeOK
  IndexInBuffer
PROPERTIES
  ImplementsCollector
