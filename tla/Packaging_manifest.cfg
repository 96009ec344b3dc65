\* A package and the manifest of the same firmware.
SPECIFICATION PackSpec
CONSTANTS
  Threads = {t1, t2}
  Firmwares <- MCOneFirmware
  ChunkSizes <- MCChunkSizes
  Keys = {k1, k2}
  TagSize = 1
  HeaderSize = 2
  MaxU16 = 3
  MaxDraws = 2
INVARIANT
  SealedForManifest
