\* Two packaging threads, manifests, failures and restarts.
SPECIFICATION PackSpec
CONSTANTS
  Threads = {t1, t2}
  Firmwares <- MCFirmwares
  ChunkSizes <- MCChunkSizes
  Keys = {k1, k2}
  TagSize = 1
  HeaderSize = 2
  MaxU16 = 3
  MaxDraws = 3
SYMMETRY MCSymmetry
INVARIANTS
  PackTypeOK
  PackageReadsBack
  NonceNeverReused
  SizesAgree
