\* Progress of a session whose peer keeps going, and the NACKs it outlives.
SPECIFICATION HistoryFairSpec
CONSTANTS
  a = a
  b = b
  ff = ff
  zz = zz
  Erased = ff
  Zero = zz
  Values <- MCValues
  FlashCells = 8
  PageCells = 2
  FlashFaults = FALSE
  Firmwares <- ToDeliver
  Keys = {k1}
  Nonces <- MCNonces
  NoKey = NoKey
  ZeroNonce = ZeroNonce
  NoManifest = NoManifest
  SecurityCounter = 1
  InactiveSlot = 2
  HashLanes = 2
  RetryMod = 4
  Strays = {0}
  InitialFlash <- MCInitialFlash
INVARIANTS
  NackBudget
PROPERTIES
  SessionProgress
