\* A device provisioned to start from slot B.
SPECIFICATION DeviceSpec
CONSTANTS
  a = a
  b = b
  ff = ff
  zz = zz
  Erased = ff
  Zero = zz
  Values <- MCValues
  FlashCells = 10
  PageCells = 2
  FlashFaults = FALSE
  Firmwares <- OnlyThreeChunks
  Keys = {k1}
  Nonces <- MCNonces
  NoKey = NoKey
  ZeroNonce = ZeroNonce
  NoManifest = NoManifest
  SecurityCounter = 1
  InactiveSlot = 4
  HashLanes = 2
  RetryMod = 4
  Strays = {7}
  InitialFlash <- ActiveB
  SlotA = 2
  SlotB = 4
  InRam <- StackTop
  StoresFault = FALSE
  ReadMetadata <- MCReadMetadata
INVARIANTS
  GivesUpLast
