\* The handler under every packet, fault and reset, and its cryptographic port.
SPECIFICATION NodeSpec
CONSTANTS
  a = a
  b = b
  ff = ff
  zz = zz
  Erased = ff
  Zero = zz
  Values <- MCValues
  FlashCells = 8
  PageCells = 2
  FlashFaults = TRUE
  Firmwares <- AllFirmwares
  Keys = {k1, k2}
  Nonces <- MCNonces
  NoKey = NoKey
  ZeroNonce = ZeroNonce
  NoManifest = NoManifest
  SecurityCounter = 1
  InactiveSlot = 2
  HashLanes = 2
  RetryMod = 4
  Strays = {0}
  InitialFlash <- MCInitialFlash
  WordBytes = 2
  ByteBits = 2
  IV <- MCIV
  LenMod = 12
  AeadKeys <- MCKeys
  AeadNonces <- MCAeadNonces
  AssociatedData <- MCAssociatedData
  Plaintexts <- MCPlaintexts
  ChunkCount = 2
SYMMETRY MCSymmetry
INVARIANTS
  TypeOK
  SlotHoldsOnlyImage
  CountIsExact
  StagedImageComplete
  VerdictIsImageHash
  OpensAsSealed
  OpensOnlySealed
  FollowsTheMode
PROPERTIES
  RunningSlotUntouched
  SessionBinding
  ImplementsStaging
