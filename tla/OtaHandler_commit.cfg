\* The commit does not ask for the result of the verification.
SPECIFICATION Spec
CONSTANTS
  a = a
  b = b
  ff = ff
  zz = zz
  Erased = ff
  Zero = zz
  Values <- MCValues
  FlashCells = 8
  PageCells = 2
  FlashFaults = FALSE
  Firmwares <- OnlyOtherHash
  Keys = {k1, k2}
  Nonces <- MCNonces
  NoKey = NoKey
  ZeroNonce = ZeroNonce
  NoManifest = NoManifest
  SecurityCounter = 1
  InactiveSlot = 2
  HashLanes = 2
  RetryMod = 4
  Strays = {7}
  InitialFlash <- MCInitialFlash
PROPERTIES
  CommitOnlyVerified
