SPECIFICATION FairSpec
CONSTANTS
  Inputs = {1}
  Offsets = {0, 1, 2, 3, 4, 5}
  Programs <- MCPrograms
  DebugBuild = TRUE
  Modulus = 65536
  PointerSize = 8
  NoInfo = NoInfo
INVARIANTS SameLayout AssertsHold NoPanic
