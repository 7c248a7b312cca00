SPECIFICATION FairSpec
CONSTANTS
  Inputs = {1}
  Offsets = {0, 1, 2, 3, 4}
  Programs <- MCPrograms
  DebugBuild = FALSE
  Modulus = 65536
  PointerSize = 8
  NoInfo = NoInfo
INVARIANTS NoReentry CompilesInOrder UniqueIdents
PROPERTIES WalksOnce Termination
