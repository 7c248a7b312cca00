SPECIFICATION FairSpec
CONSTANTS
  Inputs = {1}
  Offsets = {0, 1, 2, 3}
  Programs <- MCPrograms
  DebugBuild = TRUE
  Modulus = 65536
  PointerSize = 8
  NoInfo = NoInfo
INVARIANTS TypeOK CompilesInOrder
PROPERTIES MemoStable WalksOnce Termination
