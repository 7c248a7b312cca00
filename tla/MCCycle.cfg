SPECIFICATION Spec
CONSTANTS
  Inputs = {1}
  Offsets = {0, 1, 2, 3}
  Programs <- Cycle
  DebugBuild = FALSE
  Modulus = 65536
  PointerSize = 8
  NoInfo = NoInfo
INVARIANT LinksAgree
