SPECIFICATION ProgramSpec
CONSTANTS
  Inputs = {1, 2}
  Offsets = {0, 1, 2, 3, 4, 5}
  Programs = {}
  Files <- MCFileSet
  Queries <- MCQueries
  DebugBuild = FALSE
  Modulus = 65536
  PointerSize = 8
  NoInfo = NoInfo
INVARIANTS IndexComplete DestsComplete DeclarationsResolved SameLayout NoPanic
PROPERTIES EndsEventually
