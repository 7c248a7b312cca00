SPECIFICATION SymbolsSpec
CONSTANTS
  Alignment = 4
  SymbolFiles <- Hole
  Absent = Absent
INVARIANT UnknownIsUnknown
CHECK_DEADLOCK FALSE
