SPECIFICATION RequestsSpec
CONSTANTS
  Operations <- SimpleOperations
  MaxOperations = 4
  MaxExpressions = 2
  Frames <- MCFrames
  Word = 8
  Trees <- MCTrees
  MaxCalls = 13
  NoDie = 0
  FrameInputs <- MCInputs
  Alignment = 4
  SymbolFiles <- SymbolInputs
  Absent = Absent
INVARIANTS
  StackFollows PiecesWhereTheyAre WholeStandsAlone
  EntriesMerged AllOrNothing OverflowsOnlyOnCycles
  FindsTheDescription RulesKept
  SymbolsAccountedFor NamedByTable UnknownExhausted
PROPERTIES OriginsReached Answered
CHECK_DEADLOCK FALSE
