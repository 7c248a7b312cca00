SPECIFICATION LocationSpec
CONSTANTS
  Operations <- SumOperations
  MaxOperations = 4
  MaxExpressions = 1
  Frames <- MCFrames
  Word = 8
INVARIANT PiecesWhereTheyAre
CHECK_DEADLOCK FALSE
