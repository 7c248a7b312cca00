SPECIFICATION FairSpec
CONSTANTS
  NoEntry = NoEntry
  Units <- MCUnitSet
INVARIANTS EntriesKept Qualified VariablesResolved ParametersMerged
PROPERTIES Ends
CHECK_DEADLOCK FALSE
