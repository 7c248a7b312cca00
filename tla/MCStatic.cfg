SPECIFICATION Spec
CONSTANTS
  NoEntry = NoEntry
  Units <- StaticMember
INVARIANTS VariablesKept
CHECK_DEADLOCK FALSE
