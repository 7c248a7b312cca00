------------------------------- MODULE MCUnits ------------------------------
(***************************************************************************)
(* All the small units: functions, variables, and every kind of entry.     *)
(***************************************************************************)
EXTENDS MCFunctions, MCVariables, MCEntries

MCUnitSet == FunctionUnits \union VariableUnits \union EntryUnits

ASSUME PlacedAssumption == \A u \in MCUnitSet : WellPlaced(u)
=============================================================================
