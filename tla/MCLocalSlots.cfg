CONSTANTS
  Names = {"x", "y"}
  Fields <- MCFields
  Literals <- MCLiterals
  Types <- MCTypes
  ParameterLists <- MCParameterLists
  SlotLimit = 3
  MaxStatements = 4
  PairValues <- MCPairValues
SPECIFICATION Spec
INVARIANTS
  TypeOK
  LocalsFit
  NoSharedSlot
  NeverRefused
  ReadsAsInGo
  AcceptsOnlyLegal
  RejectsOnlyIllegal
CHECK_DEADLOCK FALSE
