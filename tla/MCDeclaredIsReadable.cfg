CONSTANTS
  Names = {"x", "y"}
  Fields <- MCFields
  Literals <- MCLiterals
  Types <- MCTypes
  ParameterLists <- MCParameterLists
  SlotLimit = 3
  MaxStatements = 2
  PairValues <- MCPairValues
SPECIFICATION Spec
INVARIANTS
  DeclaredIsReadable
CHECK_DEADLOCK FALSE
