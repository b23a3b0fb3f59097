CONSTANTS
  None = None
  MaxRuns = 2
  MaxPieces = 5
  LongestString = 1
SPECIFICATION Spec
INVARIANTS
  TypeOK
  TokensAsInGo
  RejectsOnlyIllegal
  AcceptsOnlyLegal
  WholeClassFile
PROPERTIES
  KeepsClassFile
  Terminates
CHECK_DEADLOCK FALSE
