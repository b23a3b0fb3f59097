SPECIFICATION Spec
CONSTANTS
  NoType = NoType
  None = None
  Packages <- MCPackages
  Hashes <- MCHashes
  Strings <- MCStrings
  Numbers <- MCNumbers
INVARIANTS
  InitialisedInOrder
CHECK_DEADLOCK FALSE
