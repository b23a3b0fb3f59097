SPECIFICATION Spec
CONSTANTS
  NoType = NoType
  None = None
  Packages <- MCPackages
  Hashes <- MCHashes
  Strings <- MCStrings
  Numbers <- MCNumbers
INVARIANTS
  FloatFields
CHECK_DEADLOCK FALSE
