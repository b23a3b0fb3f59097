SPECIFICATION Spec
CONSTANTS
  NoType = NoType
  None = None
  Packages <- MCPackages
  Hashes <- MCHashes
  Strings <- MCStrings
  Numbers <- MCNumbers
INVARIANTS
  TypeOK
  PoolSound
  AcceptsOnlyLegal
  AcceptsIndependent
  ReferencesResolve
  NeverRefused
  WrittenBeforeRead
  ValuesAsInGo
CHECK_DEADLOCK FALSE
