SPECIFICATION Spec
CONSTANTS
  Array <- MCArray
  TagValue = 0
  MethodRef <- MCMethodRef
  Consumers <- MCConsumers
  Askable <- MCAskable
  Answers <- MCAnswers
  Compiled <- Compilation
  Programs <- MCPrograms
INVARIANTS
  TypeOK
  NeverRefused
  SameBehaviour
  RejectsOnlyIllegal
  AcceptsOnlyLegal
PROPERTIES
  Progress
CHECK_DEADLOCK FALSE
