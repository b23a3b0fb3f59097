SPECIFICATION Spec
CONSTANTS
  Array <- MCArray
  TagValue = 0
  MethodRef <- CrowdedMethodRef
  Consumers <- MCConsumers
  Askable <- MCAskable
  Answers <- MCAnswers
  Compiled <- Compilation
  Programs <- FillerPrograms
INVARIANTS
  NeverRefused
CHECK_DEADLOCK FALSE
