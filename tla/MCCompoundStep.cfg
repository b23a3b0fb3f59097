SPECIFICATION Spec
CONSTANTS
  Array <- MCArray
  TagValue = 0
  MethodRef <- MCMethodRef
  Consumers <- MCConsumers
  Askable <- MCAskable
  Answers <- MCAnswers
  Compiled <- Compilation
  Programs <- CompoundStepPrograms
INVARIANTS
  SameBehaviour
CHECK_DEADLOCK FALSE
