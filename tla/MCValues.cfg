CONSTANTS
  W = 4
  Input <- MCInput
  GoInput <- MCInput
  Functions <- MCFunctions
  Callee <- MCCallee
SPECIFICATION Spec
INVARIANTS
  TypeOK
  NeverRefused
  ValuesAsInGo
  NoSharedArrays
  PanicsAsInGo
  VerdictAsInGo
CHECK_DEADLOCK FALSE
