SPECIFICATION Spec
CONSTANTS
  s1 = s1
  s2 = s2
  i1 = i1
  posZero = posZero
  negZero = negZero
  nan = nan
  None = None
  Strings <- MCStrings
  Ints <- MCInts
  Floats <- MCFloats
  FloatEq <- MCFloatEq
  MaxPool = 5
INVARIANTS
  TypeOK
  PoolResolves
  PoolUnique
  AnswerDenotes
PROPERTIES
  IndicesStable
  ImplementsInterner
CHECK_DEADLOCK FALSE
