CONSTANTS
  Keys = {a, b, c}
  Weights = {0, 1, 2, 4}
  U64_MAX = 7
  MaxTotal = 3
  MaxSignatures = 7
SPECIFICATION Spec
SYMMETRY Symmetry
INVARIANTS SetInForce VerdictExact GivingUpTakesJunk
CHECK_DEADLOCK FALSE
