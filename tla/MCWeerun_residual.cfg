SPECIFICATION Spec
CONSTANTS
  Programs <- MCResidual
  Value <- MCValue
  Unary <- MCUnary
  Binary <- MCBinary
  Trap = Trap
  Sentinel = Sentinel
  OP_STACK_MAX = 8
  CALL_STACK_MAX = 2
  Modulus = 3
  MaxBody = 5
INVARIANT ResidualResult
