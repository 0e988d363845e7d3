SPECIFICATION Spec
CONSTANTS
  Modules <- MCExactModules
  Value <- MCValue
  Unary <- MCUnary
  Binary <- MCBinary
  Trap = Trap
  Sentinel = Sentinel
  OP_STACK_MAX = 14
  CALL_STACK_MAX = 2
  Modulus = 3
  MaxBody = 6
INVARIANT LoadedIsValid
PROPERTY ImplementsWasm
