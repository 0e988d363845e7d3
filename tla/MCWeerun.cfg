SPECIFICATION Spec
CONSTANTS
  Programs <- MCAllPrograms
  Value <- MCValue
  Unary <- MCUnary
  Binary <- MCBinary
  Trap = Trap
  Sentinel = Sentinel
  OP_STACK_MAX = 8
  CALL_STACK_MAX = 2
  Modulus = 3
  MaxBody = 6
INVARIANTS TypeOK ControlInBody FramesNested OperandsSuffice HeightsExact
PROPERTIES CallersUntouched Terminates
