SPECIFICATION Spec
CONSTANTS
  Width = 4
  ExtSizes = {1, 2, 3}
  Doubles <- ConvertibleDoubles
  Trap = Trap
  SigFpe = SigFpe
  None = None
INVARIANTS NeverFaults DivisionsExact WordsMatch ConversionsExact
CHECK_DEADLOCK FALSE
