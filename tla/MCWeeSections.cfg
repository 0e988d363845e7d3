SPECIFICATION Spec
CONSTANTS
  Files <- AllFiles
  Junk = Junk
INVARIANTS LoadsModule NothingMisread NeverHangs
CHECK_DEADLOCK FALSE
