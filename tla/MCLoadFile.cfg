SPECIFICATION LoadSpec
CONSTANTS
  Sizes <- MCSizes
  MAX_FILE_SIZE = 8
  Rewritten = TRUE
  Unread = Unread
INVARIANT WholeOrFailed
PROPERTY Returns
CHECK_DEADLOCK FALSE
