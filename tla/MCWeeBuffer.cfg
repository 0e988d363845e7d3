SPECIFICATION Spec
CONSTANTS
  Group = 3
  Width = 8
  U32Bytes = 2
  MaxBytes = 4
  Buffers <- MCBuffers
INVARIANT RoundTrip
PROPERTIES ReadsTheGrammar StopsAtEnd
