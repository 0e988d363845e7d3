SPECIFICATION Spec
CONSTANTS
  Group = 3
  Width = 8
  F64Bytes = 2
  Files <- MCFiles
  OldOutputs <- AnyOutput
INVARIANTS TypeOK OutputIsPadded RefusesRightly
PROPERTIES PatchesOnlyLengths Terminates
