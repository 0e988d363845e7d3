SPECIFICATION Spec
CONSTANTS
  Group = 3
  Width = 8
  F64Bytes = 2
  Files <- IllegalFiles
  OldOutputs <- NewOutput
INVARIANT IllegalBytecodesRefused
