SPECIFICATION Spec
CONSTANTS
  PageSize = 4
  ByteMod = 2
  U32 = 16
  Modules <- MCModules
  Fresh <- ZeroBytes
  Accesses <- MCAccesses
  Lookups <- MCLookups
  Null = Null
  DeadBeef = DeadBeef
INVARIANTS TypeOK AccessInside
PROPERTY ImplementsWasm
CHECK_DEADLOCK FALSE
