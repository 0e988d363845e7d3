--------------------------- MODULE WeeWasm_proofs ---------------------------
(***************************************************************************)
(* The loader and the interpreter fit together, for modules of any size.   *)
(*                                                                         *)
(* What the loader leaves (Weedis_proofs) is the module with its labels    *)
(* replaced, which is what the interpreter's proofs (Weerun_proofs) take   *)
(* for granted.  Both are used as they are, as instances of the modules    *)
(* with the theorems: LP is the Loader and RP the Loop of WeeWasm.         *)
(***************************************************************************)
EXTENDS WeeWasm, SequenceTheorems, TLAPS

LP == INSTANCE Weedis_proofs WITH phase <- ld_phase, Images <- {m.code : m \in Modules}

RP == INSTANCE Weerun_proofs WITH Programs <- {Linked(m) : m \in Modules}

-----------------------------------------------------------------------------
(***************************************************************************)
(* LP and Loader have the same definitions.                                *)
(***************************************************************************)
LEMMA SameBodyOK == ASSUME NEW c, NEW s, NEW e PROVE LP!BodyOK(c, s, e) <=> Loader!BodyOK(c, s, e)
BY SMTT(60) DEF LP!BodyOK, Loader!BodyOK, LP!InstrStarts, Loader!InstrStarts, LP!NextInstr,
   Loader!NextInstr, LP!WASM_OP_BR_TABLE, Loader!WASM_OP_BR_TABLE, LP!Nesting, Loader!Nesting,
   LP!LabelSlots, Loader!LabelSlots, LP!Immediates, Loader!Immediates, LP!Cardinality,
   Loader!Cardinality, LP!Opens, Loader!Opens, LP!Closes, Loader!Closes, LP!WASM_OP_BR,
   Loader!WASM_OP_BR, LP!WASM_OP_BR_IF, Loader!WASM_OP_BR_IF, LP!BlockOps, Loader!BlockOps,
   LP!LocalOps, Loader!LocalOps, LP!GlobalOps, Loader!GlobalOps, LP!ConstOps, Loader!ConstOps,
   LP!WASM_OP_CALL, Loader!WASM_OP_CALL, LP!LoadOps, Loader!LoadOps, LP!StoreOps,
   Loader!StoreOps, LP!WASM_OP_CALL_INDIRECT, Loader!WASM_OP_CALL_INDIRECT, LP!WASM_OP_END,
   Loader!WASM_OP_END, LP!WASM_OP_BLOCK, Loader!WASM_OP_BLOCK, LP!WASM_OP_LOOP,
   Loader!WASM_OP_LOOP, LP!WASM_OP_LOCAL_GET, Loader!WASM_OP_LOCAL_GET, LP!WASM_OP_LOCAL_SET,
   Loader!WASM_OP_LOCAL_SET, LP!WASM_OP_LOCAL_TEE, Loader!WASM_OP_LOCAL_TEE,
   LP!WASM_OP_GLOBAL_GET, Loader!WASM_OP_GLOBAL_GET, LP!WASM_OP_GLOBAL_SET,
   Loader!WASM_OP_GLOBAL_SET, LP!WASM_OP_I32_CONST, Loader!WASM_OP_I32_CONST,
   LP!WASM_OP_F64_CONST, Loader!WASM_OP_F64_CONST

LEMMA SameTargets == ASSUME NEW c, NEW s, NEW e PROVE LP!Targets(c, s, e) = Loader!Targets(c, s, e)
BY ZenonT(60) DEF LP!Targets, Loader!Targets, LP!InstrStarts, Loader!InstrStarts, LP!LabelSlots,
   Loader!LabelSlots, LP!LabelTarget, Loader!LabelTarget, LP!NextInstr, Loader!NextInstr,
   LP!WASM_OP_BR, Loader!WASM_OP_BR, LP!WASM_OP_BR_IF, Loader!WASM_OP_BR_IF,
   LP!WASM_OP_BR_TABLE, Loader!WASM_OP_BR_TABLE, LP!Enclosing, Loader!Enclosing,
   LP!Cardinality, Loader!Cardinality, LP!WASM_OP_LOOP, Loader!WASM_OP_LOOP, LP!MatchingEnd,
   Loader!MatchingEnd, LP!Immediates, Loader!Immediates, LP!Opens, Loader!Opens, LP!Closes,
   Loader!Closes, LP!BlockOps, Loader!BlockOps, LP!LocalOps, Loader!LocalOps, LP!GlobalOps,
   Loader!GlobalOps, LP!ConstOps, Loader!ConstOps, LP!WASM_OP_CALL, Loader!WASM_OP_CALL,
   LP!LoadOps, Loader!LoadOps, LP!StoreOps, Loader!StoreOps, LP!WASM_OP_CALL_INDIRECT,
   Loader!WASM_OP_CALL_INDIRECT, LP!WASM_OP_END, Loader!WASM_OP_END, LP!WASM_OP_BLOCK,
   Loader!WASM_OP_BLOCK, LP!WASM_OP_LOCAL_GET, Loader!WASM_OP_LOCAL_GET, LP!WASM_OP_LOCAL_SET,
   Loader!WASM_OP_LOCAL_SET, LP!WASM_OP_LOCAL_TEE, Loader!WASM_OP_LOCAL_TEE,
   LP!WASM_OP_GLOBAL_GET, Loader!WASM_OP_GLOBAL_GET, LP!WASM_OP_GLOBAL_SET,
   Loader!WASM_OP_GLOBAL_SET, LP!WASM_OP_I32_CONST, Loader!WASM_OP_I32_CONST,
   LP!WASM_OP_F64_CONST, Loader!WASM_OP_F64_CONST

LEMMA SameHeaders == ASSUME NEW c PROVE LP!Headers(c) = Loader!Headers(c)
<1> DEFINE P(s) == CHOOSE e \in 1..(Len(c) + 1) : LP!BodyOK(c, s, e)
           Q(s) == CHOOSE e \in 1..(Len(c) + 1) : Loader!BodyOK(c, s, e)
           A(at) == at = [k \in 0..c[1] |->
                            IF k = 0 THEN 2 ELSE P(at[k - 1] + 1 + 1 + 2 * c[at[k - 1] + 1])]
           B(at) == at = [k \in 0..c[1] |->
                            IF k = 0 THEN 2 ELSE Q(at[k - 1] + 1 + 1 + 2 * c[at[k - 1] + 1])]
<1>1. \A s : P(s) = Q(s)
  <2> TAKE s
  <2> DEFINE X(e) == e \in 1..(Len(c) + 1) /\ LP!BodyOK(c, s, e)
             Y(e) == e \in 1..(Len(c) + 1) /\ Loader!BodyOK(c, s, e)
  <2>1. \A e : X(e) <=> Y(e)
    BY SameBodyOK
  <2>2. (CHOOSE e : X(e)) = (CHOOSE e : Y(e))
    <3> HIDE DEF X, Y
    <3> QED
      BY <2>1, Zenon
  <2> QED
    BY <2>2
<1>2. LP!Headers(c) = CHOOSE at : A(at)
  BY DEF LP!Headers, LP!LocalsEnd
<1>3. Loader!Headers(c) = CHOOSE at : B(at)
  BY DEF Loader!Headers, Loader!LocalsEnd
<1> HIDE DEF P, Q
<1>4. \A at : A(at) <=> B(at)
  BY <1>1
<1>5. (CHOOSE at : A(at)) = (CHOOSE at : B(at))
  <2> HIDE DEF A, B
  <2> QED
    BY <1>4, Zenon
<1> QED
  BY <1>2, <1>3, <1>5

LEMMA SameWellFormed == ASSUME NEW c PROVE LP!WellFormed(c) <=> Loader!WellFormed(c)
BY SameHeaders, SameBodyOK DEF LP!WellFormed, Loader!WellFormed, LP!LocalsEnd, Loader!LocalsEnd

LEMMA SameBodies ==
  ASSUME NEW c, NEW k
  PROVE  /\ LP!CodeStart(c, k) = Loader!CodeStart(c, k)
         /\ LP!CodeEnd(c, k) = Loader!CodeEnd(c, k)
         /\ LP!LocalsOf(c, k) = Loader!LocalsOf(c, k)
         /\ LP!BodyTargets(c, k) = Loader!BodyTargets(c, k)
<1>1. LP!CodeStart(c, k) = Loader!CodeStart(c, k) /\ LP!CodeEnd(c, k) = Loader!CodeEnd(c, k)
  BY SameHeaders DEF LP!CodeStart, Loader!CodeStart, LP!CodeEnd, Loader!CodeEnd, LP!LocalsEnd,
     Loader!LocalsEnd
<1>2. \A p : LP!DeclaredLocals(c, p) = Loader!DeclaredLocals(c, p)
  BY DEF LP!DeclaredLocals, Loader!DeclaredLocals
<1> QED
  BY <1>1, <1>2, SameHeaders, SameTargets
     DEF LP!LocalsOf, Loader!LocalsOf, LP!BodyTargets, Loader!BodyTargets

LEMMA SameParse == Loader!Step <=> LP!Step
<1>1. Loader!StartSection <=> LP!StartSection
  BY DEF LP!StartSection, Loader!StartSection
<1>2. Loader!StartBody <=> LP!StartBody
  BY DEF LP!StartBody, Loader!StartBody, LP!LocalsEnd, Loader!LocalsEnd, LP!Set, Loader!Set,
     LP!EnterExpr, Loader!EnterExpr, LP!DeclaredLocals, Loader!DeclaredLocals, LP!StartBlock,
     Loader!StartBlock, LP!WASM_OP_BLOCK, Loader!WASM_OP_BLOCK, LP!BlockAt, Loader!BlockAt,
     LP!NoBlock, Loader!NoBlock
<1>3. Loader!DecodeBlock <=> LP!DecodeBlock
  BY DEF LP!DecodeBlock, Loader!DecodeBlock, LP!Decode, Loader!Decode, LP!BlockOps,
     Loader!BlockOps, LP!StartBlock, Loader!StartBlock, LP!Set, Loader!Set, LP!sectionVars,
     Loader!sectionVars, LP!WASM_OP_BLOCK, Loader!WASM_OP_BLOCK, LP!WASM_OP_LOOP,
     Loader!WASM_OP_LOOP, LP!BlockAt, Loader!BlockAt, LP!NoBlock, Loader!NoBlock
<1>4. Loader!DecodeEnd <=> LP!DecodeEnd
  BY DEF LP!DecodeEnd, Loader!DecodeEnd, LP!Decode, Loader!Decode, LP!WASM_OP_END,
     Loader!WASM_OP_END, LP!Set, Loader!Set, LP!BlockAt, Loader!BlockAt, LP!sectionVars,
     Loader!sectionVars, LP!NoBlock, Loader!NoBlock
<1>5. Loader!DecodeBr <=> LP!DecodeBr
  BY DEF LP!DecodeBr, Loader!DecodeBr, LP!Decode, Loader!Decode, LP!WASM_OP_BR,
     Loader!WASM_OP_BR, LP!WASM_OP_BR_IF, Loader!WASM_OP_BR_IF, LP!ReplaceOffsets,
     Loader!ReplaceOffsets, LP!sectionVars, Loader!sectionVars, LP!Target, Loader!Target,
     LP!BlockAt, Loader!BlockAt, LP!WASM_OP_LOOP, Loader!WASM_OP_LOOP, LP!NoBlock,
     Loader!NoBlock
<1>6. Loader!DecodeBrTable <=> LP!DecodeBrTable
  BY DEF LP!DecodeBrTable, Loader!DecodeBrTable, LP!Decode, Loader!Decode, LP!WASM_OP_BR_TABLE,
     Loader!WASM_OP_BR_TABLE, LP!ReplaceOffsets, Loader!ReplaceOffsets, LP!sectionVars,
     Loader!sectionVars, LP!Target, Loader!Target, LP!BlockAt, Loader!BlockAt, LP!WASM_OP_LOOP,
     Loader!WASM_OP_LOOP, LP!NoBlock, Loader!NoBlock
<1>7. Loader!DecodeOther <=> LP!DecodeOther
  BY DEF LP!DecodeOther, Loader!DecodeOther, LP!BlockOps, Loader!BlockOps, LP!WASM_OP_END,
     Loader!WASM_OP_END, LP!WASM_OP_BR, Loader!WASM_OP_BR, LP!WASM_OP_BR_IF,
     Loader!WASM_OP_BR_IF, LP!WASM_OP_BR_TABLE, Loader!WASM_OP_BR_TABLE, LP!NextInstr,
     Loader!NextInstr, LP!sectionVars, Loader!sectionVars, LP!WASM_OP_BLOCK,
     Loader!WASM_OP_BLOCK, LP!WASM_OP_LOOP, Loader!WASM_OP_LOOP, LP!Immediates,
     Loader!Immediates, LP!LocalOps, Loader!LocalOps, LP!GlobalOps, Loader!GlobalOps,
     LP!ConstOps, Loader!ConstOps, LP!WASM_OP_CALL, Loader!WASM_OP_CALL, LP!LoadOps,
     Loader!LoadOps, LP!StoreOps, Loader!StoreOps, LP!WASM_OP_CALL_INDIRECT,
     Loader!WASM_OP_CALL_INDIRECT, LP!WASM_OP_LOCAL_GET, Loader!WASM_OP_LOCAL_GET,
     LP!WASM_OP_LOCAL_SET, Loader!WASM_OP_LOCAL_SET, LP!WASM_OP_LOCAL_TEE,
     Loader!WASM_OP_LOCAL_TEE, LP!WASM_OP_GLOBAL_GET, Loader!WASM_OP_GLOBAL_GET,
     LP!WASM_OP_GLOBAL_SET, Loader!WASM_OP_GLOBAL_SET, LP!WASM_OP_I32_CONST,
     Loader!WASM_OP_I32_CONST, LP!WASM_OP_F64_CONST, Loader!WASM_OP_F64_CONST
<1>8. Loader!ReplacePass <=> LP!ReplacePass
  BY DEF LP!ReplacePass, Loader!ReplacePass, LP!Set, Loader!Set, LP!EnterExpr,
     Loader!EnterExpr, LP!StartBlock, Loader!StartBlock, LP!WASM_OP_BLOCK,
     Loader!WASM_OP_BLOCK, LP!BlockAt, Loader!BlockAt, LP!NoBlock, Loader!NoBlock
<1>9. Loader!NextBody <=> LP!NextBody
  BY DEF LP!NextBody, Loader!NextBody
<1> QED
  BY <1>1, <1>2, <1>3, <1>4, <1>5, <1>6, <1>7, <1>8, <1>9
     DEF LP!Step, Loader!Step

-----------------------------------------------------------------------------
(***************************************************************************)
(* RP and Loop have the same definitions.                                  *)
(***************************************************************************)
LEMMA SameValid == ASSUME NEW m PROVE RP!Valid(m, Value) <=> Valid(m, Value)
BY DEF RP!Valid, Valid, RP!FuncValid, FuncValid, RP!Opcodes, Opcodes, RP!InstrValid,
   InstrValid, RP!WASM_OP_UNREACHABLE, WASM_OP_UNREACHABLE, RP!WASM_OP_NOP, WASM_OP_NOP,
   RP!WASM_OP_END, WASM_OP_END, RP!WASM_OP_BR, WASM_OP_BR, RP!WASM_OP_BR_IF, WASM_OP_BR_IF,
   RP!WASM_OP_BR_TABLE, WASM_OP_BR_TABLE, RP!WASM_OP_RETURN, WASM_OP_RETURN, RP!WASM_OP_CALL,
   WASM_OP_CALL, RP!WASM_OP_CALL_INDIRECT, WASM_OP_CALL_INDIRECT, RP!WASM_OP_DROP,
   WASM_OP_DROP, RP!WASM_OP_SELECT, WASM_OP_SELECT, RP!BlockOps, BlockOps, RP!LocalOps,
   LocalOps, RP!GlobalOps, GlobalOps, RP!ConstOps, ConstOps, RP!LoadOps, LoadOps, RP!StoreOps,
   StoreOps, RP!UnaryOps, UnaryOps, RP!BinaryOps, BinaryOps, RP!Effect, Effect, RP!MayGo,
   MayGo, RP!OffsetTarget, OffsetTarget, RP!MayCall, MayCall, RP!Slots, Slots,
   RP!WASM_OP_LOCAL_GET, WASM_OP_LOCAL_GET, RP!WASM_OP_LOCAL_SET, WASM_OP_LOCAL_SET,
   RP!WASM_OP_LOCAL_TEE, WASM_OP_LOCAL_TEE, RP!WASM_OP_GLOBAL_GET, WASM_OP_GLOBAL_GET,
   RP!WASM_OP_GLOBAL_SET, WASM_OP_GLOBAL_SET, RP!WASM_OP_BLOCK, WASM_OP_BLOCK, RP!WASM_OP_LOOP,
   WASM_OP_LOOP, RP!WASM_OP_I32_CONST, WASM_OP_I32_CONST, RP!WASM_OP_F64_CONST,
   WASM_OP_F64_CONST, RP!WASM_OP_I32_EQZ, WASM_OP_I32_EQZ, RP!NextInstr, NextInstr,
   RP!Immediates, Immediates

LEMMA SameInterpret == Loop!Step <=> RP!Step
<1>1. Loop!StartInit <=> RP!StartInit
  BY DEF RP!StartInit, Loop!StartInit, RP!EnterBottom, Loop!EnterBottom, RP!Zeros, Loop!Zeros
<1>2. Loop!MainInit <=> RP!MainInit
  BY DEF RP!MainInit, Loop!MainInit, RP!EnterBottom, Loop!EnterBottom, RP!Zeros, Loop!Zeros
<1>3. Loop!MainReject <=> RP!MainReject
  BY DEF RP!MainReject, Loop!MainReject
<1>4. Loop!Unreachable <=> RP!Unreachable
  BY DEF RP!Unreachable, Loop!Unreachable, RP!Fetch, Loop!Fetch, RP!WASM_OP_UNREACHABLE,
     Loop!WASM_OP_UNREACHABLE, RP!DoTrap, Loop!DoTrap, RP!InBounds, Loop!InBounds
<1>5. Loop!Nop <=> RP!Nop
  BY DEF RP!Nop, Loop!Nop, RP!Fetch, Loop!Fetch, RP!WASM_OP_NOP, Loop!WASM_OP_NOP, RP!Continue,
     Loop!Continue, RP!InBounds, Loop!InBounds
<1>6. Loop!EnterBlock <=> RP!EnterBlock
  BY DEF RP!EnterBlock, Loop!EnterBlock, RP!Fetch, Loop!Fetch, RP!BlockOps, Loop!BlockOps,
     RP!Continue, Loop!Continue, RP!InBounds, Loop!InBounds, RP!WASM_OP_BLOCK,
     Loop!WASM_OP_BLOCK, RP!WASM_OP_LOOP, Loop!WASM_OP_LOOP
<1>7. Loop!EndBlock <=> RP!EndBlock
  BY DEF RP!EndBlock, Loop!EndBlock, RP!Fetch, Loop!Fetch, RP!WASM_OP_END, Loop!WASM_OP_END,
     RP!fn, Loop!fn, RP!Continue, Loop!Continue, RP!InBounds, Loop!InBounds
<1>8. Loop!Br <=> RP!Br
  BY DEF RP!Br, Loop!Br, RP!Fetch, Loop!Fetch, RP!WASM_OP_BR, Loop!WASM_OP_BR, RP!Continue,
     Loop!Continue, RP!Imm, Loop!Imm, RP!InBounds, Loop!InBounds
<1>9. Loop!BrIf <=> RP!BrIf
  BY DEF RP!BrIf, Loop!BrIf, RP!Fetch, Loop!Fetch, RP!WASM_OP_BR_IF, Loop!WASM_OP_BR_IF,
     RP!Continue, Loop!Continue, RP!Operand, Loop!Operand, RP!Imm, Loop!Imm, RP!Below,
     Loop!Below, RP!InBounds, Loop!InBounds
<1>10. Loop!BrTable <=> RP!BrTable
  BY DEF RP!BrTable, Loop!BrTable, RP!Fetch, Loop!Fetch, RP!WASM_OP_BR_TABLE,
     Loop!WASM_OP_BR_TABLE, RP!Imm, Loop!Imm, RP!Operand, Loop!Operand, RP!Continue,
     Loop!Continue, RP!Below, Loop!Below, RP!InBounds, Loop!InBounds
<1>11. Loop!Return <=> RP!Return
  BY DEF RP!Return, Loop!Return, RP!Fetch, Loop!Fetch, RP!WASM_OP_RETURN, Loop!WASM_OP_RETURN,
     RP!WASM_OP_END, Loop!WASM_OP_END, RP!fn, Loop!fn, RP!Operand, Loop!Operand, RP!InBounds,
     Loop!InBounds
<1>12. Loop!Call <=> RP!Call
  BY DEF RP!Call, Loop!Call, RP!Fetch, Loop!Fetch, RP!WASM_OP_CALL, Loop!WASM_OP_CALL,
     RP!CallImport, Loop!CallImport, RP!Imm, Loop!Imm, RP!CallFunc, Loop!CallFunc, RP!InBounds,
     Loop!InBounds, RP!Continue, Loop!Continue, RP!DoTrap, Loop!DoTrap, RP!Zeros, Loop!Zeros
<1>13. Loop!CallIndirect <=> RP!CallIndirect
  BY DEF RP!CallIndirect, Loop!CallIndirect, RP!Fetch, Loop!Fetch, RP!WASM_OP_CALL_INDIRECT,
     Loop!WASM_OP_CALL_INDIRECT, RP!Operand, Loop!Operand, RP!NullFunc, Loop!NullFunc, RP!Imm,
     Loop!Imm, RP!DoTrap, Loop!DoTrap, RP!CallImport, Loop!CallImport, RP!Below, Loop!Below,
     RP!CallFunc, Loop!CallFunc, RP!InBounds, Loop!InBounds, RP!Continue, Loop!Continue,
     RP!Zeros, Loop!Zeros
<1>14. Loop!Drop <=> RP!Drop
  BY DEF RP!Drop, Loop!Drop, RP!Fetch, Loop!Fetch, RP!WASM_OP_DROP, Loop!WASM_OP_DROP,
     RP!Continue, Loop!Continue, RP!Below, Loop!Below, RP!InBounds, Loop!InBounds
<1>15. Loop!Select <=> RP!Select
  BY DEF RP!Select, Loop!Select, RP!Fetch, Loop!Fetch, RP!WASM_OP_SELECT, Loop!WASM_OP_SELECT,
     RP!Continue, Loop!Continue, RP!Below, Loop!Below, RP!Operand, Loop!Operand, RP!InBounds,
     Loop!InBounds
<1>16. Loop!LocalGet <=> RP!LocalGet
  BY DEF RP!LocalGet, Loop!LocalGet, RP!Fetch, Loop!Fetch, RP!WASM_OP_LOCAL_GET,
     Loop!WASM_OP_LOCAL_GET, RP!Continue, Loop!Continue, RP!Imm, Loop!Imm, RP!InBounds,
     Loop!InBounds
<1>17. Loop!LocalSet <=> RP!LocalSet
  BY DEF RP!LocalSet, Loop!LocalSet, RP!Fetch, Loop!Fetch, RP!WASM_OP_LOCAL_SET,
     Loop!WASM_OP_LOCAL_SET, RP!Continue, Loop!Continue, RP!Below, Loop!Below, RP!Imm,
     Loop!Imm, RP!Operand, Loop!Operand, RP!InBounds, Loop!InBounds
<1>18. Loop!LocalTee <=> RP!LocalTee
  BY DEF RP!LocalTee, Loop!LocalTee, RP!Fetch, Loop!Fetch, RP!WASM_OP_LOCAL_TEE,
     Loop!WASM_OP_LOCAL_TEE, RP!Continue, Loop!Continue, RP!Imm, Loop!Imm, RP!Operand,
     Loop!Operand, RP!InBounds, Loop!InBounds
<1>19. Loop!GlobalGet <=> RP!GlobalGet
  BY DEF RP!GlobalGet, Loop!GlobalGet, RP!Fetch, Loop!Fetch, RP!WASM_OP_GLOBAL_GET,
     Loop!WASM_OP_GLOBAL_GET, RP!Continue, Loop!Continue, RP!Imm, Loop!Imm, RP!InBounds,
     Loop!InBounds
<1>20. Loop!GlobalSet <=> RP!GlobalSet
  BY DEF RP!GlobalSet, Loop!GlobalSet, RP!Fetch, Loop!Fetch, RP!WASM_OP_GLOBAL_SET,
     Loop!WASM_OP_GLOBAL_SET, RP!Continue, Loop!Continue, RP!Below, Loop!Below, RP!Imm,
     Loop!Imm, RP!Operand, Loop!Operand, RP!InBounds, Loop!InBounds
<1>21. Loop!Const <=> RP!Const
  BY DEF RP!Const, Loop!Const, RP!Fetch, Loop!Fetch, RP!ConstOps, Loop!ConstOps, RP!Continue,
     Loop!Continue, RP!Imm, Loop!Imm, RP!InBounds, Loop!InBounds, RP!WASM_OP_I32_CONST,
     Loop!WASM_OP_I32_CONST, RP!WASM_OP_F64_CONST, Loop!WASM_OP_F64_CONST
<1>22. Loop!Load <=> RP!Load
  BY DEF RP!Load, Loop!Load, RP!Fetch, Loop!Fetch, RP!LoadOps, Loop!LoadOps, RP!DoTrap,
     Loop!DoTrap, RP!Continue, Loop!Continue, RP!Below, Loop!Below, RP!InBounds, Loop!InBounds
<1>23. Loop!Store <=> RP!Store
  BY DEF RP!Store, Loop!Store, RP!Fetch, Loop!Fetch, RP!StoreOps, Loop!StoreOps, RP!DoTrap,
     Loop!DoTrap, RP!Continue, Loop!Continue, RP!Below, Loop!Below, RP!InBounds, Loop!InBounds
<1>24. Loop!UnaryOp <=> RP!UnaryOp
  BY DEF RP!UnaryOp, Loop!UnaryOp, RP!Fetch, Loop!Fetch, RP!UnaryOps, Loop!UnaryOps,
     RP!Operand, Loop!Operand, RP!DoTrap, Loop!DoTrap, RP!Continue, Loop!Continue, RP!Below,
     Loop!Below, RP!InBounds, Loop!InBounds, RP!WASM_OP_I32_EQZ, Loop!WASM_OP_I32_EQZ
<1>25. Loop!BinaryOp <=> RP!BinaryOp
  BY DEF RP!BinaryOp, Loop!BinaryOp, RP!Fetch, Loop!Fetch, RP!BinaryOps, Loop!BinaryOps,
     RP!Operand, Loop!Operand, RP!DoTrap, Loop!DoTrap, RP!Continue, Loop!Continue, RP!Below,
     Loop!Below, RP!InBounds, Loop!InBounds
<1>26. Loop!Overrun <=> RP!Overrun
  BY DEF RP!Overrun, Loop!Overrun, RP!InBounds, Loop!InBounds
<1> QED
  BY <1>1, <1>2, <1>3, <1>4, <1>5, <1>6, <1>7, <1>8, <1>9, <1>10, <1>11, <1>12, <1>13, <1>14,
     <1>15, <1>16, <1>17, <1>18, <1>19, <1>20, <1>21, <1>22, <1>23, <1>24, <1>25, <1>26
     DEF RP!Step, Loop!Step

LEMMA SameInvariants ==
  /\ RP!ControlInBody => Loop!ControlInBody
  /\ RP!FramesNested => Loop!FramesNested
  /\ RP!OperandsSuffice => Loop!OperandsSuffice
  /\ RP!HeightsExact => Loop!HeightsExact
<1>1. RP!ControlInBody => Loop!ControlInBody
  BY DEF RP!ControlInBody, Loop!ControlInBody, RP!Depth, Loop!Depth, RP!FnAt, Loop!FnAt,
     RP!IpAt, Loop!IpAt
<1>2. RP!FramesNested => Loop!FramesNested
  BY DEF RP!FramesNested, Loop!FramesNested, RP!Depth, Loop!Depth, RP!LocalsAt, Loop!LocalsAt,
     RP!Slots, Loop!Slots, RP!FnAt, Loop!FnAt, RP!OpPtrAt, Loop!OpPtrAt, RP!TopAt, Loop!TopAt
<1>3. RP!OperandsSuffice => Loop!OperandsSuffice
  BY DEF RP!OperandsSuffice, Loop!OperandsSuffice, RP!Depth, Loop!Depth, RP!OpPtrAt,
     Loop!OpPtrAt, RP!FnAt, Loop!FnAt, RP!IpAt, Loop!IpAt, RP!TopAt, Loop!TopAt, RP!LocalsAt,
     Loop!LocalsAt
<1>4. RP!HeightsExact => Loop!HeightsExact
  BY DEF RP!HeightsExact, Loop!HeightsExact
<1> QED
  BY <1>1, <1>2, <1>3, <1>4

-----------------------------------------------------------------------------
\* What LP and RP assume.
LEMMA CodesWellFormed == \A c \in {m.code : m \in Modules} : LP!WellFormed(c)
BY ModulesAssumption, SameWellFormed

LEMMA LinkedValid == \A p \in {Linked(m) : m \in Modules} : RP!Valid(p, Value)
BY ModulesAssumption, SameValid

LEMMA LoopConstants ==
  /\ Value \subseteq Nat /\ 0 \in Value
  /\ Trap \notin Value /\ Sentinel \notin Value
  /\ \A o \in RP!UnaryOps : \A a \in Value : Unary(o, a) \in Value \cup {Trap}
  /\ \A o \in RP!BinaryOps : \A a, b \in Value : Binary(o, a, b) \in Value \cup {Trap}
  /\ OP_STACK_MAX \in Nat /\ CALL_STACK_MAX \in Nat
BY LoopAssumption DEF RP!UnaryOps, UnaryOps, RP!BinaryOps, BinaryOps, RP!WASM_OP_I32_EQZ, WASM_OP_I32_EQZ

(***************************************************************************)
(* While parse runs, the loader's invariants; then the module it returns   *)
(* and the interpreter's.                                                  *)
(***************************************************************************)
WInv ==
  /\ module \in Modules /\ file = module.code
  /\ LP!LInv /\ LP!KInv
  /\ ~returned => prog = module /\ Loop!Start
  /\ returned => prog = Linked(module) /\ RP!IInv

LEMMA StartWhole == Init => WInv
<1> SUFFICES ASSUME Init PROVE WInv
  OBVIOUS
<1>1. LP!Init
  BY DEF Init, LP!Init, LP!Start, Loader!Start
<1>2. LP!LInv /\ LP!KInv
  BY <1>1, CodesWellFormed, LP!StartLands, LP!StartKeeps
<1> QED
  BY <1>2 DEF Init, WInv

LEMMA ParseKeeps == WInv /\ Parse => WInv'
<1> SUFFICES ASSUME WInv, Parse PROVE WInv'
  OBVIOUS
<1>1. LP!Step /\ ~returned /\ UNCHANGED <<module, returned, loopVars>>
  BY SameParse DEF Parse
<1>2. LP!LInv' /\ LP!KInv'
  BY <1>1, CodesWellFormed, LP!NextLands, LP!NextKeeps DEF WInv, LP!Next
<1>3. file' = file
  BY <1>1 DEF LP!Step, LP!StartSection, LP!StartBody, LP!DecodeBlock, LP!DecodeEnd, LP!DecodeBr,
     LP!DecodeBrTable, LP!DecodeOther, LP!ReplacePass, LP!NextBody
<1> QED
  BY <1>1, <1>2, <1>3 DEF WInv, loopVars, Loop!Start

LEMMA DecodedIs ==
  ASSUME WInv, ~returned, ld_phase = "done"
  PROVE  Decoded = Linked(module)
<1> DEFINE N == module.code[1]
           C == [a \in DOMAIN module.code |->
                   IF a \in DOMAIN module.labels THEN module.labels[a].target - (a + 1)
                                                 ELSE module.code[a]]
           F == [f \in DOMAIN module.funcs |->
                   IF f < module.num_imports THEN module.funcs[f]
                   ELSE [module.funcs[f] EXCEPT !.code_start = code_start[BodyOf(f)],
                                                !.code_end   = code_end[BodyOf(f)],
                                                !.num_locals = num_locals[BodyOf(f)]]]
<1>1. /\ module = [x \in Fields |-> module[x]]
      /\ module.num_imports \in Nat /\ module.num_imports + N = module.num_funcs
      /\ module.funcs \in [0..(module.num_funcs - 1) -> FuncInfo]
      /\ \A k \in 0..(N - 1) : BodyAgrees(module, k)
      /\ DOMAIN module.labels \subseteq
           UNION {DOMAIN Loader!BodyTargets(module.code, k) : k \in 0..(N - 1)}
      /\ file = module.code
  BY ModulesAssumption DEF WInv
<1>2. LP!HandedOver
  BY CodesWellFormed, LP!DoneHandsOver DEF WInv
<1>3. /\ file \in Seq(Int) /\ N \in Nat
      /\ DOMAIN code = DOMAIN file /\ \A a \in DOMAIN code : code[a] \in Int
  BY <1>1 DEF WInv, LP!LInv, LP!Typed, LP!WellFormed
<1>4. /\ code = [a \in DOMAIN file |-> code[a]]
      /\ \A a \in DOMAIN file :
           code[a] # file[a] => \E k \in 0..(N - 1) : a \in DOMAIN Loader!BodyTargets(file, k)
      /\ \A k \in 0..(N - 1) :
           /\ code_start[k] = Loader!CodeStart(file, k)
           /\ code_end[k]   = Loader!CodeEnd(file, k)
           /\ num_locals[k] = Loader!LocalsOf(file, k)
           /\ \A a \in DOMAIN Loader!BodyTargets(file, k) :
                (a + 1) + code[a] = Loader!BodyTargets(file, k)[a]
  <2>1. /\ code = [a \in DOMAIN file |-> code[a]]
        /\ \A a \in DOMAIN file : code[a] # file[a] => LP!InLabel(file, a)
        /\ \A k \in 0..(N - 1) :
             /\ code_start[k] = LP!CodeStart(file, k)
             /\ code_end[k]   = LP!CodeEnd(file, k)
             /\ num_locals[k] = LP!LocalsOf(file, k)
             /\ \A a \in DOMAIN LP!BodyTargets(file, k) :
                  (a + 1) + code[a] = LP!BodyTargets(file, k)[a]
    BY <1>1, <1>2 DEF LP!HandedOver
  <2>2. \A a : LP!InLabel(file, a) => \E k \in 0..(N - 1) : a \in DOMAIN LP!BodyTargets(file, k)
    BY <1>1 DEF LP!InLabel
  <2>3. \A k : LP!BodyTargets(file, k) = Loader!BodyTargets(file, k)
    BY SameBodies
  <2>4. \A k : /\ LP!CodeStart(file, k) = Loader!CodeStart(file, k)
               /\ LP!CodeEnd(file, k) = Loader!CodeEnd(file, k)
               /\ LP!LocalsOf(file, k) = Loader!LocalsOf(file, k)
    BY SameBodies
  <2> HIDE DEF N
  <2> QED
    BY <2>1, <2>2, <2>3, <2>4
<1>5. ASSUME NEW k \in 0..(N - 1)
      PROVE  /\ module.funcs[module.num_imports + k].code_start = code_start[k]
             /\ module.funcs[module.num_imports + k].code_end = code_end[k]
             /\ module.funcs[module.num_imports + k].num_locals = num_locals[k]
             /\ \A a \in DOMAIN Loader!BodyTargets(file, k) :
                  /\ a \in DOMAIN module.labels
                  /\ module.labels[a].target = Loader!BodyTargets(file, k)[a]
  BY <1>1, <1>4, ZenonT(60) DEF BodyAgrees, Loader!BodyTargets
<1>6. C = code
  <2>1. ASSUME NEW a \in DOMAIN file PROVE C[a] = code[a]
    <3>1. a \in Int /\ code[a] \in Int
      BY <1>3
    <3>2. CASE a \in DOMAIN module.labels
      <4>1. PICK k \in 0..(N - 1) : a \in DOMAIN Loader!BodyTargets(file, k)
        BY <1>1, <3>2
      <4>2. /\ module.labels[a].target = Loader!BodyTargets(file, k)[a]
            /\ (a + 1) + code[a] = Loader!BodyTargets(file, k)[a]
        BY <1>4, <1>5, <4>1
      <4>3. C[a] = ((a + 1) + code[a]) - (a + 1)
        BY <1>1, <3>2, <4>2
      <4> QED
        BY <3>1, <4>3
    <3>3. CASE a \notin DOMAIN module.labels
      <4>1. code[a] = file[a]
        BY <1>4, <1>5, <3>3
      <4> QED
        BY <1>1, <3>3, <4>1
    <3> QED
      BY <3>2, <3>3
  <2>2. C = [a \in DOMAIN file |-> C[a]]
    BY <1>1
  <2> HIDE DEF C
  <2> QED
    BY <1>4, <2>1, <2>2
<1>7. F = module.funcs
  <2>1. ASSUME NEW f \in DOMAIN module.funcs PROVE F[f] = module.funcs[f]
    <3>1. CASE f < module.num_imports
      BY <3>1
    <3>2. CASE ~ (f < module.num_imports)
      <4>1. /\ BodyOf(f) \in 0..(N - 1) /\ f = module.num_imports + BodyOf(f)
            /\ module.funcs[f] \in FuncInfo
        <5>1. PICK n \in Nat : n = N
          BY <1>3
        <5>2. PICK imports \in Nat : imports = module.num_imports
          BY <1>1
        <5>3. PICK num \in Int : num = module.num_funcs /\ num = imports + n
          <6>1. imports + n \in Int
            OBVIOUS
          <6> QED
            BY <1>1, <5>1, <5>2, <6>1
        <5>4. module.funcs \in [0..(num - 1) -> FuncInfo]
          BY <1>1, <5>3
        <5>5. f \in 0..(num - 1) /\ module.funcs[f] \in FuncInfo
          BY <5>4
        <5>6. f \in 0..(imports + n - 1)
          BY <5>3, <5>5
        <5>7. ~ (f < imports)
          BY <3>2, <5>2
        <5> QED
          BY <5>1, <5>2, <5>5, <5>6, <5>7 DEF BodyOf
      <4>2. PICK g \in FuncInfo : g = module.funcs[f]
        BY <4>1
      <4>3. /\ g.code_start = code_start[BodyOf(f)] /\ g.code_end = code_end[BodyOf(f)]
            /\ g.num_locals = num_locals[BodyOf(f)]
        BY <1>5, <4>1, <4>2
      <4>4. F[f] = [g EXCEPT !.code_start = g.code_start, !.code_end = g.code_end,
                             !.num_locals = g.num_locals]
        BY <3>2, <4>2, <4>3
      <4> QED
        BY <4>2, <4>4 DEF FuncInfo
    <3> QED
      BY <3>1, <3>2
  <2>2. F = [f \in DOMAIN module.funcs |-> F[f]]
    OBVIOUS
  <2>3. module.funcs = [f \in DOMAIN module.funcs |-> module.funcs[f]]
    BY <1>1
  <2> HIDE DEF F
  <2> QED
    BY <2>1, <2>2, <2>3
<1>8. Decoded = [module EXCEPT !.code = code, !.funcs = F]
  BY DEF Decoded
<1>9. Linked(module) = [module EXCEPT !.code = C]
  BY DEF Linked
<1> HIDE DEF C, F
<1> QED
  BY <1>1, <1>6, <1>7, <1>8, <1>9 DEF Fields

LEMMA LoopStarts == RP!Init => RP!IInv
BY LinkedValid, LoopConstants, RP!InitKeeps

LEMMA LoopStartsNext == RP!Init' => RP!IInv'
BY LoopStarts, PTL

LEMMA InstantiateKeeps == WInv /\ Instantiate => WInv'
<1> SUFFICES ASSUME WInv, Instantiate PROVE WInv'
  OBVIOUS
<1>1. /\ ~returned /\ ld_phase = "done" /\ returned' /\ prog' = Decoded
      /\ UNCHANGED <<module, loaderVars, phase, ip, fn_idx, op, locals, op_ptr, frames, globals,
                     return_result>>
  BY DEF Instantiate
<1>2. prog' = Linked(module) /\ module \in Modules
  BY <1>1, DecodedIs DEF WInv
<1>3. RP!Init'
  <2>1. /\ prog'.has_start = module.has_start /\ prog'.globals = module.globals
        /\ prog'.main_idx = module.main_idx
    <3>1. module = [x \in Fields |-> module[x]]
      BY <1>2, ModulesAssumption
    <3> QED
      BY <1>2, <3>1 DEF Linked, Fields
  <2>2. Loop!Start /\ prog = module
    BY <1>1 DEF WInv
  <2> QED
    BY <1>1, <1>2, <2>1, <2>2 DEF RP!Init, RP!Start, Loop!Start
<1>4. RP!IInv'
  BY <1>3, LoopStartsNext
<1>5. (LP!LInv /\ LP!KInv)'
  BY <1>1, CodesWellFormed, LP!NextLands, LP!NextKeeps DEF WInv, LP!vars, loaderVars
<1> QED
  BY <1>1, <1>2, <1>4, <1>5 DEF WInv, loaderVars

LEMMA InterpretKeeps == WInv /\ Interpret => WInv'
<1> SUFFICES ASSUME WInv, Interpret PROVE WInv'
  OBVIOUS
<1>1. RP!Step /\ returned /\ UNCHANGED <<module, returned, loaderVars>>
  BY SameInterpret DEF Interpret
<1>2. RP!IInv'
  BY <1>1, LinkedValid, LoopConstants, RP!NextKeeps, SMTT(60) DEF WInv, RP!Next
<1>3. prog' = prog
  BY <1>1, ZenonT(60) DEF RP!Step, RP!StartInit, RP!MainInit, RP!MainReject, RP!Unreachable, RP!Nop,
   RP!EnterBlock, RP!EndBlock, RP!Br, RP!BrIf, RP!BrTable, RP!Return, RP!Call,
   RP!CallIndirect, RP!Drop, RP!Select, RP!LocalGet, RP!LocalSet, RP!LocalTee,
   RP!GlobalGet, RP!GlobalSet, RP!Const, RP!Load, RP!Store, RP!UnaryOp, RP!BinaryOp,
   RP!Overrun, RP!EnterBottom, RP!DoTrap, RP!Continue, RP!CallImport, RP!CallFunc
<1>4. (LP!LInv /\ LP!KInv)'
  BY <1>1, CodesWellFormed, LP!NextLands, LP!NextKeeps DEF WInv, LP!vars, loaderVars
<1> QED
  BY <1>1, <1>2, <1>3, <1>4 DEF WInv, loaderVars

LEMMA NextWhole == WInv /\ [Next]_vars => WInv'
<1> SUFFICES ASSUME WInv, [Next]_vars PROVE WInv'
  OBVIOUS
<1>1. CASE Parse \/ Instantiate \/ Interpret
  BY <1>1, ParseKeeps, InstantiateKeeps, InterpretKeeps
<1>2. CASE UNCHANGED vars
  <2>1. UNCHANGED <<module, returned, loaderVars, loopVars>>
    BY <1>2 DEF vars
  <2>2. (LP!LInv /\ LP!KInv)'
    BY <2>1, CodesWellFormed, LP!NextLands, LP!NextKeeps DEF WInv, LP!vars, loaderVars
  <2>3. returned => RP!IInv'
    BY <2>1, LinkedValid, LoopConstants, RP!NextKeeps DEF WInv, RP!vars, loopVars
  <2> QED
    BY <2>1, <2>2, <2>3 DEF WInv, loopVars, loaderVars, Loop!Start
<1> QED
  BY <1>1, <1>2 DEF Next, Step, Halted

LEMMA Whole == Spec => []WInv
BY StartWhole, NextWhole, PTL DEF Spec

-----------------------------------------------------------------------------
(***************************************************************************)
(* The loader hands over a valid module: what the interpreter takes for    *)
(* granted of offsets, bodies and locals is there.                         *)
(***************************************************************************)
THEOREM LoadedModulesValid == Spec => []LoadedIsValid
<1>1. WInv => LoadedIsValid
  BY ModulesAssumption DEF WInv, LoadedIsValid
<1> QED
  BY <1>1, Whole, PTL

(***************************************************************************)
(* So what holds of the interpreter on valid modules holds of whole runs,  *)
(* from labels to results: control stays in function bodies, frames are    *)
(* nested and no instruction lacks an operand.                             *)
(***************************************************************************)
RunSafe ==
  returned => Loop!ControlInBody /\ Loop!FramesNested /\ Loop!OperandsSuffice /\ Loop!HeightsExact

THEOREM WholeRunsSafe == Spec => []RunSafe
<1>1. WInv => RunSafe
  <2> SUFFICES ASSUME WInv, returned PROVE RunSafe
    BY DEF RunSafe
  <2>1. RP!IInv
    BY DEF WInv
  <2>2. RP!ControlInBody /\ RP!FramesNested /\ RP!OperandsSuffice /\ RP!HeightsExact
    BY <2>1, LinkedValid, LoopConstants, RP!ControlStays, RP!FramesStay, RP!OperandsStay,
       RP!HeightsStay
  <2> QED
    BY <2>2, SameInvariants DEF RunSafe
<1> QED
  BY <1>1, Whole, PTL

\* Nor does a function of a loaded module touch what its callers have pushed.
THEOREM WholeRunsSpareCallers == Spec => Loop!CallersUntouched
<1>1. WInv /\ [Next]_vars =>
        [phase = "running" => SubSeq(op', 1, locals) = SubSeq(op, 1, locals)]_(Loop!vars)
  <2> SUFFICES ASSUME WInv, [Next]_vars, phase = "running"
               PROVE  SubSeq(op', 1, locals) = SubSeq(op, 1, locals) \/ UNCHANGED Loop!vars
    OBVIOUS
  <2>1. CASE Parse \/ Halted \/ UNCHANGED vars
    BY <2>1 DEF Parse, Halted, vars, loopVars, Loop!vars
  <2>2. CASE Instantiate
    BY <2>2 DEF Instantiate
  <2>3. CASE Interpret
    <3>1. RP!Step /\ RP!IInv
      BY <2>3, SameInterpret DEF Interpret, WInv
    <3> QED
      BY <3>1, LinkedValid, LoopConstants, RP!CallersStay DEF RP!Next, RP!vars, Loop!vars
  <2> QED
    BY <2>1, <2>2, <2>3 DEF Next, Step
<1> QED
  BY <1>1, Whole, PTL DEF Spec, Loop!CallersUntouched

-----------------------------------------------------------------------------
\* The values between two pointers into the operand array, and those above one.
Slice(s, a, b) == SubSeq(s, a + 1, b)

Above(s, a) == Slice(s, a, Len(s))

Prefix(s, n) == SubSeq(s, 1, n)

LEMMA SliceIs ==
  ASSUME NEW s \in Seq(Value), NEW a \in Nat, NEW b \in Nat, a <= b, b <= Len(s)
  PROVE  /\ Slice(s, a, b) \in Seq(Value) /\ Len(Slice(s, a, b)) = b - a
         /\ \A idx \in 1..(b - a) : Slice(s, a, b)[idx] = s[a + idx]
<1>1. Len(s) \in Nat /\ \A idx \in (a + 1)..b : s[idx] \in Value
  BY LenProperties, ElementOfSeq
<1>2. /\ SubSeq(s, a + 1, b) \in Seq(Value)
      /\ Len(SubSeq(s, a + 1, b)) = IF a + 1 <= b THEN b - (a + 1) + 1 ELSE 0
      /\ \A idx \in 1..(b - (a + 1) + 1) : SubSeq(s, a + 1, b)[idx] = s[(a + 1) + idx - 1]
  BY <1>1, SubSeqProperties
<1>3. \A idx \in 1..(b - a) : (a + 1) + idx - 1 = a + idx
  OBVIOUS
<1> QED
  BY <1>2, <1>3 DEF Slice

LEMMA SliceSame ==
  ASSUME NEW s \in Seq(Value), NEW t \in Seq(Value), NEW a \in Nat, NEW b \in Nat,
         a <= b, b <= Len(s), b <= Len(t), \A idx \in (a + 1)..b : s[idx] = t[idx]
  PROVE  Slice(s, a, b) = Slice(t, a, b)
<1>1. /\ Slice(s, a, b) \in Seq(Value) /\ Len(Slice(s, a, b)) = b - a
      /\ \A idx \in 1..(b - a) : Slice(s, a, b)[idx] = s[a + idx]
      /\ Slice(t, a, b) \in Seq(Value) /\ Len(Slice(t, a, b)) = b - a
      /\ \A idx \in 1..(b - a) : Slice(t, a, b)[idx] = t[a + idx]
  BY SliceIs
<1>2. \A idx \in 1..(b - a) : s[a + idx] = t[a + idx]
  OBVIOUS
<1> QED
  BY <1>1, <1>2, SeqEqual

LEMMA AboveIs ==
  ASSUME NEW s \in Seq(Value), NEW a \in Nat, NEW b \in Nat, b = Len(s), a <= b
  PROVE  /\ Above(s, a) \in Seq(Value) /\ Len(Above(s, a)) = b - a
         /\ \A idx \in 1..(b - a) : Above(s, a)[idx] = s[a + idx]
<1>1. Above(s, a) = Slice(s, a, b)
  BY DEF Above
<1>2. b <= Len(s)
  OBVIOUS
<1>3. /\ Slice(s, a, b) \in Seq(Value) /\ Len(Slice(s, a, b)) = b - a
      /\ \A idx \in 1..(b - a) : Slice(s, a, b)[idx] = s[a + idx]
  BY <1>2, SliceIs
<1> QED
  BY <1>1, <1>3

LEMMA PrefixIs ==
  ASSUME NEW s \in Seq(Value), NEW n \in Nat, n <= Len(s)
  PROVE  /\ SubSeq(s, 1, n) \in Seq(Value) /\ Len(SubSeq(s, 1, n)) = n
         /\ \A idx \in 1..n : SubSeq(s, 1, n)[idx] = s[idx]
<1>1. Len(s) \in Nat /\ \A idx \in 1..n : s[idx] \in Value
  BY LenProperties, ElementOfSeq
<1>2. QED
  BY <1>1, SubSeqProperties

\* The stack without its n topmost values: so much shorter above any pointer.
LEMMA AbovePop ==
  ASSUME NEW s \in Seq(Value), NEW a \in Nat, NEW m \in Nat, m <= Len(s), a <= m
  PROVE  /\ Prefix(s, m) \in Seq(Value) /\ Len(Prefix(s, m)) = m
         /\ \A idx \in 1..m : Prefix(s, m)[idx] = s[idx]
         /\ \A t, j : t = Above(s, a) /\ j = m - a => Above(Prefix(s, m), a) = Prefix(t, j)
<1>1. PICK len \in Nat : len = Len(s) /\ m <= len
  BY LenProperties
<1>2. PICK r : r = Prefix(s, m)
  OBVIOUS
<1>3. /\ r \in Seq(Value) /\ Len(r) = m
      /\ \A idx \in 1..m : r[idx] = s[idx]
  BY <1>1, <1>2, PrefixIs DEF Prefix
<1>4. ASSUME NEW t, NEW j0, t = Above(s, a), j0 = m - a
      PROVE  Above(r, a) = Prefix(t, j0)
  <2>1. t \in Seq(Value) /\ Len(t) = len - a /\ \A idx \in 1..(len - a) : t[idx] = s[a + idx]
    <3>1. a <= len
      BY <1>1
    <3> QED
      BY <1>1, <1>4, <3>1, AboveIs
  <2>2. PICK w : w = Above(r, a)
    OBVIOUS
  <2>3. w \in Seq(Value) /\ Len(w) = m - a /\ \A idx \in 1..(m - a) : w[idx] = r[a + idx]
    <3>1. m = Len(r)
      BY <1>3
    <3> QED
      BY <1>3, <2>2, <3>1, AboveIs
  <2>4. PICK j \in Nat : j = m - a
    <3>1. m - a \in Nat
      OBVIOUS
    <3> QED
      BY <3>1, Zenon
  <2>5. j = j0 /\ j <= Len(t)
    BY <1>1, <1>4, <2>1, <2>4
  <2>6. PICK u : u = Prefix(t, j)
    OBVIOUS
  <2>7. u \in Seq(Value) /\ Len(u) = j /\ \A idx \in 1..j : u[idx] = t[idx]
    BY <2>1, <2>5, <2>6, PrefixIs DEF Prefix
  <2>8. ASSUME NEW idx \in 1..j PROVE w[idx] = u[idx]
    <3>1. idx \in 1..(len - a) /\ idx \in 1..(m - a) /\ a + idx \in 1..m
      BY <1>1, <2>4
    <3> QED
      BY <1>3, <2>1, <2>3, <2>7, <3>1
  <2>9. w = u
    BY <2>3, <2>4, <2>7, <2>8, SeqEqual
  <2> QED
    BY <2>2, <2>5, <2>6, <2>9
<1> QED
  BY <1>2, <1>3, <1>4

LEMMA AbovePush ==
  ASSUME NEW s \in Seq(Value), NEW a \in Nat, a <= Len(s), NEW v \in Value
  PROVE  /\ Append(s, v) \in Seq(Value) /\ Len(Append(s, v)) = Len(s) + 1
         /\ \A idx \in 1..Len(s) : Append(s, v)[idx] = s[idx]
         /\ Above(Append(s, v), a) = Append(Above(s, a), v)
<1>1. PICK len \in Nat : len = Len(s)
  BY LenProperties
<1>2. PICK r : r = Append(s, v)
  OBVIOUS
<1>3. /\ r \in Seq(Value) /\ Len(r) = len + 1
      /\ r[len + 1] = v /\ \A idx \in 1..len : r[idx] = s[idx]
  BY <1>1, <1>2, AppendProperties
<1>4. PICK t : t = Above(s, a)
  OBVIOUS
<1>5. t \in Seq(Value) /\ Len(t) = len - a /\ \A idx \in 1..(len - a) : t[idx] = s[a + idx]
  BY <1>1, <1>4, AboveIs
<1>6. PICK w : w = Above(r, a)
  OBVIOUS
<1>7. PICK m \in Nat : m = len + 1
  BY <1>1
<1>8. w \in Seq(Value) /\ Len(w) = m - a /\ \A idx \in 1..(m - a) : w[idx] = r[a + idx]
  <2>1. m = Len(r) /\ a <= m
    BY <1>1, <1>3, <1>7
  <2> QED
    BY <1>3, <1>6, <2>1, AboveIs, ZenonT(60)
<1>9. PICK j \in Nat : j = len - a
  <2>1. len - a \in Nat
    BY <1>1
  <2> QED
    BY <2>1, Zenon
<1>10. PICK u : u = Append(t, v)
  OBVIOUS
<1>11. /\ u \in Seq(Value) /\ Len(u) = j + 1
       /\ u[j + 1] = v /\ \A idx \in 1..j : u[idx] = t[idx]
  <2>1. Len(t) = j
    BY <1>5, <1>9
  <2> QED
    BY <1>5, <1>10, <2>1, AppendProperties
<1>12. ASSUME NEW idx \in 1..(j + 1) PROVE w[idx] = u[idx]
  <2>1. idx \in 1..(m - a)
    BY <1>1, <1>7, <1>9
  <2>2. CASE idx = j + 1
    <3>1. a + idx = len + 1
      BY <1>1, <1>9, <2>2
    <3> QED
      BY <1>3, <1>8, <1>11, <2>1, <2>2, <3>1
  <2>3. CASE idx # j + 1
    <3>1. idx \in 1..j /\ idx \in 1..(len - a) /\ a + idx \in 1..len
      BY <1>1, <1>9, <2>3
    <3> QED
      BY <1>3, <1>5, <1>8, <1>11, <2>1, <3>1
  <2> QED
    BY <2>2, <2>3
<1>13. w = u
  <2>1. Len(w) = j + 1
    BY <1>1, <1>7, <1>8, <1>9
  <2> QED
    BY <1>8, <1>11, <1>12, <2>1, SeqEqual
<1> QED
  BY <1>1, <1>2, <1>3, <1>4, <1>6, <1>10, <1>13

-----------------------------------------------------------------------------
(***************************************************************************)
(* The code the interpreter reads and the code in the file.                *)
(***************************************************************************)

LEMMA SameInstrs ==
  ASSUME NEW c, NEW k, NEW p
  PROVE  /\ LP!InstrsOf(c, k) = Loader!InstrStarts(c, Loader!CodeStart(c, k), Loader!CodeEnd(c, k))
         /\ LP!LabelSlots(c, p) = LabelSlots(c, p)
         /\ LP!NextInstr(c, p) = NextInstr(c, p)
         /\ Wasm!NextInstr(c, p) = NextInstr(c, p)
<1>1. LP!NextInstr(c, p) = NextInstr(c, p) /\ Wasm!NextInstr(c, p) = NextInstr(c, p)
  BY DEF LP!NextInstr, NextInstr, Wasm!NextInstr, LP!Immediates, Immediates, Wasm!Immediates,
     LP!BlockOps, BlockOps, Wasm!BlockOps, LP!LocalOps, LocalOps, Wasm!LocalOps, LP!GlobalOps,
     GlobalOps, Wasm!GlobalOps, LP!ConstOps, ConstOps, Wasm!ConstOps, LP!LoadOps, LoadOps,
     Wasm!LoadOps, LP!StoreOps, StoreOps, Wasm!StoreOps, LP!WASM_OP_BR, WASM_OP_BR,
     Wasm!WASM_OP_BR, LP!WASM_OP_BR_IF, WASM_OP_BR_IF, Wasm!WASM_OP_BR_IF, LP!WASM_OP_CALL,
     WASM_OP_CALL, Wasm!WASM_OP_CALL, LP!WASM_OP_CALL_INDIRECT, WASM_OP_CALL_INDIRECT,
     Wasm!WASM_OP_CALL_INDIRECT, LP!WASM_OP_BR_TABLE, WASM_OP_BR_TABLE, Wasm!WASM_OP_BR_TABLE,
     LP!WASM_OP_BLOCK, WASM_OP_BLOCK, Wasm!WASM_OP_BLOCK, LP!WASM_OP_LOOP, WASM_OP_LOOP,
     Wasm!WASM_OP_LOOP, LP!WASM_OP_LOCAL_GET, WASM_OP_LOCAL_GET, Wasm!WASM_OP_LOCAL_GET,
     LP!WASM_OP_LOCAL_SET, WASM_OP_LOCAL_SET, Wasm!WASM_OP_LOCAL_SET, LP!WASM_OP_LOCAL_TEE,
     WASM_OP_LOCAL_TEE, Wasm!WASM_OP_LOCAL_TEE, LP!WASM_OP_GLOBAL_GET, WASM_OP_GLOBAL_GET,
     Wasm!WASM_OP_GLOBAL_GET, LP!WASM_OP_GLOBAL_SET, WASM_OP_GLOBAL_SET,
     Wasm!WASM_OP_GLOBAL_SET, LP!WASM_OP_I32_CONST, WASM_OP_I32_CONST, Wasm!WASM_OP_I32_CONST,
     LP!WASM_OP_F64_CONST, WASM_OP_F64_CONST, Wasm!WASM_OP_F64_CONST
<1>2. LP!LabelSlots(c, p) = LabelSlots(c, p)
  BY DEF LP!LabelSlots, LabelSlots, LP!WASM_OP_BR, WASM_OP_BR, LP!WASM_OP_BR_IF, WASM_OP_BR_IF,
     LP!WASM_OP_BR_TABLE, WASM_OP_BR_TABLE
<1>3. \A s, e : LP!InstrStarts(c, s, e) = Loader!InstrStarts(c, s, e)
  <2>1. \A q : LP!NextInstr(c, q) = Loader!NextInstr(c, q)
    BY DEF LP!NextInstr, Loader!NextInstr, LP!Immediates, Loader!Immediates,
     LP!BlockOps, Loader!BlockOps, LP!LocalOps, Loader!LocalOps, LP!GlobalOps,
     Loader!GlobalOps, LP!ConstOps, Loader!ConstOps, LP!LoadOps, Loader!LoadOps,
     LP!StoreOps, Loader!StoreOps, LP!WASM_OP_BR, Loader!WASM_OP_BR,
     LP!WASM_OP_BR_IF, Loader!WASM_OP_BR_IF, LP!WASM_OP_CALL,
     Loader!WASM_OP_CALL, LP!WASM_OP_CALL_INDIRECT, Loader!WASM_OP_CALL_INDIRECT,
     LP!WASM_OP_BR_TABLE, Loader!WASM_OP_BR_TABLE,
     LP!WASM_OP_BLOCK, Loader!WASM_OP_BLOCK, LP!WASM_OP_LOOP, Loader!WASM_OP_LOOP,
     LP!WASM_OP_LOCAL_GET, Loader!WASM_OP_LOCAL_GET,
     LP!WASM_OP_LOCAL_SET, Loader!WASM_OP_LOCAL_SET, LP!WASM_OP_LOCAL_TEE,
     Loader!WASM_OP_LOCAL_TEE, LP!WASM_OP_GLOBAL_GET, Loader!WASM_OP_GLOBAL_GET,
     LP!WASM_OP_GLOBAL_SET, Loader!WASM_OP_GLOBAL_SET,
     LP!WASM_OP_I32_CONST, Loader!WASM_OP_I32_CONST,
     LP!WASM_OP_F64_CONST, Loader!WASM_OP_F64_CONST
  <2> QED
    BY <2>1 DEF LP!InstrStarts, Loader!InstrStarts
<1> QED
  BY <1>1, <1>2, <1>3, SameBodies DEF LP!InstrsOf

LEMMA LinkedIs ==
  ASSUME NEW m \in Modules
  PROVE  /\ \A x \in Fields \ {"code"} : Linked(m)[x] = m[x]
         /\ Linked(m).code = [a \in DOMAIN m.code |->
                                IF a \in DOMAIN m.labels THEN m.labels[a].target - (a + 1)
                                                         ELSE m.code[a]]
<1>1. m = [x \in Fields |-> m[x]]
  BY ModulesAssumption
<1> DEFINE C == [a \in DOMAIN m.code |->
                   IF a \in DOMAIN m.labels THEN m.labels[a].target - (a + 1) ELSE m.code[a]]
<1>2. Linked(m) = [m EXCEPT !.code = C]
  BY DEF Linked
<1> HIDE DEF C
<1>3. DOMAIN m = Fields /\ "code" \in Fields
  BY <1>1 DEF Fields
<1>4. Linked(m).code = C /\ \A x \in Fields \ {"code"} : Linked(m)[x] = m[x]
  BY <1>2, <1>3
<1> QED
  BY <1>4 DEF C

\* At an instruction both have the same opcode and the same immediates, but for
\* the labels, and the offsets lead to their targets.
LEMMA CodeIs ==
  ASSUME NEW m \in Modules, Structured(m), NEW f \in DOMAIN m.funcs, f >= m.num_imports,
         NEW p \in DOMAIN m.height[f], NEW c, c = Linked(m).code
  PROVE  /\ p \in Nat /\ c[p] = m.code[p]
         /\ m.code[p] = WASM_OP_BR_TABLE => m.code[p + 1] \in Nat
         /\ \A a \in p..(NextInstr(m.code, p) - 1) : a \notin LabelSlots(m.code, p) => c[a] = m.code[a]
         /\ \A a \in LabelSlots(m.code, p) :
              /\ a + 1 + c[a] = m.labels[a].target
              /\ m.labels[a].target \in Nat /\ m.labels[a].height \in Nat
              /\ m.labels[a].arity \in Nat
              /\ m.labels[a].height + m.labels[a].arity =
                   m.height[f][p] - (IF m.code[p] = WASM_OP_BR THEN 0 ELSE 1)
<1>1. PICK imports \in Nat, n \in Nat : imports = m.num_imports /\ n = m.code[1]
  BY ModulesAssumption, SameWellFormed DEF LP!WellFormed
<1>2. PICK k \in 0..(n - 1) : f = imports + k
  <2>1. PICK num \in Int : num = m.num_funcs /\ num = imports + n
    <3>1. imports + n \in Int
      OBVIOUS
    <3> QED
      BY <1>1, <3>1, ModulesAssumption
  <2>2. f \in 0..(num - 1)
    BY <2>1, ModulesAssumption
  <2>3. f - imports \in 0..(n - 1) /\ f = imports + (f - imports)
    BY <1>1, <2>1, <2>2
  <2> QED
    BY <2>3
<1>3. LP!WellFormed(m.code) /\ BodyAgrees(m, k) /\ k \in 0..(m.code[1] - 1)
  BY <1>1, ModulesAssumption, SameWellFormed
<1>4. p \in LP!InstrsOf(m.code, k)
  BY <1>1, <1>2, <1>3, SameInstrs DEF Structured
<1>5. /\ p \in Nat /\ NextInstr(m.code, p) \in Nat /\ p < NextInstr(m.code, p)
      /\ p..(NextInstr(m.code, p) - 1) \subseteq DOMAIN m.code
      /\ LabelSlots(m.code, p) \subseteq (p + 1)..(NextInstr(m.code, p) - 1)
      /\ LabelSlots(m.code, p) \subseteq DOMAIN LP!BodyTargets(m.code, k)
      /\ \A j \in 0..(n - 1) : \A a \in DOMAIN LP!BodyTargets(m.code, j) :
           a \in p..(NextInstr(m.code, p) - 1) => a \in LabelSlots(m.code, p)
  <2>1. /\ p \in Nat /\ LP!NextInstr(m.code, p) \in Nat /\ p < LP!NextInstr(m.code, p)
        /\ p..(LP!NextInstr(m.code, p) - 1) \subseteq DOMAIN m.code
        /\ LP!LabelSlots(m.code, p) \subseteq (p + 1)..(LP!NextInstr(m.code, p) - 1)
        /\ LP!LabelSlots(m.code, p) \subseteq DOMAIN LP!BodyTargets(m.code, k)
        /\ \A j \in 0..(m.code[1] - 1) : \A a \in DOMAIN LP!BodyTargets(m.code, j) :
             a \in p..(LP!NextInstr(m.code, p) - 1) => a \in LP!LabelSlots(m.code, p)
    BY <1>3, <1>4, CodesWellFormed, LP!OwnLabels
  <2>2. LP!NextInstr(m.code, p) = NextInstr(m.code, p) /\ LP!LabelSlots(m.code, p) = LabelSlots(m.code, p)
    BY SameInstrs
  <2> QED
    BY <1>1, <2>1, <2>2
<1>6. \A a \in DOMAIN m.labels : a \in p..(NextInstr(m.code, p) - 1) => a \in LabelSlots(m.code, p)
  <2> TAKE a \in DOMAIN m.labels
  <2>1. PICK j \in 0..(n - 1) : a \in DOMAIN Loader!BodyTargets(m.code, j)
    BY <1>1, ModulesAssumption
  <2>2. a \in DOMAIN LP!BodyTargets(m.code, j)
    BY <2>1, SameBodies
  <2> QED
    BY <1>5, <2>2
<1>7. LabelSlots(m.code, p) \subseteq DOMAIN m.labels
  <2>1. DOMAIN LP!BodyTargets(m.code, k) \subseteq DOMAIN m.labels
    BY <1>3, SameBodies DEF BodyAgrees, Loader!BodyTargets
  <2> QED
    BY <1>5, <2>1
<1>8. \A a \in p..(NextInstr(m.code, p) - 1) :
        c[a] = IF a \in DOMAIN m.labels THEN m.labels[a].target - (a + 1) ELSE m.code[a]
  BY <1>5, LinkedIs, ZenonT(60)
<1>9. \A a \in p..(NextInstr(m.code, p) - 1) : a \notin LabelSlots(m.code, p) => c[a] = m.code[a]
  BY <1>6, <1>8
<1>10. c[p] = m.code[p]
  <2>1. p \in p..(NextInstr(m.code, p) - 1) /\ p \notin LabelSlots(m.code, p)
    BY <1>5
  <2> QED
    BY <1>9, <2>1
<1>11. m.code[p] = WASM_OP_BR_TABLE => m.code[p + 1] \in Nat
  BY <1>3, <1>4, CodesWellFormed, LP!BodyFacts DEF WASM_OP_BR_TABLE, LP!WASM_OP_BR_TABLE
<1>12. ASSUME NEW a \in LabelSlots(m.code, p)
       PROVE  /\ a + 1 + c[a] = m.labels[a].target
              /\ m.labels[a].target \in Nat /\ m.labels[a].height \in Nat
              /\ m.labels[a].arity \in Nat
              /\ m.labels[a].height + m.labels[a].arity =
                   m.height[f][p] - (IF m.code[p] = WASM_OP_BR THEN 0 ELSE 1)
  <2>1. /\ m.labels[a].target \in Nat /\ m.labels[a].height \in Nat
        /\ m.labels[a].arity \in Nat
        /\ m.labels[a].height + m.labels[a].arity =
             m.height[f][p] - (IF m.code[p] = WASM_OP_BR THEN 0 ELSE 1)
    BY <1>1, <1>2, <1>3 DEF Structured
  <2>2. a \in p..(NextInstr(m.code, p) - 1) /\ a \in Nat
    BY <1>5
  <2>3. c[a] = m.labels[a].target - (a + 1)
    BY <1>7, <1>8, <2>2
  <2>4. a + 1 + c[a] = m.labels[a].target
    <3>1. PICK t \in Nat : t = m.labels[a].target
      BY <2>1
    <3> QED
      BY <2>2, <2>3, <3>1
  <2> QED
    BY <2>1, <2>4
<1> QED
  BY <1>5, <1>9, <1>10, <1>11, <1>12

\* The lengths of the instructions, and where their labels are.
ShortOps == {WASM_OP_NOP, WASM_OP_END, WASM_OP_DROP, WASM_OP_SELECT} \cup UnaryOps \cup BinaryOps

ImmediateOps == BlockOps \cup LocalOps \cup GlobalOps \cup ConstOps \cup {WASM_OP_CALL}

LEMMA Lengths ==
  ASSUME NEW c, NEW p \in Int
  PROVE  /\ c[p] \in ShortOps => NextInstr(c, p) = p + 1
         /\ c[p] \in ImmediateOps \cup {WASM_OP_BR, WASM_OP_BR_IF} => NextInstr(c, p) = p + 2
         /\ c[p] \in LoadOps \cup StoreOps \cup {WASM_OP_CALL_INDIRECT} => NextInstr(c, p) = p + 3
         /\ c[p] = WASM_OP_BR_TABLE => NextInstr(c, p) = p + 1 + (c[p + 1] + 2)
         /\ c[p] \in ImmediateOps \cup {WASM_OP_CALL_INDIRECT} => LabelSlots(c, p) = {}
         /\ c[p] \in {WASM_OP_BR, WASM_OP_BR_IF} => LabelSlots(c, p) = {p + 1}
         /\ c[p] = WASM_OP_BR_TABLE => LabelSlots(c, p) = (p + 2)..(p + 2 + c[p + 1])
<1> USE DEF BlockOps, LocalOps, GlobalOps, ConstOps, LoadOps,
       StoreOps, UnaryOps, BinaryOps, WASM_OP_NOP, WASM_OP_END, WASM_OP_DROP,
       WASM_OP_SELECT, WASM_OP_I32_EQZ, WASM_OP_BLOCK, WASM_OP_LOOP,
       WASM_OP_LOCAL_GET, WASM_OP_LOCAL_SET, WASM_OP_LOCAL_TEE,
       WASM_OP_GLOBAL_GET, WASM_OP_GLOBAL_SET, WASM_OP_I32_CONST,
       WASM_OP_F64_CONST, WASM_OP_BR, WASM_OP_BR_IF, WASM_OP_CALL,
       WASM_OP_CALL_INDIRECT, WASM_OP_BR_TABLE, ShortOps, ImmediateOps
<1>1. c[p] \in ShortOps => NextInstr(c, p) = p + 1
  BY DEF NextInstr, Immediates
<1>2. c[p] \in ImmediateOps \cup {WASM_OP_BR, WASM_OP_BR_IF} => NextInstr(c, p) = p + 2
  BY DEF NextInstr, Immediates
<1>3. c[p] \in LoadOps \cup StoreOps \cup {WASM_OP_CALL_INDIRECT} => NextInstr(c, p) = p + 3
  BY DEF NextInstr, Immediates
<1>4. c[p] = WASM_OP_BR_TABLE => NextInstr(c, p) = p + 1 + (c[p + 1] + 2)
  BY DEF NextInstr, Immediates
<1>5. c[p] \in ImmediateOps \cup {WASM_OP_CALL_INDIRECT} => LabelSlots(c, p) = {}
  BY DEF LabelSlots
<1>6. /\ c[p] \in {WASM_OP_BR, WASM_OP_BR_IF} => LabelSlots(c, p) = {p + 1}
      /\ c[p] = WASM_OP_BR_TABLE => LabelSlots(c, p) = (p + 2)..(p + 2 + c[p + 1])
  BY DEF LabelSlots
<1> QED
  BY <1>1, <1>2, <1>3, <1>4, <1>5, <1>6

LEMMA ReadsAre ==
  ASSUME NEW m \in Modules, Structured(m), NEW f \in DOMAIN m.funcs, f >= m.num_imports,
         NEW p \in DOMAIN m.height[f], NEW c, c = Linked(m).code
  PROVE  /\ c[p] \in ShortOps \cup ImmediateOps \cup LoadOps \cup StoreOps
                       \cup {WASM_OP_BR_IF} => Wasm!NextInstr(m.code, p) = NextInstr(c, p)
         /\ c[p] \in ImmediateOps \cup {WASM_OP_CALL_INDIRECT, WASM_OP_BR_TABLE} =>
              c[p + 1] = m.code[p + 1]
         /\ c[p] = WASM_OP_BR_TABLE =>
              c[p + 1] \in Nat /\ \A j \in 0..c[p + 1] : p + 2 + j \in LabelSlots(m.code, p)
         /\ c[p] \in {WASM_OP_BR, WASM_OP_BR_IF} => p + 1 \in LabelSlots(m.code, p)
<1>1. /\ p \in Nat /\ c[p] = m.code[p]
      /\ m.code[p] = WASM_OP_BR_TABLE => m.code[p + 1] \in Nat
      /\ \A a \in p..(NextInstr(m.code, p) - 1) : a \notin LabelSlots(m.code, p) => c[a] = m.code[a]
  BY CodeIs
<1>2. p \in Int
  BY <1>1
<1>3. c[p] \in ShortOps \cup ImmediateOps \cup LoadOps \cup StoreOps \cup {WASM_OP_BR_IF} =>
        Wasm!NextInstr(m.code, p) = NextInstr(c, p)
  <2>1. Wasm!NextInstr(m.code, p) = NextInstr(m.code, p)
    BY SameInstrs
  <2>2. c[p] \in ShortOps => NextInstr(c, p) = p + 1 /\ NextInstr(m.code, p) = p + 1
    BY <1>1, <1>2, Lengths
  <2>3. c[p] \in ImmediateOps \cup {WASM_OP_BR_IF} =>
          NextInstr(c, p) = p + 2 /\ NextInstr(m.code, p) = p + 2
    BY <1>1, <1>2, Lengths
  <2>4. c[p] \in LoadOps \cup StoreOps => NextInstr(c, p) = p + 3 /\ NextInstr(m.code, p) = p + 3
    BY <1>1, <1>2, Lengths
  <2> QED
    BY <2>1, <2>2, <2>3, <2>4
<1>4. c[p] \in ImmediateOps \cup {WASM_OP_CALL_INDIRECT} => c[p + 1] = m.code[p + 1]
  <2> SUFFICES ASSUME c[p] \in ImmediateOps \cup {WASM_OP_CALL_INDIRECT}
               PROVE  c[p + 1] = m.code[p + 1]
    OBVIOUS
  <2>1. LabelSlots(m.code, p) = {} /\ NextInstr(m.code, p) \in {p + 2, p + 3}
    BY <1>1, <1>2, Lengths
  <2>2. p + 1 \in p..(NextInstr(m.code, p) - 1)
    BY <1>1, <2>1
  <2> QED
    BY <1>1, <2>1, <2>2
<1>5. ASSUME c[p] = WASM_OP_BR_TABLE
      PROVE  /\ c[p + 1] = m.code[p + 1] /\ c[p + 1] \in Nat
             /\ \A j \in 0..c[p + 1] : p + 2 + j \in LabelSlots(m.code, p)
  <2>1. PICK n \in Nat : n = m.code[p + 1]
    BY <1>1, <1>5
  <2>2. NextInstr(m.code, p) = p + 1 + (n + 2) /\ LabelSlots(m.code, p) = (p + 2)..(p + 2 + n)
    BY <1>1, <1>2, <1>5, <2>1, Lengths
  <2>3. p + 1 \in p..(NextInstr(m.code, p) - 1) /\ p + 1 \notin LabelSlots(m.code, p)
    BY <1>1, <2>2
  <2>4. c[p + 1] = n
    BY <1>1, <2>1, <2>3
  <2>5. \A j \in 0..n : p + 2 + j \in (p + 2)..(p + 2 + n)
    BY <1>1
  <2> QED
    BY <2>1, <2>2, <2>4, <2>5
<1>6. c[p] \in {WASM_OP_BR, WASM_OP_BR_IF} => p + 1 \in LabelSlots(m.code, p)
  BY <1>1, <1>2, Lengths
<1> QED
  BY <1>3, <1>4, <1>5, <1>6

-----------------------------------------------------------------------------
(***************************************************************************)
(* The interpreter at an instruction, with what RP knows of it.            *)
(***************************************************************************)
LEMMA SameInstrValid ==
  ASSUME NEW m, NEW f, NEW a PROVE RP!InstrValid(m, Value, f, a) <=> InstrValid(m, Value, f, a)
BY DEF RP!InstrValid,
   InstrValid, RP!WASM_OP_UNREACHABLE, WASM_OP_UNREACHABLE, RP!WASM_OP_NOP, WASM_OP_NOP,
   RP!WASM_OP_END, WASM_OP_END, RP!WASM_OP_BR, WASM_OP_BR, RP!WASM_OP_BR_IF, WASM_OP_BR_IF,
   RP!WASM_OP_BR_TABLE, WASM_OP_BR_TABLE, RP!WASM_OP_RETURN, WASM_OP_RETURN, RP!WASM_OP_CALL,
   WASM_OP_CALL, RP!WASM_OP_CALL_INDIRECT, WASM_OP_CALL_INDIRECT, RP!WASM_OP_DROP,
   WASM_OP_DROP, RP!WASM_OP_SELECT, WASM_OP_SELECT, RP!BlockOps, BlockOps, RP!LocalOps,
   LocalOps, RP!GlobalOps, GlobalOps, RP!ConstOps, ConstOps, RP!LoadOps, LoadOps, RP!StoreOps,
   StoreOps, RP!UnaryOps, UnaryOps, RP!BinaryOps, BinaryOps, RP!Effect, Effect, RP!MayGo,
   MayGo, RP!OffsetTarget, OffsetTarget, RP!MayCall, MayCall, RP!Slots, Slots,
   RP!WASM_OP_LOCAL_GET, WASM_OP_LOCAL_GET, RP!WASM_OP_LOCAL_SET, WASM_OP_LOCAL_SET,
   RP!WASM_OP_LOCAL_TEE, WASM_OP_LOCAL_TEE, RP!WASM_OP_GLOBAL_GET, WASM_OP_GLOBAL_GET,
   RP!WASM_OP_GLOBAL_SET, WASM_OP_GLOBAL_SET, RP!WASM_OP_BLOCK, WASM_OP_BLOCK, RP!WASM_OP_LOOP,
   WASM_OP_LOOP, RP!WASM_OP_I32_CONST, WASM_OP_I32_CONST, RP!WASM_OP_F64_CONST,
   WASM_OP_F64_CONST, RP!WASM_OP_I32_EQZ, WASM_OP_I32_EQZ, RP!NextInstr, NextInstr,
   RP!Immediates, Immediates

InLoop == WInv /\ returned /\ phase = "running" /\ Structured(module)

\* The values below the frame above the suspended frame j.
TopOf(j) == IF j = Len(frames) THEN locals ELSE frames[j + 1].locals

LEMMA InLoopIs ==
  ASSUME InLoop
  PROVE  /\ module \in Modules /\ prog = Linked(module) /\ Valid(prog, Value)
         /\ fn_idx \in DOMAIN module.funcs /\ fn_idx >= module.num_imports
         /\ ip \in DOMAIN module.height[fn_idx] /\ ip \in Nat
         /\ locals \in Nat /\ op_ptr \in Nat /\ op \in Seq(Value) /\ Len(op) \in Nat
         /\ Slots(prog, fn_idx) \in Nat /\ locals + Slots(prog, fn_idx) <= op_ptr
         /\ module.height[fn_idx][ip] \in Nat
         /\ op_ptr + module.height[fn_idx][ip] = Len(op)
         /\ InstrValid(prog, Value, fn_idx, ip)
<1>1. /\ module \in Modules /\ prog = Linked(module) /\ RP!IInv
  BY DEF InLoop, WInv
<1>2. /\ prog.height = module.height /\ prog.funcs = module.funcs
      /\ prog.num_imports = module.num_imports /\ prog.exact = module.exact
  BY <1>1, LinkedIs DEF Fields
<1>3. /\ locals \in Nat /\ op_ptr \in Nat /\ op \in Seq(Value) /\ Len(op) \in Nat
      /\ RP!Slots(prog, fn_idx) \in Nat /\ locals + RP!Slots(prog, fn_idx) <= op_ptr
      /\ prog.height[fn_idx][ip] \in Nat
      /\ prog.exact => op_ptr + prog.height[fn_idx][ip] = Len(op)
      /\ RP!InstrValid(prog, Value, fn_idx, ip)
  BY <1>1, LinkedValid, LoopConstants, RP!AtInstruction DEF InLoop
<1>4. prog.exact
  BY <1>2 DEF InLoop, Structured
<1>5. Valid(prog, Value)
  BY <1>1, ModulesAssumption
<1>6. /\ fn_idx \in DOMAIN prog.funcs /\ fn_idx >= prog.num_imports
      /\ ip \in DOMAIN prog.height[fn_idx]
  BY <1>1 DEF InLoop, RP!IInv, RP!CurrentOK
<1>7. ip \in Nat
  BY <1>1, <1>2, <1>6, CodeIs DEF InLoop
<1> QED
  BY <1>1, <1>2, <1>3, <1>4, <1>5, <1>6, <1>7, SameInstrValid DEF RP!Slots, Slots

\* The frames lie one above the other.
LEMMA CallersBelow ==
  ASSUME InLoop
  PROVE  /\ Len(frames) \in Nat /\ DOMAIN frames = 1..Len(frames)
         /\ \A j \in 1..Len(frames) :
              /\ frames[j].locals \in Nat /\ frames[j].op_ptr \in Nat
              /\ frames[j].fn_idx \in DOMAIN module.funcs
              /\ frames[j].locals <= frames[j].op_ptr /\ frames[j].op_ptr <= TopOf(j)
              /\ TopOf(j) \in Nat /\ TopOf(j) <= locals
<1>1. /\ frames \in Seq(RP!Context) /\ RP!CallersOK /\ prog = Linked(module) /\ module \in Modules
  BY DEF InLoop, WInv, RP!IInv, RP!TypeOK
<1>2. PICK n \in Nat : n = Len(frames)
  BY <1>1, LenProperties
<1>3. /\ DOMAIN frames = 1..n
      /\ \A j \in 1..n : frames[j].locals \in Nat /\ frames[j].op_ptr \in Nat
  <2>1. DOMAIN frames = 1..n /\ \A j \in 1..n : frames[j] \in RP!Context
    BY <1>1, <1>2, LenProperties, ElementOfSeq
  <2> QED
    BY <2>1 DEF RP!Context
<1>4. locals \in Nat /\ Valid(prog, Value) /\ prog.funcs = module.funcs
  BY <1>1, InLoopIs, LinkedIs DEF Fields
<1>5. \A j \in 1..n : /\ frames[j].locals <= frames[j].op_ptr /\ frames[j].op_ptr <= TopOf(j)
                      /\ TopOf(j) \in Nat /\ frames[j].fn_idx \in DOMAIN module.funcs
  <2> TAKE j \in 1..n
  <2>1. TopOf(j) \in Nat
    <3>1. j = n \/ j + 1 \in 1..n
      OBVIOUS
    <3> QED
      BY <1>2, <1>3, <1>4, <3>1 DEF TopOf
  <2>2. \E g : RP!SuspendedOK(prog, frames[j], TopOf(j), g)
    BY <1>1, <1>2 DEF RP!CallersOK, TopOf
  <2>3. /\ frames[j].fn_idx \in DOMAIN prog.funcs /\ frames[j].op_ptr <= TopOf(j)
        /\ frames[j].locals + RP!Slots(prog, frames[j].fn_idx) <= frames[j].op_ptr
    BY <2>2 DEF RP!SuspendedOK
  <2>4. RP!Slots(prog, frames[j].fn_idx) \in Nat
    <3>1. PICK f \in DOMAIN prog.funcs : f = frames[j].fn_idx
      BY <2>3
    <3>2. prog.funcs[f].num_params \in Nat /\ prog.funcs[f].num_locals \in Nat
      BY <1>4 DEF Valid
    <3> QED
      BY <3>1, <3>2 DEF RP!Slots
  <2>5. frames[j].locals <= frames[j].op_ptr
    <3>1. PICK k \in Nat : k = RP!Slots(prog, frames[j].fn_idx)
      BY <2>4
    <3>2. PICK a \in Nat, b \in Nat : a = frames[j].locals /\ b = frames[j].op_ptr
      BY <1>3
    <3> QED
      BY <2>3, <3>1, <3>2
  <2> QED
    BY <1>4, <2>1, <2>3, <2>5
<1>6. ASSUME n > 0 PROVE \A j \in 1..n : TopOf(j) <= locals
  <2> DEFINE T == {d \in 0..(n - 1) : TopOf(n - d) <= locals}
  <2>1. 0 \in T
    BY <1>2, <1>4, <1>6 DEF TopOf
  <2>2. ASSUME NEW d \in 1..(n - 1), d - 1 \in T PROVE d \in T
    <3>1. PICK j \in 1..n : j = n - d
      BY <2>2
    <3>2. PICK k \in 1..n : k = j + 1 /\ k = n - (d - 1)
      BY <2>2, <3>1
    <3>3. TopOf(k) <= locals
      BY <2>2, <3>2
    <3>4. TopOf(j) = frames[k].locals
      BY <1>2, <2>2, <3>1, <3>2 DEF TopOf
    <3>5. TopOf(j) <= locals
      BY <1>3, <1>4, <1>5, <3>3, <3>4
    <3> QED
      BY <2>2, <3>1, <3>5
  <2>3. 0..(n - 1) \subseteq T
    <3>1. PICK N \in Nat : N = n - 1
      <4>1. n - 1 \in Nat
        BY <1>6
      <4> QED
        BY <4>1, Zenon
    <3>2. \A d \in 1..N : d - 1 \in T => d \in T
      BY <2>2, <3>1
    <3> HIDE DEF T
    <3>3. 0..N \subseteq T
      BY <2>1, <3>2, CodesWellFormed, LP!UpTo
    <3> QED
      BY <3>1, <3>3
  <2>4. TAKE j \in 1..n
  <2>5. n - j \in 0..(n - 1) /\ n - (n - j) = j
    OBVIOUS
  <2>6. TopOf(n - (n - j)) <= locals
    BY <2>3, <2>5
  <2> QED
    BY <2>5, <2>6
<1>7. \A j \in 1..n : n > 0
  OBVIOUS
<1> QED
  BY <1>2, <1>3, <1>5, <1>6, <1>7

-----------------------------------------------------------------------------
(***************************************************************************)
(* The abstract machine's activations: a list of slices.                   *)
(***************************************************************************)
Suspended(j) ==
  [fn     |-> frames[j].fn_idx,
   pc     |-> frames[j].ret_addr,
   locals |-> Slice(op, frames[j].locals, frames[j].op_ptr),
   stack  |-> Slice(op, frames[j].op_ptr, TopOf(j))]

Current ==
  [fn |-> fn_idx, pc |-> ip, locals |-> Slice(op, locals, op_ptr), stack |-> Above(op, op_ptr)]

Active ==
  [j \in 1..(Len(frames) + 1) |-> IF j = Len(frames) + 1 THEN Current ELSE Suspended(j)]

LEMMA ListAppend ==
  ASSUME NEW n \in Nat, NEW F(_), NEW e
  PROVE  Append([j \in 1..n |-> F(j)], e) = [j \in 1..(n + 1) |-> IF j = n + 1 THEN e ELSE F(j)]
<1> DEFINE S == {F(j) : j \in 1..n} \cup {e}
           s == [j \in 1..n |-> F(j)]
           t == [j \in 1..(n + 1) |-> IF j = n + 1 THEN e ELSE F(j)]
<1>1. s \in Seq(S) /\ t \in Seq(S) /\ e \in S
  <2>1. s \in [1..n -> S] /\ t \in [1..(n + 1) -> S]
    OBVIOUS
  <2> HIDE DEF S, s, t
  <2> QED
    BY <2>1 DEF S
<1>2. DOMAIN s = 1..n /\ DOMAIN t = 1..(n + 1) /\ \A j \in 1..n : s[j] = F(j) /\ t[j] = F(j)
  OBVIOUS
<1>3. t[n + 1] = e
  OBVIOUS
<1> HIDE DEF S, s, t
<1>4. Len(s) = n /\ Len(t) = n + 1
  BY <1>1, <1>2, LenProperties
<1>5. /\ Append(s, e) \in Seq(S) /\ Len(Append(s, e)) = n + 1
      /\ Append(s, e)[n + 1] = e /\ \A j \in 1..n : Append(s, e)[j] = s[j]
  BY <1>1, <1>4, AppendProperties
<1>6. Append(s, e) = t
  BY <1>1, <1>2, <1>3, <1>4, <1>5, SeqEqual
<1> QED
  BY <1>6 DEF s, t

LEMMA ActivationsAre == InLoop => Loop!Activations = Active
<1> SUFFICES ASSUME InLoop PROVE Loop!Activations = Active
  OBVIOUS
<1>1. PICK n \in Nat : n = Len(frames)
  BY CallersBelow
<1>2. \A j \in 1..n : Loop!ActivationAt(j) = Suspended(j)
  <2> TAKE j \in 1..n
  <2>1. j # n + 1 /\ (j + 1 = n + 1 <=> j = n)
    OBVIOUS
  <2> QED
    BY <1>1, <2>1
       DEF Loop!ActivationAt, Suspended, Loop!FnAt, Loop!IpAt, Loop!LocalsAt, Loop!OpPtrAt,
           Loop!TopAt, TopOf, Slice, Loop!Depth
<1>3. Loop!ActivationAt(Loop!Depth) = Current
  BY DEF Loop!ActivationAt, Current, Loop!FnAt, Loop!IpAt, Loop!LocalsAt, Loop!OpPtrAt,
         Loop!TopAt, Slice, Above
<1>4. Loop!Activations = Append([j \in 1..n |-> Suspended(j)], Current)
  <2>1. [j \in 1..n |-> Loop!ActivationAt(j)] = [j \in 1..n |-> Suspended(j)]
    BY <1>2
  <2> QED
    BY <1>1, <1>3, <2>1 DEF Loop!Activations, InLoop
<1>5. Append([j \in 1..n |-> Suspended(j)], Current) =
        [j \in 1..(n + 1) |-> IF j = n + 1 THEN Current ELSE Suspended(j)]
  BY ListAppend
<1> QED
  BY <1>1, <1>4, <1>5 DEF Active

LEMMA ActivationsNext == InLoop' => (Loop!Activations = Active)'
BY ActivationsAre, PTL

LEMMA CurrentIs ==
  ASSUME InLoop
  PROVE  /\ Len(Loop!Activations) = Len(frames) + 1 /\ Len(frames) \in Nat
         /\ Loop!Activations[Len(frames) + 1] = Current
         /\ Wasm!cur = Current
<1>1. PICK n \in Nat : n = Len(frames)
  BY CallersBelow
<1>2. Loop!Activations = [j \in 1..(n + 1) |-> IF j = n + 1 THEN Current ELSE Suspended(j)]
  BY <1>1, ActivationsAre DEF Active
<1>3. PICK A : A = Loop!Activations
  OBVIOUS
<1>4. A = [j \in 1..(n + 1) |-> IF j = n + 1 THEN Current ELSE Suspended(j)]
  BY <1>2, <1>3
<1>5. Len(A) = n + 1
  BY <1>4
<1>6. A[n + 1] = Current
  BY <1>4
<1> QED
  BY <1>1, <1>3, <1>5, <1>6 DEF Wasm!cur

-----------------------------------------------------------------------------
(***************************************************************************)
(* A step within the frame: the activations below it stay, and what it     *)
(* does above its pointers the abstract machine does to its own lists.     *)
(***************************************************************************)
LEMMA SuspendedSame ==
  ASSUME InLoop, NEW j \in 1..Len(frames), NEW s \in Seq(Value), locals <= Len(s),
         \A k \in 1..locals : s[k] = op[k]
  PROVE  /\ Slice(s, frames[j].locals, frames[j].op_ptr) = Slice(op, frames[j].locals, frames[j].op_ptr)
         /\ Slice(s, frames[j].op_ptr, TopOf(j)) = Slice(op, frames[j].op_ptr, TopOf(j))
<1>1. PICK a \in Nat, b \in Nat, c \in Nat, l \in Nat :
        /\ a = frames[j].locals /\ b = frames[j].op_ptr /\ c = TopOf(j) /\ l = locals
        /\ a <= b /\ b <= c /\ c <= l
  BY CallersBelow, InLoopIs
<1>2. op \in Seq(Value) /\ l <= Len(op) /\ Len(op) \in Nat /\ Len(s) \in Nat /\ l <= Len(s)
  <2>1. PICK p \in Nat, k \in Nat, h \in Nat :
          /\ p = op_ptr /\ k = Slots(prog, fn_idx) /\ h = module.height[fn_idx][ip]
          /\ l + k <= p /\ p + h = Len(op)
    BY <1>1, InLoopIs
  <2> QED
    BY <1>1, <2>1, InLoopIs, LenProperties, SMTT(60)
<1>3. \A k \in 1..l : s[k] = op[k]
  BY <1>1
<1>4. Slice(s, a, b) = Slice(op, a, b)
  <2>1. b <= Len(s) /\ b <= Len(op) /\ \A k \in (a + 1)..b : s[k] = op[k]
    BY <1>1, <1>2, <1>3
  <2> QED
    BY <1>1, <1>2, <2>1, SliceSame
<1>5. Slice(s, b, c) = Slice(op, b, c)
  <2>1. c <= Len(s) /\ c <= Len(op) /\ \A k \in (b + 1)..c : s[k] = op[k]
    BY <1>1, <1>2, <1>3, SMTT(60)
  <2> QED
    BY <1>1, <1>2, <2>1, SliceSame
<1> QED
  BY <1>1, <1>4, <1>5

LoopsOn == phase' = "running" => InLoop'

LEMMA InFrame ==
  ASSUME InLoop, LoopsOn, module' = module, NEW target, NEW s \in Seq(Value),
         Loop!Continue(target, s), op_ptr <= Len(s), \A k \in 1..locals : s[k] = op[k]
  PROVE  Wasm!Goto(target, Above(s, op_ptr), Slice(s, locals, op_ptr))
<1>1. /\ ip' = target /\ op' = s /\ prog' = prog /\ phase' = phase /\ fn_idx' = fn_idx
      /\ locals' = locals /\ op_ptr' = op_ptr /\ frames' = frames
      /\ return_result' = return_result
  BY DEF Loop!Continue
<1>2. PICK n \in Nat : n = Len(frames)
  BY CallersBelow
<1>3. locals <= Len(s)
  <2>1. PICK p \in Nat, k \in Nat, l \in Nat :
          p = op_ptr /\ k = Slots(prog, fn_idx) /\ l = locals /\ l + k <= p
    BY InLoopIs
  <2> QED
    BY <2>1, LenProperties
<1>4. \A j \in 1..n : Suspended(j)' = Suspended(j)
  <2> TAKE j \in 1..n
  <2>1. /\ Slice(s, frames[j].locals, frames[j].op_ptr) = Slice(op, frames[j].locals, frames[j].op_ptr)
        /\ Slice(s, frames[j].op_ptr, TopOf(j)) = Slice(op, frames[j].op_ptr, TopOf(j))
    BY <1>2, <1>3, SuspendedSame
  <2>2. TopOf(j)' = TopOf(j)
    BY <1>1 DEF TopOf
  <2> QED
    BY <1>1, <2>1, <2>2 DEF Suspended
<1> DEFINE new == [fn |-> fn_idx, pc |-> target, locals |-> Slice(s, locals, op_ptr),
                   stack |-> Above(s, op_ptr)]
<1>5. Current' = new
  BY <1>1 DEF Current
<1>6. PICK A : A = Loop!Activations
  OBVIOUS
<1>7. A = [j \in 1..(n + 1) |-> IF j = n + 1 THEN Current ELSE Suspended(j)] /\ Len(A) = n + 1
  BY <1>2, <1>6, ActivationsAre, CurrentIs DEF Active
<1>8. Loop!Activations' = [A EXCEPT ![Len(A)] = new]
  <2>1. Loop!Activations' = Active'
    <3>1. phase' = "running"
      BY <1>1 DEF InLoop
    <3> QED
      BY <3>1, ActivationsNext DEF LoopsOn
  <2>2. Active' = [j \in 1..(n + 1) |-> IF j = n + 1 THEN Current' ELSE Suspended(j)']
    BY <1>1, <1>2 DEF Active
  <2>3. Active' = [j \in 1..(n + 1) |-> IF j = n + 1 THEN new ELSE Suspended(j)]
    <3> HIDE DEF new
    <3> QED
      BY <1>4, <1>5, <2>2
  <2> HIDE DEF new
  <2> QED
    BY <1>7, <2>1, <2>3
<1>9. Loop!InStart' = Loop!InStart
  BY <1>1 DEF Loop!InStart, Loop!FnAt, Loop!Depth
<1>10. Wasm!cur.fn = fn_idx
  BY CurrentIs DEF Current
<1> QED
  BY <1>1, <1>6, <1>8, <1>9, <1>10 DEF Wasm!Goto

\* The n operands an instruction pops are above the frame's pointers, and the
\* same in both machines.
LEMMA PopIs ==
  ASSUME InLoop, NEW n \in Nat, n <= module.height[fn_idx][ip]
  PROVE  /\ Loop!Below(n) \in Seq(Value) /\ Len(Loop!Below(n)) = Len(op) - n
         /\ op_ptr <= Len(Loop!Below(n))
         /\ \A k \in 1..Len(Loop!Below(n)) : Loop!Below(n)[k] = op[k]
         /\ Above(Loop!Below(n), op_ptr) = Wasm!Below(n)
<1>1. PICK h \in Nat : h = module.height[fn_idx][ip]
  BY InLoopIs
<1>2. op \in Seq(Value) /\ op_ptr \in Nat /\ Len(op) \in Nat /\ op_ptr + h = Len(op) /\ n <= h
  BY <1>1, InLoopIs
<1>3. PICK len \in Nat, m \in Nat :
        len = Len(op) /\ m = len - n /\ m <= len /\ op_ptr <= m /\ op_ptr <= len
  <2>0. PICK len \in Nat : len = Len(op)
    BY <1>2
  <2>1. len - n \in Nat /\ len - n <= len /\ op_ptr <= len - n /\ op_ptr <= len
    BY <1>2, <2>0
  <2> QED
    BY <2>0, <2>1, Zenon
<1>4. PICK r : r = Prefix(op, m)
  OBVIOUS
<1>5. r \in Seq(Value) /\ Len(r) = m /\ \A k \in 1..m : r[k] = op[k]
  BY <1>2, <1>3, <1>4, AbovePop, ZenonT(60)
<1>6. PICK t, j : t = Above(op, op_ptr) /\ j = m - op_ptr
  OBVIOUS
<1>7. Above(r, op_ptr) = Prefix(t, j)
  BY <1>2, <1>3, <1>4, <1>6, AbovePop
<1>8. Wasm!Below(n) = Prefix(t, j)
  <2>1. Len(t) = len - op_ptr
    BY <1>2, <1>3, <1>6, AboveIs
  <2>2. j = Len(t) - n
    BY <1>2, <1>3, <1>6, <2>1
  <2> QED
    BY <1>6, <2>2, CurrentIs DEF Current, Wasm!Below, Prefix
<1>9. Loop!Below(n) = r
  BY <1>3, <1>4 DEF Loop!Below, Prefix
<1> QED
  BY <1>3, <1>5, <1>7, <1>8, <1>9

LEMMA OperandsAre ==
  ASSUME InLoop, NEW j \in Nat, j < module.height[fn_idx][ip]
  PROVE  Loop!Operand(j) \in Value /\ Wasm!Operand(j) = Loop!Operand(j)
<1>1. PICK h \in Nat : h = module.height[fn_idx][ip]
  BY InLoopIs
<1>2. PICK len \in Nat, a \in Nat : len = Len(op) /\ a = op_ptr
  BY InLoopIs
<1>3. op \in Seq(Value) /\ a + h = len /\ j < h /\ a <= len
  BY <1>1, <1>2, InLoopIs
<1>4. PICK t : t = Above(op, a)
  OBVIOUS
<1>5. t \in Seq(Value) /\ Len(t) = len - a /\ \A k \in 1..(len - a) : t[k] = op[a + k]
  BY <1>2, <1>3, <1>4, AboveIs
<1>6. Wasm!cur.stack = t
  BY <1>2, <1>4, CurrentIs DEF Current
<1>7. (len - a) - j \in 1..(len - a) /\ a + ((len - a) - j) = len - j /\ len - j \in 1..len
  BY <1>3
<1>8. Wasm!Operand(j) = t[(len - a) - j]
  BY <1>5, <1>6 DEF Wasm!Operand
<1>9. Loop!Operand(j) = op[len - j]
  BY <1>2 DEF Loop!Operand
<1>10. op[len - j] \in Value
  BY <1>2, <1>3, <1>7, ElementOfSeq
<1> QED
  BY <1>5, <1>7, <1>8, <1>9, <1>10

LEMMA EmptyPop ==
  ASSUME InLoop
  PROVE  Loop!Below(0) = op /\ Wasm!Below(0) = Wasm!cur.stack
<1>1. op \in Seq(Value) /\ Len(op) \in Nat /\ op_ptr \in Nat /\ op_ptr <= Len(op)
  <2>1. PICK h \in Nat : h = module.height[fn_idx][ip]
    BY InLoopIs
  <2> QED
    BY <2>1, InLoopIs
<1>2. ASSUME NEW s \in Seq(Value) PROVE SubSeq(s, 1, Len(s) - 0) = s
  <2>1. PICK len \in Nat : len = Len(s) /\ len - 0 = len
    BY LenProperties
  <2>2. PICK r : r = SubSeq(s, 1, len)
    OBVIOUS
  <2>3. r \in Seq(Value) /\ Len(r) = len /\ \A k \in 1..len : r[k] = s[k]
    BY <2>1, <2>2, PrefixIs
  <2>4. r = s
    BY <2>1, <2>3, SeqEqual
  <2> QED
    BY <2>1, <2>2, <2>4
<1>3. Loop!Below(0) = op
  BY <1>1, <1>2 DEF Loop!Below
<1>4. PICK t \in Seq(Value) : t = Above(op, op_ptr)
  <2>1. PICK len \in Nat : len = Len(op) /\ op_ptr <= len
    BY <1>1
  <2> QED
    BY <1>1, <2>1, AboveIs
<1>5. Wasm!cur.stack = t
  BY <1>4, CurrentIs DEF Current
<1>6. Wasm!Below(0) = t
  BY <1>2, <1>5 DEF Wasm!Below
<1> QED
  BY <1>3, <1>5, <1>6

\* The locals stay where the operand stack above them changes.
LEMMA LocalsSame ==
  ASSUME InLoop, NEW s \in Seq(Value), op_ptr <= Len(s), \A k \in 1..op_ptr : s[k] = op[k]
  PROVE  /\ Slice(s, locals, op_ptr) = Wasm!cur.locals
         /\ \A k \in 1..locals : s[k] = op[k]
<1>1. PICK p \in Nat, k \in Nat, l \in Nat, h \in Nat :
        /\ p = op_ptr /\ k = Slots(prog, fn_idx) /\ l = locals /\ l + k <= p
        /\ h = module.height[fn_idx][ip] /\ p + h = Len(op)
  BY InLoopIs
<1>2. l <= p /\ p <= Len(op) /\ op \in Seq(Value) /\ Len(op) \in Nat /\ p <= Len(s)
  BY <1>1, InLoopIs
<1>3. \A j \in (l + 1)..p : s[j] = op[j]
  BY <1>1
<1>4. Slice(s, l, p) = Slice(op, l, p)
  BY <1>2, <1>3, SliceSame
<1>5. Wasm!cur.locals = Slice(op, locals, op_ptr)
  BY CurrentIs DEF Current
<1>6. \A j \in 1..l : s[j] = op[j]
  BY <1>1, <1>2
<1> QED
  BY <1>1, <1>4, <1>5, <1>6

LEMMA PopStep ==
  ASSUME InLoop, LoopsOn, module' = module, NEW n \in Nat, n <= module.height[fn_idx][ip],
         NEW target, Loop!Continue(target, Loop!Below(n))
  PROVE  Wasm!Goto(target, Wasm!Below(n), Wasm!cur.locals)
<1>1. PICK r : r = Loop!Below(n)
  OBVIOUS
<1>2. /\ r \in Seq(Value) /\ op_ptr <= Len(r) /\ \A k \in 1..Len(r) : r[k] = op[k]
      /\ Above(r, op_ptr) = Wasm!Below(n)
  BY <1>1, PopIs
<1>3. op_ptr \in Nat /\ Len(r) \in Nat
  BY <1>2, InLoopIs, LenProperties
<1>4. \A k \in 1..op_ptr : r[k] = op[k]
  BY <1>2, <1>3
<1>5. Slice(r, locals, op_ptr) = Wasm!cur.locals /\ \A k \in 1..locals : r[k] = op[k]
  BY <1>2, <1>4, LocalsSame
<1>6. Loop!Continue(target, r)
  BY <1>1
<1>7. Wasm!Goto(target, Above(r, op_ptr), Slice(r, locals, op_ptr))
  BY <1>2, <1>5, <1>6, InFrame
<1> QED
  BY <1>2, <1>5, <1>7

LEMMA PushStep ==
  ASSUME InLoop, LoopsOn, module' = module, NEW n \in Nat, n <= module.height[fn_idx][ip],
         NEW v \in Value, NEW target, Loop!Continue(target, Append(Loop!Below(n), v))
  PROVE  Wasm!Goto(target, Append(Wasm!Below(n), v), Wasm!cur.locals)
<1>1. PICK r : r = Loop!Below(n)
  OBVIOUS
<1>2. /\ r \in Seq(Value) /\ op_ptr <= Len(r) /\ \A k \in 1..Len(r) : r[k] = op[k]
      /\ Above(r, op_ptr) = Wasm!Below(n)
  BY <1>1, PopIs
<1>3. op_ptr \in Nat /\ Len(r) \in Nat
  BY <1>2, InLoopIs, LenProperties
<1>4. PICK s : s = Append(r, v)
  OBVIOUS
<1>5. /\ s \in Seq(Value) /\ Len(s) = Len(r) + 1 /\ \A k \in 1..Len(r) : s[k] = r[k]
      /\ Above(s, op_ptr) = Append(Above(r, op_ptr), v)
  BY <1>2, <1>3, <1>4, AbovePush
<1>6. op_ptr <= Len(s) /\ \A k \in 1..op_ptr : s[k] = op[k]
  BY <1>2, <1>3, <1>5
<1>7. Slice(s, locals, op_ptr) = Wasm!cur.locals /\ \A k \in 1..locals : s[k] = op[k]
  BY <1>5, <1>6, LocalsSame
<1>8. Loop!Continue(target, s)
  BY <1>1, <1>4
<1>9. Wasm!Goto(target, Above(s, op_ptr), Slice(s, locals, op_ptr))
  BY <1>5, <1>6, <1>7, <1>8, InFrame
<1> QED
  BY <1>2, <1>5, <1>7, <1>9

-----------------------------------------------------------------------------
(***************************************************************************)
(* The instructions, one after the other.                                  *)
(***************************************************************************)
LEMMA SameModule ==
  ASSUME WInv, returned
  PROVE  /\ prog.funcs = module.funcs /\ prog.num_imports = module.num_imports
         /\ prog.height = module.height /\ prog.sigs = module.sigs /\ prog.table = module.table
         /\ prog.globals = module.globals /\ prog.args = module.args
         /\ prog.arg_types_match = module.arg_types_match
         /\ prog.has_start = module.has_start /\ prog.main_idx = module.main_idx
         /\ prog.start_idx = module.start_idx /\ prog.labels = module.labels
         /\ prog.num_funcs = module.num_funcs
BY LinkedIs, ZenonT(60) DEF WInv, Fields

LEMMA SameOps ==
  /\ Loop!BlockOps = BlockOps /\ Wasm!BlockOps = BlockOps
  /\ Loop!ConstOps = ConstOps /\ Wasm!ConstOps = ConstOps
  /\ Loop!LoadOps = LoadOps /\ Wasm!LoadOps = LoadOps
  /\ Loop!StoreOps = StoreOps /\ Wasm!StoreOps = StoreOps
  /\ Loop!UnaryOps = UnaryOps /\ Wasm!UnaryOps = UnaryOps
  /\ Loop!BinaryOps = BinaryOps /\ Wasm!BinaryOps = BinaryOps
BY DEF Loop!BlockOps, BlockOps, Wasm!BlockOps, Loop!ConstOps, ConstOps, Wasm!ConstOps,
       Loop!LoadOps, LoadOps, Wasm!LoadOps, Loop!StoreOps, StoreOps, Wasm!StoreOps,
       Loop!UnaryOps, UnaryOps, Wasm!UnaryOps, Loop!BinaryOps, BinaryOps, Wasm!BinaryOps,
       Loop!WASM_OP_BLOCK, WASM_OP_BLOCK, Wasm!WASM_OP_BLOCK, Loop!WASM_OP_LOOP, WASM_OP_LOOP,
       Wasm!WASM_OP_LOOP, Loop!WASM_OP_I32_CONST, WASM_OP_I32_CONST, Wasm!WASM_OP_I32_CONST,
       Loop!WASM_OP_F64_CONST, WASM_OP_F64_CONST, Wasm!WASM_OP_F64_CONST,
       Loop!WASM_OP_I32_EQZ, WASM_OP_I32_EQZ, Wasm!WASM_OP_I32_EQZ

\* What is fetched is what the abstract machine is at.
LEMMA AtIs ==
  ASSUME InLoop, NEW S, Loop!Fetch(S)
  PROVE  /\ prog.code[ip] \in S /\ Wasm!At(S) /\ Wasm!cur.pc = ip
         /\ prog.code[ip] = module.code[ip]
<1>1. prog.code[ip] \in S /\ phase = "running"
  BY DEF Loop!Fetch
<1>2. prog.code[ip] = module.code[ip]
  BY InLoopIs, CodeIs DEF InLoop
<1>3. Wasm!cur.pc = ip
  BY CurrentIs DEF Current
<1> QED
  BY <1>1, <1>2, <1>3 DEF Wasm!At, Wasm!code

LEMMA NextIs ==
  ASSUME InLoop,
         prog.code[ip] \in ShortOps \cup ImmediateOps \cup LoadOps \cup StoreOps \cup {WASM_OP_BR_IF}
  PROVE  Wasm!NextInstr(Wasm!code, Wasm!cur.pc) = NextInstr(prog.code, ip)
<1>1. Wasm!cur.pc = ip /\ Wasm!code = module.code
  BY CurrentIs DEF Current, Wasm!code
<1>2. Wasm!NextInstr(module.code, ip) = NextInstr(prog.code, ip)
  BY InLoopIs, ReadsAre DEF InLoop
<1> QED
  BY <1>1, <1>2

LEMMA AdvancePop ==
  ASSUME InLoop, LoopsOn, module' = module, NEW n \in Nat, n <= module.height[fn_idx][ip],
         prog.code[ip] \in ShortOps \cup ImmediateOps \cup LoadOps \cup StoreOps \cup {WASM_OP_BR_IF},
         NEW target, target = NextInstr(prog.code, ip), Loop!Continue(target, Loop!Below(n)),
         UNCHANGED globals
  PROVE  Wasm!Advance(Wasm!Below(n))
<1>1. Wasm!Goto(target, Wasm!Below(n), Wasm!cur.locals)
  BY PopStep
<1>2. Wasm!NextInstr(Wasm!code, Wasm!cur.pc) = target
  BY NextIs
<1> QED
  BY <1>1, <1>2 DEF Wasm!Advance

LEMMA AdvancePush ==
  ASSUME InLoop, LoopsOn, module' = module, NEW n \in Nat, n <= module.height[fn_idx][ip],
         prog.code[ip] \in ShortOps \cup ImmediateOps \cup LoadOps \cup StoreOps \cup {WASM_OP_BR_IF},
         NEW v \in Value, NEW target, target = NextInstr(prog.code, ip),
         Loop!Continue(target, Append(Loop!Below(n), v)), UNCHANGED globals
  PROVE  Wasm!Advance(Append(Wasm!Below(n), v))
<1>1. Wasm!Goto(target, Append(Wasm!Below(n), v), Wasm!cur.locals)
  BY PushStep
<1>2. Wasm!NextInstr(Wasm!code, Wasm!cur.pc) = target
  BY NextIs
<1> QED
  BY <1>1, <1>2 DEF Wasm!Advance

LEMMA StopStep ==
  ASSUME InLoop, module' = module, NEW why \in {"trapped", "overrun"}, phase' = why,
         UNCHANGED <<prog, ip, fn_idx, op, locals, op_ptr, frames, globals, return_result>>
  PROVE  Wasm!Stop(IF why = "overrun" THEN "exhausted" ELSE "trapped")
<1>1. phase = "running"
  BY DEF InLoop
<1>2. Loop!Activations' = <<>>
  BY DEF Loop!Activations
<1>3. Loop!InStart' = Loop!InStart
  BY <1>1 DEF Loop!InStart, Loop!FnAt, Loop!Depth
<1> QED
  BY <1>2, <1>3 DEF Wasm!Stop

LEMMA TrapStep ==
  ASSUME InLoop, module' = module, Loop!DoTrap
  PROVE  Wasm!Stop("trapped")
BY StopStep DEF Loop!DoTrap

LEMMA NopStep ==
  ASSUME InLoop, LoopsOn, module' = module, Loop!Nop \/ Loop!EnterBlock \/ Loop!EndBlock
  PROVE  Wasm!SimpleOp
<1> DEFINE target == NextInstr(prog.code, ip)
<1>1. ip \in Int /\ module.height[fn_idx][ip] \in Nat /\ 0 <= module.height[fn_idx][ip]
  BY InLoopIs
<1>2. ASSUME prog.code[ip] \in ShortOps \cup ImmediateOps, Loop!Continue(target, op), UNCHANGED globals
      PROVE  Wasm!Advance(Wasm!cur.stack)
  <2>1. Loop!Continue(target, Loop!Below(0))
    BY <1>2, EmptyPop
  <2> HIDE DEF target
  <2>2. Wasm!Advance(Wasm!Below(0))
    BY <1>1, <1>2, <2>1, AdvancePop DEF target
  <2> QED
    BY <2>2, EmptyPop
<1>3. CASE Loop!Nop
  <2>1. Loop!Fetch({WASM_OP_NOP}) /\ Loop!Continue(ip + 1, op) /\ UNCHANGED globals
    BY <1>3 DEF Loop!Nop, Loop!WASM_OP_NOP, WASM_OP_NOP
  <2>2. prog.code[ip] \in ShortOps /\ Wasm!At({WASM_OP_NOP})
    BY <2>1, AtIs DEF ShortOps
  <2>3. target = ip + 1
    BY <1>1, <2>2, Lengths
  <2>4. Wasm!Advance(Wasm!cur.stack)
    BY <1>2, <2>1, <2>2, <2>3
  <2>5. Wasm!At({Wasm!WASM_OP_NOP} \cup Wasm!BlockOps)
    BY <2>2 DEF Wasm!At, Wasm!WASM_OP_NOP, WASM_OP_NOP
  <2> QED
    BY <2>4, <2>5 DEF Wasm!SimpleOp
<1>4. CASE Loop!EnterBlock
  <2>1. Loop!Fetch(BlockOps) /\ Loop!Continue(ip + 2, op) /\ UNCHANGED globals
    BY <1>4, SameOps DEF Loop!EnterBlock
  <2>2. prog.code[ip] \in ImmediateOps /\ Wasm!At(BlockOps)
    BY <2>1, AtIs DEF ImmediateOps
  <2>3. target = ip + 2
    BY <1>1, <2>2, Lengths
  <2>4. Wasm!Advance(Wasm!cur.stack)
    BY <1>2, <2>1, <2>2, <2>3
  <2>5. Wasm!At({Wasm!WASM_OP_NOP} \cup Wasm!BlockOps)
    BY <2>2, SameOps DEF Wasm!At
  <2> QED
    BY <2>4, <2>5 DEF Wasm!SimpleOp
<1>5. CASE Loop!EndBlock
  <2>1. /\ Loop!Fetch({WASM_OP_END}) /\ Loop!Continue(ip + 1, op) /\ UNCHANGED globals
        /\ ip + 1 # prog.funcs[fn_idx].code_end
    BY <1>5 DEF Loop!EndBlock, Loop!WASM_OP_END, WASM_OP_END, Loop!fn
  <2>2. prog.code[ip] \in ShortOps /\ Wasm!At({WASM_OP_END}) /\ Wasm!cur.pc = ip
    BY <2>1, AtIs DEF ShortOps
  <2>3. target = ip + 1
    BY <1>1, <2>2, Lengths
  <2>4. Wasm!Advance(Wasm!cur.stack)
    BY <1>2, <2>1, <2>2, <2>3
  <2>5. Wasm!At({Wasm!WASM_OP_END}) /\ Wasm!cur.pc + 1 # Wasm!fn.code_end
    BY <2>1, <2>2, CurrentIs, SameModule
       DEF Wasm!WASM_OP_END, WASM_OP_END, Wasm!fn, Current, InLoop
  <2> QED
    BY <2>4, <2>5 DEF Wasm!SimpleOp
<1> QED
  BY <1>3, <1>4, <1>5

\* The operands of the instructions are there.
LEMMA HeightsAre ==
  ASSUME InLoop
  PROVE  /\ prog.code[ip] \in {WASM_OP_DROP, WASM_OP_BR_IF, WASM_OP_BR_TABLE, WASM_OP_CALL_INDIRECT,
                               WASM_OP_LOCAL_SET, WASM_OP_LOCAL_TEE, WASM_OP_GLOBAL_SET}
                              \cup UnaryOps \cup LoadOps => 1 <= module.height[fn_idx][ip]
         /\ prog.code[ip] \in BinaryOps \cup StoreOps => 2 <= module.height[fn_idx][ip]
         /\ prog.code[ip] = WASM_OP_SELECT => 3 <= module.height[fn_idx][ip]
<1>1. prog.height = module.height
  BY SameModule DEF InLoop
<1>2. InstrValid(prog, Value, fn_idx, ip)
  BY InLoopIs
<1>3. prog.code[ip] \in {WASM_OP_DROP, WASM_OP_BR_IF, WASM_OP_BR_TABLE, WASM_OP_CALL_INDIRECT,
                         WASM_OP_LOCAL_SET, WASM_OP_LOCAL_TEE, WASM_OP_GLOBAL_SET}
                        \cup UnaryOps \cup LoadOps => 1 <= prog.height[fn_idx][ip]
  BY <1>2 DEF InstrValid, Effect
<1>4. /\ prog.code[ip] \in BinaryOps \cup StoreOps => 2 <= prog.height[fn_idx][ip]
      /\ prog.code[ip] = WASM_OP_SELECT => 3 <= prog.height[fn_idx][ip]
  BY <1>2 DEF InstrValid, Effect
<1> QED
  BY <1>1, <1>3, <1>4

\* What Yield does with a value.
LEMMA YieldStep ==
  ASSUME NEW n, NEW v \in Value, Wasm!Advance(Append(Wasm!Below(n), v))
  PROVE  Wasm!Yield(n, v)
BY LoopAssumption DEF Wasm!Yield

LEMMA DropStep ==
  ASSUME InLoop, LoopsOn, module' = module, Loop!Drop
  PROVE  Wasm!SimpleOp
<1>1. Loop!Fetch({WASM_OP_DROP}) /\ Loop!Continue(ip + 1, Loop!Below(1)) /\ UNCHANGED globals
  BY DEF Loop!Drop, Loop!WASM_OP_DROP, WASM_OP_DROP
<1>2. Wasm!At({WASM_OP_DROP}) /\ prog.code[ip] = WASM_OP_DROP
  BY <1>1, AtIs
<1>3. prog.code[ip] \in ShortOps /\ ip \in Int
  BY <1>2, InLoopIs DEF ShortOps
<1>4. 1 <= module.height[fn_idx][ip] /\ ip + 1 = NextInstr(prog.code, ip)
  BY <1>2, <1>3, HeightsAre, Lengths
<1>5. Wasm!Advance(Wasm!Below(1))
  BY <1>1, <1>3, <1>4, AdvancePop
<1> QED
  BY <1>2, <1>5 DEF Wasm!SimpleOp, Wasm!WASM_OP_DROP, WASM_OP_DROP

LEMMA SelectStep ==
  ASSUME InLoop, LoopsOn, module' = module, Loop!Select
  PROVE  Wasm!SimpleOp
<1>1. PICK v : v = IF Loop!Operand(0) # 0 THEN Loop!Operand(2) ELSE Loop!Operand(1)
  OBVIOUS
<1>2. /\ Loop!Fetch({WASM_OP_SELECT}) /\ Loop!Continue(ip + 1, Append(Loop!Below(3), v))
      /\ UNCHANGED globals
  BY <1>1 DEF Loop!Select, Loop!WASM_OP_SELECT, WASM_OP_SELECT
<1>3. Wasm!At({WASM_OP_SELECT}) /\ prog.code[ip] = WASM_OP_SELECT
  BY <1>2, AtIs
<1>4. prog.code[ip] \in ShortOps /\ ip \in Int /\ module.height[fn_idx][ip] \in Nat
  BY <1>3, InLoopIs DEF ShortOps
<1>5. 3 <= module.height[fn_idx][ip] /\ ip + 1 = NextInstr(prog.code, ip)
  BY <1>3, <1>4, HeightsAre, Lengths
<1>6. \A j \in 0..2 : Loop!Operand(j) \in Value /\ Wasm!Operand(j) = Loop!Operand(j)
  <2> TAKE j \in 0..2
  <2>1. PICK h \in Nat : h = module.height[fn_idx][ip]
    BY <1>4
  <2>2. j \in Nat /\ j < h
    BY <1>5, <2>1
  <2> QED
    BY <2>1, <2>2, OperandsAre
<1>7. /\ v \in Value
      /\ v = IF Wasm!Operand(0) # 0 THEN Wasm!Operand(2) ELSE Wasm!Operand(1)
  BY <1>1, <1>6
<1>8. Wasm!Advance(Append(Wasm!Below(3), v))
  BY <1>2, <1>4, <1>5, <1>7, AdvancePush
<1>9. Wasm!Yield(3, v)
  BY <1>7, <1>8, YieldStep
<1>10. Wasm!At({Wasm!WASM_OP_SELECT})
  BY <1>3 DEF Wasm!WASM_OP_SELECT, WASM_OP_SELECT
<1> QED
  BY <1>7, <1>9, <1>10 DEF Wasm!SimpleOp

LEMMA ConstStep ==
  ASSUME InLoop, LoopsOn, module' = module, Loop!Const
  PROVE  Wasm!SimpleOp
<1>1. PICK v : v = prog.code[ip + 1]
  OBVIOUS
<1>2. Loop!Fetch(ConstOps) /\ Loop!Continue(ip + 2, Append(op, v)) /\ UNCHANGED globals
  BY <1>1, SameOps DEF Loop!Const, Loop!Imm
<1>3. Wasm!At(ConstOps) /\ prog.code[ip] \in ConstOps /\ Wasm!cur.pc = ip
  BY <1>2, AtIs
<1>4. /\ prog.code[ip] \in ImmediateOps /\ ip \in Int /\ module.height[fn_idx][ip] \in Nat
      /\ 0 <= module.height[fn_idx][ip]
  BY <1>3, InLoopIs DEF ImmediateOps
<1>5. ip + 2 = NextInstr(prog.code, ip)
  BY <1>4, Lengths
<1>6. v \in Value
  BY <1>1, <1>3, InLoopIs DEF InstrValid
<1>7. v = Wasm!Imm(1)
  BY <1>1, <1>3, <1>4, InLoopIs, ReadsAre DEF Wasm!Imm, Wasm!code, InLoop
<1>8. Loop!Continue(ip + 2, Append(Loop!Below(0), v))
  BY <1>2, EmptyPop
<1>9. Wasm!Advance(Append(Wasm!Below(0), v))
  BY <1>2, <1>4, <1>5, <1>6, <1>8, AdvancePush
<1>10. Wasm!Yield(0, v)
  BY <1>6, <1>9, YieldStep
<1> QED
  BY <1>3, <1>7, <1>10, SameOps DEF Wasm!SimpleOp

LEMMA LoadStep ==
  ASSUME InLoop, LoopsOn, module' = module, Loop!Load
  PROVE  Wasm!SimpleOp
<1>1. Loop!Fetch(LoadOps)
  BY SameOps DEF Loop!Load
<1>2. Wasm!At(LoadOps) /\ prog.code[ip] \in LoadOps
  BY <1>1, AtIs
<1>3. \E v \in Value \cup {Trap} : Wasm!Yield(1, v)
  <2>1. CASE Loop!DoTrap
    <3>1. Wasm!Yield(1, Trap)
      BY <2>1, TrapStep DEF Wasm!Yield
    <3> QED
      BY <3>1
  <2>2. ASSUME NEW v \in Value, Loop!Continue(ip + 3, Append(Loop!Below(1), v)), UNCHANGED globals
        PROVE  Wasm!Yield(1, v)
    <3>1. ip \in Int
      BY InLoopIs
    <3>2. 1 <= module.height[fn_idx][ip] /\ ip + 3 = NextInstr(prog.code, ip)
      BY <1>2, <3>1, HeightsAre, Lengths
    <3>3. Wasm!Advance(Append(Wasm!Below(1), v))
      BY <1>2, <2>2, <3>2, AdvancePush
    <3> QED
      BY <3>3, YieldStep
  <2> QED
    BY <2>1, <2>2 DEF Loop!Load
<1> QED
  BY <1>2, <1>3, SameOps DEF Wasm!SimpleOp

LEMMA StoreStep ==
  ASSUME InLoop, LoopsOn, module' = module, Loop!Store
  PROVE  Wasm!SimpleOp
<1>1. Loop!Fetch(StoreOps)
  BY SameOps DEF Loop!Store
<1>2. Wasm!At(StoreOps) /\ prog.code[ip] \in StoreOps
  BY <1>1, AtIs
<1>3. Wasm!Stop("trapped") \/ Wasm!Advance(Wasm!Below(2))
  <2>1. CASE Loop!DoTrap
    BY <2>1, TrapStep
  <2>2. CASE Loop!Continue(ip + 3, Loop!Below(2)) /\ UNCHANGED globals
    <3>1. ip \in Int
      BY InLoopIs
    <3>2. 2 <= module.height[fn_idx][ip] /\ ip + 3 = NextInstr(prog.code, ip)
      BY <1>2, <3>1, HeightsAre, Lengths
    <3> QED
      BY <1>2, <2>2, <3>2, AdvancePop
  <2> QED
    BY <2>1, <2>2 DEF Loop!Store
<1> QED
  BY <1>2, <1>3, SameOps DEF Wasm!SimpleOp

LEMMA UnaryStep ==
  ASSUME InLoop, LoopsOn, module' = module, Loop!UnaryOp
  PROVE  Wasm!SimpleOp
<1>1. Loop!Fetch(UnaryOps)
  BY SameOps DEF Loop!UnaryOp
<1>2. /\ Wasm!At(UnaryOps) /\ prog.code[ip] \in UnaryOps /\ Wasm!cur.pc = ip
      /\ prog.code[ip] = module.code[ip]
  BY <1>1, AtIs
<1>3. /\ prog.code[ip] \in ShortOps /\ ip \in Int /\ module.height[fn_idx][ip] \in Nat
      /\ 1 <= module.height[fn_idx][ip]
  BY <1>2, InLoopIs, HeightsAre DEF ShortOps
<1>4. ip + 1 = NextInstr(prog.code, ip)
  BY <1>3, Lengths
<1>5. Loop!Operand(0) \in Value /\ Wasm!Operand(0) = Loop!Operand(0)
  <2>1. 0 < module.height[fn_idx][ip]
    BY <1>3
  <2> QED
    BY <2>1, OperandsAre
<1>6. PICK r : r = Unary(prog.code[ip], Loop!Operand(0))
  OBVIOUS
<1>7. r \in Value \cup {Trap}
  BY <1>2, <1>5, <1>6, LoopAssumption
<1>8. IF r = Trap THEN Loop!DoTrap
      ELSE Loop!Continue(ip + 1, Append(Loop!Below(1), r)) /\ UNCHANGED globals
  BY <1>6 DEF Loop!UnaryOp
<1>9. Wasm!Yield(1, r)
  <2>1. CASE r = Trap
    BY <1>8, <2>1, TrapStep DEF Wasm!Yield
  <2>2. CASE r # Trap
    <3>1. Wasm!Advance(Append(Wasm!Below(1), r))
      BY <1>3, <1>4, <1>7, <1>8, <2>2, AdvancePush
    <3> QED
      BY <2>2, <3>1 DEF Wasm!Yield
  <2> QED
    BY <2>1, <2>2
<1>10. r = Unary(Wasm!code[Wasm!cur.pc], Wasm!Operand(0))
  BY <1>2, <1>5, <1>6 DEF Wasm!code
<1> QED
  BY <1>2, <1>9, <1>10, SameOps DEF Wasm!SimpleOp

LEMMA BinaryStep ==
  ASSUME InLoop, LoopsOn, module' = module, Loop!BinaryOp
  PROVE  Wasm!SimpleOp
<1>1. Loop!Fetch(BinaryOps)
  BY SameOps DEF Loop!BinaryOp
<1>2. /\ Wasm!At(BinaryOps) /\ prog.code[ip] \in BinaryOps /\ Wasm!cur.pc = ip
      /\ prog.code[ip] = module.code[ip]
  BY <1>1, AtIs
<1>3. /\ prog.code[ip] \in ShortOps /\ ip \in Int /\ module.height[fn_idx][ip] \in Nat
      /\ 2 <= module.height[fn_idx][ip]
  BY <1>2, InLoopIs, HeightsAre DEF ShortOps
<1>4. ip + 1 = NextInstr(prog.code, ip)
  BY <1>3, Lengths
<1>5. /\ Loop!Operand(0) \in Value /\ Wasm!Operand(0) = Loop!Operand(0)
      /\ Loop!Operand(1) \in Value /\ Wasm!Operand(1) = Loop!Operand(1)
  <2>1. 0 < module.height[fn_idx][ip] /\ 1 < module.height[fn_idx][ip]
    BY <1>3
  <2> QED
    BY <2>1, OperandsAre
<1>6. PICK r : r = Binary(prog.code[ip], Loop!Operand(1), Loop!Operand(0))
  OBVIOUS
<1>7. r \in Value \cup {Trap}
  BY <1>2, <1>5, <1>6, LoopAssumption
<1>8. IF r = Trap THEN Loop!DoTrap
      ELSE Loop!Continue(ip + 1, Append(Loop!Below(2), r)) /\ UNCHANGED globals
  BY <1>6 DEF Loop!BinaryOp
<1>9. Wasm!Yield(2, r)
  <2>1. CASE r = Trap
    BY <1>8, <2>1, TrapStep DEF Wasm!Yield
  <2>2. CASE r # Trap
    <3>1. Wasm!Advance(Append(Wasm!Below(2), r))
      BY <1>3, <1>4, <1>7, <1>8, <2>2, AdvancePush
    <3> QED
      BY <2>2, <3>1 DEF Wasm!Yield
  <2> QED
    BY <2>1, <2>2
<1>10. r = Binary(Wasm!code[Wasm!cur.pc], Wasm!Operand(1), Wasm!Operand(0))
  BY <1>2, <1>5, <1>6 DEF Wasm!code
<1> QED
  BY <1>2, <1>9, <1>10, SameOps DEF Wasm!SimpleOp

LEMMA UnreachableStep ==
  ASSUME InLoop, module' = module, Loop!Unreachable
  PROVE  Wasm!SimpleOp
<1>1. Loop!Fetch({WASM_OP_UNREACHABLE}) /\ Loop!DoTrap
  BY DEF Loop!Unreachable, Loop!WASM_OP_UNREACHABLE, WASM_OP_UNREACHABLE
<1>2. Wasm!At({Wasm!WASM_OP_UNREACHABLE})
  BY <1>1, AtIs DEF Wasm!WASM_OP_UNREACHABLE, WASM_OP_UNREACHABLE
<1> QED
  BY <1>1, <1>2, TrapStep DEF Wasm!SimpleOp

LEMMA GlobalStep ==
  ASSUME InLoop, LoopsOn, module' = module, Loop!GlobalGet \/ Loop!GlobalSet
  PROVE  Wasm!VariableOp
<1>1. ip \in Int /\ module.height[fn_idx][ip] \in Nat /\ 0 <= module.height[fn_idx][ip]
  BY InLoopIs
<1>2. ASSUME prog.code[ip] \in GlobalOps, Wasm!cur.pc = ip
      PROVE  /\ prog.code[ip + 1] = Wasm!Imm(1) /\ Loop!Imm(1) = Wasm!Imm(1)
             /\ prog.code[ip + 1] \in DOMAIN prog.globals
             /\ ip + 2 = NextInstr(prog.code, ip) /\ prog.code[ip] \in ImmediateOps
  <2>1. prog.code[ip] \in ImmediateOps
    BY <1>2 DEF ImmediateOps
  <2>2. prog.code[ip + 1] = Wasm!Imm(1)
    BY <1>2, <2>1, InLoopIs, ReadsAre DEF Wasm!Imm, Wasm!code, InLoop
  <2>3. prog.code[ip + 1] \in DOMAIN prog.globals
    BY <1>2, InLoopIs DEF InstrValid
  <2>4. ip + 2 = NextInstr(prog.code, ip)
    BY <1>1, <2>1, Lengths
  <2> QED
    BY <2>1, <2>2, <2>3, <2>4 DEF Loop!Imm
<1>3. CASE Loop!GlobalGet
  <2>1. PICK v : v = globals[prog.code[ip + 1]]
    OBVIOUS
  <2>2. /\ Loop!Fetch({WASM_OP_GLOBAL_GET}) /\ Loop!Continue(ip + 2, Append(op, v))
        /\ UNCHANGED globals
    BY <1>3, <2>1 DEF Loop!GlobalGet, Loop!WASM_OP_GLOBAL_GET, WASM_OP_GLOBAL_GET, Loop!Imm
  <2>3. /\ Wasm!At({WASM_OP_GLOBAL_GET}) /\ prog.code[ip] = WASM_OP_GLOBAL_GET /\ Wasm!cur.pc = ip
        /\ prog.code[ip] \in GlobalOps
    BY <2>2, AtIs DEF GlobalOps
  <2>4. v \in Value
    BY <1>2, <2>1, <2>3 DEF InLoop, WInv, RP!IInv, RP!TypeOK
  <2>5. Loop!Continue(ip + 2, Append(Loop!Below(0), v))
    BY <2>2, EmptyPop
  <2>6. Wasm!Advance(Append(Wasm!Below(0), v))
    BY <1>1, <1>2, <2>2, <2>3, <2>4, <2>5, AdvancePush
  <2>7. Wasm!Yield(0, v)
    BY <2>4, <2>6, YieldStep
  <2>8. v = globals[Wasm!Imm(1)] /\ Wasm!At({Wasm!WASM_OP_GLOBAL_GET})
    BY <1>2, <2>1, <2>3 DEF Wasm!WASM_OP_GLOBAL_GET, WASM_OP_GLOBAL_GET
  <2> QED
    BY <2>7, <2>8 DEF Wasm!VariableOp
<1>4. CASE Loop!GlobalSet
  <2>1. /\ Loop!Fetch({WASM_OP_GLOBAL_SET}) /\ Loop!Continue(ip + 2, Loop!Below(1))
        /\ globals' = [globals EXCEPT ![Loop!Imm(1)] = Loop!Operand(0)]
    BY <1>4 DEF Loop!GlobalSet, Loop!WASM_OP_GLOBAL_SET, WASM_OP_GLOBAL_SET
  <2>2. /\ Wasm!At({WASM_OP_GLOBAL_SET}) /\ prog.code[ip] = WASM_OP_GLOBAL_SET /\ Wasm!cur.pc = ip
        /\ prog.code[ip] \in GlobalOps
    BY <2>1, AtIs DEF GlobalOps
  <2>3. 1 <= module.height[fn_idx][ip] /\ 0 < module.height[fn_idx][ip]
    BY <1>1, <2>2, HeightsAre
  <2>4. Wasm!Goto(ip + 2, Wasm!Below(1), Wasm!cur.locals)
    BY <2>1, <2>3, PopStep
  <2>5. Wasm!Operand(0) = Loop!Operand(0)
    BY <2>3, OperandsAre
  <2>6. globals' = [globals EXCEPT ![Wasm!Imm(1)] = Wasm!Operand(0)]
    BY <1>2, <2>1, <2>2, <2>5
  <2>7. Wasm!At({Wasm!WASM_OP_GLOBAL_SET})
    BY <2>2 DEF Wasm!WASM_OP_GLOBAL_SET, WASM_OP_GLOBAL_SET
  <2> QED
    BY <2>2, <2>4, <2>6, <2>7 DEF Wasm!VariableOp
<1> QED
  BY <1>3, <1>4

\* Local n of a frame is slot a + n + 1 of the array, where its locals are above a
\* and its operands above b.
LEMMA LocalIs ==
  ASSUME NEW s \in Seq(Value), NEW a \in Nat, NEW b \in Nat, NEW n \in Nat,
         a + n + 1 <= b, b <= Len(s)
  PROVE  /\ s[a + n + 1] \in Value /\ Slice(s, a, b)[n + 1] = s[a + n + 1]
<1>1. PICK len \in Nat : len = Len(s) /\ b <= len /\ DOMAIN s = 1..len
  BY LenProperties
<1>2. a <= b /\ a + n + 1 \in 1..len /\ n + 1 \in 1..(b - a) /\ a + (n + 1) = a + n + 1
  BY <1>1
<1>3. PICK r : r = Slice(s, a, b)
  OBVIOUS
<1>4. r \in Seq(Value) /\ Len(r) = b - a /\ \A idx \in 1..(b - a) : r[idx] = s[a + idx]
  BY <1>1, <1>2, <1>3, SliceIs
<1>5. s[a + n + 1] \in Value /\ r[n + 1] = s[a + n + 1]
  BY <1>1, <1>2, <1>4, ElementOfSeq
<1> QED
  BY <1>3, <1>5

\* Setting a local changes the list of the locals and nothing else of the frame.
With(s, idx, v) == [s EXCEPT ![idx] = v]

LEMMA LocalChanges ==
  ASSUME NEW s \in Seq(Value), NEW a \in Nat, NEW b \in Nat, NEW j \in Nat, 1 <= j,
         a + j <= b, b <= Len(s), NEW v \in Value
  PROVE  /\ With(s, a + j, v) \in Seq(Value) /\ b <= Len(With(s, a + j, v))
         /\ Slice(With(s, a + j, v), a, b) = With(Slice(s, a, b), j, v)
         /\ Above(With(s, a + j, v), b) = Above(s, b)
<1>1. PICK len \in Nat : len = Len(s) /\ b <= len /\ DOMAIN s = 1..len
  BY LenProperties
<1>2. a <= b /\ a + j \in 1..len /\ j \in 1..(b - a)
  BY <1>1
<1>3. PICK r : r = Slice(s, a, b)
  OBVIOUS
<1>4. r \in Seq(Value) /\ Len(r) = b - a /\ \A k \in 1..(b - a) : r[k] = s[a + k]
  BY <1>1, <1>2, <1>3, SliceIs
<1>5. ASSUME NEW t, NEW w, t = With(s, a + j, v), w = With(r, j, v)
      PROVE  /\ t \in Seq(Value) /\ b <= Len(t)
             /\ Slice(t, a, b) = w /\ Above(t, b) = Above(s, b)
  <2>1. s \in [1..len -> Value]
    BY <1>1, ElementOfSeq
  <2>2. t \in [1..len -> Value]
    BY <1>5, <2>1 DEF With
  <2>3. t \in Seq(Value) /\ Len(t) = len
    <3>1. t \in Seq(Value) /\ DOMAIN t = 1..len
      BY <2>2
    <3> QED
      BY <3>1, LenProperties
  <2>4. \A k \in 1..len : t[k] = IF k = a + j THEN v ELSE s[k]
    BY <1>5, <2>1 DEF With
  <2>5. Slice(t, b, len) = Slice(s, b, len)
    <3>1. \A k \in (b + 1)..len : t[k] = s[k]
      BY <1>1, <1>2, <2>4
    <3> QED
      BY <1>1, <2>3, <3>1, SliceSame
  <2>6. PICK u : u = Slice(t, a, b)
    OBVIOUS
  <2>7. u \in Seq(Value) /\ Len(u) = b - a /\ \A k \in 1..(b - a) : u[k] = t[a + k]
    <3>1. b <= Len(t)
      BY <1>1, <2>3
    <3> QED
      BY <1>2, <2>3, <2>6, <3>1, SliceIs
  <2>8. PICK d \in Nat : d = b - a
    <3>1. b - a \in Nat
      BY <1>2
    <3> QED
      BY <3>1, Zenon
  <2>9. r \in [1..d -> Value]
    BY <1>4, <2>8, LenProperties, ElementOfSeq
  <2>10. w \in [1..d -> Value] /\ \A k \in 1..d : w[k] = IF k = j THEN v ELSE r[k]
    BY <1>5, <2>9 DEF With
  <2>11. w \in Seq(Value) /\ Len(w) = d
    <3>1. w \in Seq(Value) /\ DOMAIN w = 1..d
      BY <2>10
    <3> QED
      BY <3>1, LenProperties
  <2>12. ASSUME NEW k \in 1..d PROVE u[k] = w[k]
    <3>1. k \in 1..(b - a) /\ a + k \in 1..len /\ (a + k = a + j <=> k = j)
      BY <1>1, <1>2, <2>8
    <3> QED
      BY <1>4, <2>4, <2>7, <2>10, <3>1
  <2>13. u = w
    BY <2>7, <2>8, <2>11, <2>12, SeqEqual
  <2> QED
    BY <1>1, <2>3, <2>5, <2>6, <2>13 DEF Above
<1> QED
  BY <1>3, <1>5

LEMMA LocalSlot ==
  ASSUME InLoop, prog.code[ip] \in LocalOps
  PROVE  /\ Loop!Imm(1) \in Nat /\ Loop!Imm(1) = Wasm!Imm(1)
         /\ locals + Loop!Imm(1) + 1 <= op_ptr /\ op_ptr <= Len(op)
         /\ ip + 2 = NextInstr(prog.code, ip) /\ prog.code[ip] \in ImmediateOps
<1>1. /\ ip \in Int /\ module.height[fn_idx][ip] \in Nat /\ locals \in Nat /\ op_ptr \in Nat
      /\ Slots(prog, fn_idx) \in Nat /\ locals + Slots(prog, fn_idx) <= op_ptr
      /\ op_ptr + module.height[fn_idx][ip] = Len(op)
  BY InLoopIs
<1>2. prog.code[ip] \in ImmediateOps
  BY DEF ImmediateOps
<1>3. Wasm!cur.pc = ip
  BY CurrentIs DEF Current
<1>4. prog.code[ip + 1] = Wasm!Imm(1)
  BY <1>2, <1>3, InLoopIs, ReadsAre DEF Wasm!Imm, Wasm!code, InLoop
<1>5. prog.code[ip + 1] \in 0..(Slots(prog, fn_idx) - 1)
  BY InLoopIs DEF InstrValid
<1>6. PICK k \in Nat, h \in Nat : k = Slots(prog, fn_idx) /\ h = module.height[fn_idx][ip]
  BY <1>1
<1>7. PICK n \in 0..(k - 1) : n = Loop!Imm(1)
  BY <1>5, <1>6 DEF Loop!Imm
<1>8. n \in Nat /\ locals + n + 1 <= op_ptr
  BY <1>1, <1>6, <1>7
<1>9. op_ptr <= Len(op)
  BY <1>1, <1>6, SMTT(60)
<1>10. ip + 2 = NextInstr(prog.code, ip)
  BY <1>1, <1>2, Lengths
<1> QED
  BY <1>2, <1>4, <1>7, <1>8, <1>9, <1>10 DEF Loop!Imm

LEMMA LocalGetStep ==
  ASSUME InLoop, LoopsOn, module' = module, Loop!LocalGet
  PROVE  Wasm!VariableOp
<1>1. PICK n : n = Loop!Imm(1)
  OBVIOUS
<1>2. PICK v : v = op[locals + n + 1]
  OBVIOUS
<1>3. /\ Loop!Fetch({WASM_OP_LOCAL_GET}) /\ Loop!Continue(ip + 2, Append(op, v))
      /\ UNCHANGED globals
  BY <1>1, <1>2 DEF Loop!LocalGet, Loop!WASM_OP_LOCAL_GET, WASM_OP_LOCAL_GET
<1>4. /\ Wasm!At({WASM_OP_LOCAL_GET}) /\ prog.code[ip] = WASM_OP_LOCAL_GET
      /\ prog.code[ip] \in LocalOps
  BY <1>3, AtIs DEF LocalOps
<1>5. /\ n \in Nat /\ n = Wasm!Imm(1) /\ locals + n + 1 <= op_ptr /\ op_ptr <= Len(op)
      /\ ip + 2 = NextInstr(prog.code, ip) /\ prog.code[ip] \in ImmediateOps
  BY <1>1, <1>4, LocalSlot
<1>6. /\ locals \in Nat /\ op_ptr \in Nat /\ op \in Seq(Value)
      /\ module.height[fn_idx][ip] \in Nat /\ 0 <= module.height[fn_idx][ip]
  BY InLoopIs
<1>7. v \in Value /\ v = Slice(op, locals, op_ptr)[n + 1]
  <2>1. PICK w : w \in Value
    BY LoopAssumption
  <2> QED
    BY <1>2, <1>5, <1>6, <2>1, LocalIs
<1>8. Wasm!cur.locals = Slice(op, locals, op_ptr)
  BY CurrentIs DEF Current
<1>9. Loop!Continue(ip + 2, Append(Loop!Below(0), v))
  BY <1>3, EmptyPop
<1>10. Wasm!Advance(Append(Wasm!Below(0), v))
  BY <1>3, <1>5, <1>6, <1>7, <1>9, AdvancePush
<1>11. Wasm!Yield(0, v)
  BY <1>7, <1>10, YieldStep
<1>12. v = Wasm!cur.locals[Wasm!Imm(1) + 1] /\ Wasm!At({Wasm!WASM_OP_LOCAL_GET})
  BY <1>4, <1>5, <1>7, <1>8 DEF Wasm!WASM_OP_LOCAL_GET, WASM_OP_LOCAL_GET
<1> QED
  BY <1>11, <1>12 DEF Wasm!VariableOp

LEMMA LocalSetStep ==
  ASSUME InLoop, LoopsOn, module' = module, Loop!LocalSet \/ Loop!LocalTee
  PROVE  Wasm!VariableOp
<1>1. PICK n, v : n = Loop!Imm(1) /\ v = Loop!Operand(0)
  OBVIOUS
<1>2. /\ locals \in Nat /\ op_ptr \in Nat /\ op \in Seq(Value)
      /\ module.height[fn_idx][ip] \in Nat
  BY InLoopIs
<1>3. ASSUME prog.code[ip] \in {WASM_OP_LOCAL_SET, WASM_OP_LOCAL_TEE}, NEW r \in Seq(Value),
             op_ptr <= Len(r), \A k \in 1..op_ptr : r[k] = op[k],
             Loop!Continue(ip + 2, [r EXCEPT ![locals + n + 1] = v])
      PROVE  Wasm!Goto(Wasm!cur.pc + 2, Above(r, op_ptr),
                       [Wasm!cur.locals EXCEPT ![Wasm!Imm(1) + 1] = Wasm!Operand(0)])
  <2>1. prog.code[ip] \in LocalOps /\ 1 <= module.height[fn_idx][ip]
    BY <1>3, HeightsAre DEF LocalOps
  <2>2. n \in Nat /\ n = Wasm!Imm(1) /\ locals + n + 1 <= op_ptr
    BY <1>1, <2>1, LocalSlot
  <2>3. v \in Value /\ v = Wasm!Operand(0)
    <3>1. 0 < module.height[fn_idx][ip]
      BY <1>2, <2>1
    <3> QED
      BY <1>1, <3>1, OperandsAre
  <2>4. PICK t : t = [r EXCEPT ![locals + n + 1] = v]
    OBVIOUS
  <2>5. /\ t \in Seq(Value) /\ op_ptr <= Len(t) /\ \A k \in 1..locals : t[k] = r[k]
        /\ Slice(t, locals, op_ptr) = [Slice(r, locals, op_ptr) EXCEPT ![n + 1] = v]
        /\ Above(t, op_ptr) = Above(r, op_ptr)
    <3>1. PICK a \in Nat, b \in Nat, j \in Nat : a = locals /\ b = op_ptr /\ j = n + 1 /\ 1 <= j
      <4>1. n + 1 \in Nat /\ 1 <= n + 1
        BY <2>2
      <4> QED
        BY <1>2, <4>1, Zenon
    <3>2. a + j <= b /\ b <= Len(r) /\ t = With(r, a + j, v)
      <4>1. locals + n + 1 = a + j
        BY <2>2, <3>1
      <4> QED
        BY <1>3, <2>2, <2>4, <3>1, <4>1 DEF With
    <3>3. /\ t \in Seq(Value) /\ b <= Len(t) /\ Slice(t, a, b) = With(Slice(r, a, b), j, v)
          /\ Above(t, b) = Above(r, b)
      <4>1. v \in Value /\ 1 <= j /\ a + j <= b /\ b <= Len(r)
        BY <2>3, <3>1, <3>2
      <4>2. /\ With(r, a + j, v) \in Seq(Value) /\ b <= Len(With(r, a + j, v))
            /\ Slice(With(r, a + j, v), a, b) = With(Slice(r, a, b), j, v)
            /\ Above(With(r, a + j, v), b) = Above(r, b)
        BY <4>1, LocalChanges, ZenonT(60)
      <4> QED
        BY <3>2, <4>2
    <3>4. \A k \in 1..a : t[k] = r[k]
      <4>1. \A k \in 1..a : k \in 1..Len(r) /\ k # a + j
        BY <1>3, <3>1, <3>2, LenProperties
      <4>2. r \in [1..Len(r) -> Value]
        BY <1>3, LenProperties, ElementOfSeq
      <4> QED
        BY <3>2, <4>1, <4>2 DEF With
    <3> QED
      BY <3>1, <3>3, <3>4 DEF With
  <2>6. Slice(r, locals, op_ptr) = Wasm!cur.locals /\ \A k \in 1..locals : r[k] = op[k]
    BY <1>3, LocalsSame
  <2>7. Loop!Continue(ip + 2, t)
    BY <1>3, <2>4
  <2>8. Wasm!Goto(ip + 2, Above(t, op_ptr), Slice(t, locals, op_ptr))
    <3>1. \A k \in 1..locals : t[k] = op[k]
      BY <2>5, <2>6
    <3> QED
      BY <2>5, <2>7, <3>1, InFrame
  <2>9. Wasm!cur.pc = ip
    BY CurrentIs DEF Current
  <2> QED
    BY <2>2, <2>3, <2>5, <2>6, <2>8, <2>9
<1>4. CASE Loop!LocalSet
  <2>1. /\ Loop!Fetch({WASM_OP_LOCAL_SET}) /\ UNCHANGED globals
        /\ Loop!Continue(ip + 2, [Loop!Below(1) EXCEPT ![locals + n + 1] = v])
    BY <1>1, <1>4 DEF Loop!LocalSet, Loop!WASM_OP_LOCAL_SET, WASM_OP_LOCAL_SET
  <2>2. Wasm!At({WASM_OP_LOCAL_SET}) /\ prog.code[ip] = WASM_OP_LOCAL_SET
    BY <2>1, AtIs
  <2>3. PICK r : r = Loop!Below(1)
    OBVIOUS
  <2>4. /\ r \in Seq(Value) /\ op_ptr <= Len(r) /\ \A k \in 1..Len(r) : r[k] = op[k]
        /\ Above(r, op_ptr) = Wasm!Below(1)
    BY <2>2, <2>3, HeightsAre, PopIs
  <2>5. \A k \in 1..op_ptr : r[k] = op[k]
    <3>1. Len(r) \in Nat
      BY <2>4, LenProperties
    <3> QED
      BY <1>2, <2>4, <3>1
  <2>6. Wasm!Goto(Wasm!cur.pc + 2, Wasm!Below(1),
                  [Wasm!cur.locals EXCEPT ![Wasm!Imm(1) + 1] = Wasm!Operand(0)])
    BY <1>3, <2>1, <2>2, <2>3, <2>4, <2>5
  <2>7. Wasm!At({Wasm!WASM_OP_LOCAL_SET})
    BY <2>2 DEF Wasm!WASM_OP_LOCAL_SET, WASM_OP_LOCAL_SET
  <2> QED
    BY <2>1, <2>6, <2>7 DEF Wasm!VariableOp
<1>5. CASE Loop!LocalTee
  <2>1. /\ Loop!Fetch({WASM_OP_LOCAL_TEE}) /\ UNCHANGED globals
        /\ Loop!Continue(ip + 2, [op EXCEPT ![locals + n + 1] = v])
    BY <1>1, <1>5 DEF Loop!LocalTee, Loop!WASM_OP_LOCAL_TEE, WASM_OP_LOCAL_TEE
  <2>2. Wasm!At({WASM_OP_LOCAL_TEE}) /\ prog.code[ip] = WASM_OP_LOCAL_TEE
    BY <2>1, AtIs
  <2>3. op_ptr <= Len(op)
    BY <2>2, LocalSlot DEF LocalOps
  <2>4. Wasm!cur.stack = Above(op, op_ptr)
    BY CurrentIs DEF Current
  <2>5. Wasm!Goto(Wasm!cur.pc + 2, Wasm!cur.stack,
                  [Wasm!cur.locals EXCEPT ![Wasm!Imm(1) + 1] = Wasm!Operand(0)])
    BY <1>2, <1>3, <2>1, <2>2, <2>3, <2>4
  <2>6. Wasm!At({Wasm!WASM_OP_LOCAL_TEE})
    BY <2>2 DEF Wasm!WASM_OP_LOCAL_TEE, WASM_OP_LOCAL_TEE
  <2> QED
    BY <2>1, <2>5, <2>6 DEF Wasm!VariableOp
<1> QED
  BY <1>4, <1>5

\* Cutting a list and joining the halves.
LEMMA Rejoined ==
  ASSUME NEW s \in Seq(Value), NEW h \in Nat, h <= Len(s)
  PROVE  Prefix(s, h) \o Above(s, h) = s
<1>1. PICK len \in Nat : len = Len(s) /\ h <= len
  BY LenProperties
<1>2. PICK d \in Nat : d = len - h
  <2>1. len - h \in Nat
    BY <1>1
  <2> QED
    BY <2>1, Zenon
<1>3. PICK p, q, r : p = Prefix(s, h) /\ q = Above(s, h) /\ r = p \o q
  OBVIOUS
<1>4. p \in Seq(Value) /\ Len(p) = h /\ \A idx \in 1..h : p[idx] = s[idx]
  BY <1>1, <1>3, PrefixIs DEF Prefix
<1>5. q \in Seq(Value) /\ Len(q) = d /\ \A idx \in 1..d : q[idx] = s[h + idx]
  BY <1>1, <1>2, <1>3, AboveIs, ZenonT(60)
<1>6. /\ r \in Seq(Value) /\ Len(r) = h + d
      /\ \A idx \in 1..(h + d) : r[idx] = IF idx <= h THEN p[idx] ELSE q[idx - h]
  <2>1. /\ p \o q \in Seq(Value) /\ Len(p \o q) = Len(p) + Len(q)
        /\ \A idx \in 1..(Len(p) + Len(q)) :
             (p \o q)[idx] = IF idx <= Len(p) THEN p[idx] ELSE q[idx - Len(p)]
    <3>1. p \in Seq(Value) /\ q \in Seq(Value)
      BY <1>4, <1>5
    <3> QED
      BY <3>1, ConcatProperties, Zenon
  <2> QED
    BY <1>3, <1>4, <1>5, <2>1
<1>7. ASSUME NEW idx \in 1..len PROVE r[idx] = s[idx]
  <2>1. CASE idx <= h
    BY <1>1, <1>2, <1>4, <1>6, <2>1
  <2>2. CASE h < idx
    <3>1. PICK k \in 1..d : k = idx - h /\ h + k = idx
      <4>1. idx - h \in 1..d /\ h + (idx - h) = idx
        BY <1>1, <1>2, <2>2
      <4> QED
        BY <4>1, Zenon
    <3>2. idx \in 1..(h + d) /\ ~ (idx <= h)
      BY <1>1, <1>2, <2>2
    <3>3. r[idx] = q[k]
      BY <1>6, <3>1, <3>2
    <3> QED
      BY <1>5, <3>1, <3>3
  <2> QED
    BY <1>1, <2>1, <2>2
<1>8. Len(r) = len
  BY <1>1, <1>2, <1>6
<1> QED
  BY <1>1, <1>3, <1>6, <1>7, <1>8, SeqEqual

LEMMA StackIs ==
  ASSUME InLoop, NEW n \in Nat, n <= module.height[fn_idx][ip]
  PROVE  /\ Wasm!Below(n) \in Seq(Value)
         /\ Len(Wasm!Below(n)) = module.height[fn_idx][ip] - n
<1>1. PICK h \in Nat, p \in Nat : h = module.height[fn_idx][ip] /\ p = op_ptr
  BY InLoopIs
<1>2. PICK r : r = Loop!Below(n)
  OBVIOUS
<1>3. r \in Seq(Value) /\ Len(r) = Len(op) - n /\ p <= Len(r) /\ Above(r, p) = Wasm!Below(n)
  BY <1>1, <1>2, PopIs
<1>4. PICK len \in Nat : len = Len(r) /\ p <= len
  BY <1>3, LenProperties
<1>5. Above(r, p) \in Seq(Value) /\ Len(Above(r, p)) = len - p
  BY <1>3, <1>4, AboveIs
<1>6. p + h = Len(op) /\ Len(op) \in Nat
  BY <1>1, InLoopIs
<1>7. len - p = h - n
  <2>1. PICK m \in Nat : m = Len(op) /\ p + h = m
    BY <1>6
  <2>2. len = m - n
    BY <1>3, <1>4, <2>1
  <2> QED
    BY <2>1, <2>2
<1> QED
  BY <1>1, <1>3, <1>5, <1>7

(***************************************************************************)
(* A taken branch: the offset leads to the label's target, and there is    *)
(* nothing to unwind.                                                      *)
(***************************************************************************)
LEMMA BranchStep ==
  ASSUME InLoop, LoopsOn, module' = module, NEW slot \in LabelSlots(module.code, ip),
         NEW n \in Nat, n = IF module.code[ip] = WASM_OP_BR THEN 0 ELSE 1,
         n <= module.height[fn_idx][ip],
         Loop!Continue(slot + 1 + prog.code[slot], Loop!Below(n)), UNCHANGED globals
  PROVE  Wasm!Branch(slot, Wasm!Below(n))
<1>1. PICK k \in Nat : k = module.height[fn_idx][ip]
  BY InLoopIs
<1>2. PICK c, l, h, a : c = prog.code /\ l = module.labels[slot] /\ h = l.height /\ a = l.arity
  OBVIOUS
<1>3. /\ slot + 1 + c[slot] = l.target /\ h \in Nat /\ a \in Nat
      /\ h + a = k - (IF module.code[ip] = WASM_OP_BR THEN 0 ELSE 1)
  <2>1. /\ module \in Modules /\ Structured(module) /\ fn_idx \in DOMAIN module.funcs
        /\ fn_idx >= module.num_imports /\ ip \in DOMAIN module.height[fn_idx]
        /\ c = Linked(module).code
    BY <1>2, InLoopIs DEF InLoop
  <2>2. /\ slot + 1 + c[slot] = module.labels[slot].target
        /\ module.labels[slot].height \in Nat /\ module.labels[slot].arity \in Nat
        /\ module.labels[slot].height + module.labels[slot].arity =
             module.height[fn_idx][ip] - (IF module.code[ip] = WASM_OP_BR THEN 0 ELSE 1)
    BY <2>1, CodeIs
  <2> QED
    BY <1>1, <1>2, <2>2
<1>4. h + a = k - n
  BY <1>3
<1>5. Wasm!Goto(l.target, Wasm!Below(n), Wasm!cur.locals)
  BY <1>2, <1>3, PopStep
<1>6. PICK s : s = Wasm!Below(n)
  OBVIOUS
<1>7. s \in Seq(Value) /\ Len(s) = k - n
  BY <1>1, <1>6, StackIs
<1>8. h <= Len(s) /\ Len(s) - a = h
  BY <1>3, <1>4, <1>7
<1>9. SubSeq(s, 1, h) \o SubSeq(s, Len(s) - a + 1, Len(s)) = s
  BY <1>3, <1>7, <1>8, Rejoined DEF Prefix, Above, Slice
<1> QED
  BY <1>2, <1>5, <1>6, <1>9 DEF Wasm!Branch

LEMMA BrStep ==
  ASSUME InLoop, LoopsOn, module' = module, Loop!Br
  PROVE  Wasm!BranchOp
<1>1. /\ Loop!Fetch({WASM_OP_BR}) /\ Loop!Continue(ip + 2 + prog.code[ip + 1], op)
      /\ UNCHANGED globals
  BY DEF Loop!Br, Loop!WASM_OP_BR, WASM_OP_BR, Loop!Imm
<1>2. /\ Wasm!At({WASM_OP_BR}) /\ prog.code[ip] = WASM_OP_BR /\ Wasm!cur.pc = ip
      /\ module.code[ip] = WASM_OP_BR
  BY <1>1, AtIs
<1>3. ip + 1 \in LabelSlots(module.code, ip)
  BY <1>2, InLoopIs, ReadsAre DEF InLoop
<1>4. ip \in Nat /\ module.height[fn_idx][ip] \in Nat /\ 0 <= module.height[fn_idx][ip]
  BY InLoopIs
<1>5. Loop!Continue((ip + 1) + 1 + prog.code[ip + 1], Loop!Below(0))
  <2>1. (ip + 1) + 1 = ip + 2
    BY <1>4
  <2> QED
    BY <1>1, <2>1, EmptyPop
<1>6. Wasm!Branch(ip + 1, Wasm!Below(0))
  BY <1>1, <1>2, <1>3, <1>4, <1>5, BranchStep
<1>7. Wasm!Branch(Wasm!cur.pc + 1, Wasm!cur.stack)
  BY <1>2, <1>6, EmptyPop
<1> QED
  BY <1>2, <1>7 DEF Wasm!BranchOp, Wasm!WASM_OP_BR, WASM_OP_BR

LEMMA BrIfStep ==
  ASSUME InLoop, LoopsOn, module' = module, Loop!BrIf
  PROVE  Wasm!BranchOp
<1>1. /\ Loop!Fetch({WASM_OP_BR_IF}) /\ UNCHANGED globals
      /\ Loop!Operand(0) # 0 => Loop!Continue(ip + 2 + prog.code[ip + 1], Loop!Below(1))
      /\ Loop!Operand(0) = 0 => Loop!Continue(ip + 2, Loop!Below(1))
  BY DEF Loop!BrIf, Loop!WASM_OP_BR_IF, WASM_OP_BR_IF, Loop!Imm
<1>2. /\ Wasm!At({WASM_OP_BR_IF}) /\ prog.code[ip] = WASM_OP_BR_IF /\ Wasm!cur.pc = ip
      /\ module.code[ip] = WASM_OP_BR_IF
  BY <1>1, AtIs
<1>3. ip + 1 \in LabelSlots(module.code, ip)
  BY <1>2, InLoopIs, ReadsAre DEF InLoop
<1>4. /\ ip \in Nat /\ module.height[fn_idx][ip] \in Nat /\ 1 <= module.height[fn_idx][ip]
      /\ 0 < module.height[fn_idx][ip]
  BY <1>2, InLoopIs, HeightsAre
<1>5. Wasm!Operand(0) = Loop!Operand(0)
  BY <1>4, OperandsAre
<1>6. CASE Loop!Operand(0) # 0
  <2>1. Loop!Continue((ip + 1) + 1 + prog.code[ip + 1], Loop!Below(1))
    <3>1. (ip + 1) + 1 = ip + 2
      BY <1>4
    <3> QED
      BY <1>1, <1>6, <3>1
  <2>2. Wasm!Branch(ip + 1, Wasm!Below(1))
    <3>1. 1 = IF module.code[ip] = WASM_OP_BR THEN 0 ELSE 1
      BY <1>2 DEF WASM_OP_BR, WASM_OP_BR_IF
    <3> QED
      BY <1>1, <1>3, <1>4, <2>1, <3>1, BranchStep
  <2> QED
    BY <1>2, <1>5, <1>6, <2>2 DEF Wasm!BranchOp, Wasm!WASM_OP_BR_IF, WASM_OP_BR_IF
<1>7. CASE Loop!Operand(0) = 0
  <2>1. ip + 2 = NextInstr(prog.code, ip)
    BY <1>2, <1>4, Lengths
  <2>2. Wasm!Advance(Wasm!Below(1))
    BY <1>1, <1>2, <1>4, <1>7, <2>1, AdvancePop
  <2> QED
    BY <1>2, <1>5, <1>7, <2>2 DEF Wasm!BranchOp, Wasm!WASM_OP_BR_IF, WASM_OP_BR_IF
<1> QED
  BY <1>6, <1>7

LEMMA BrTableStep ==
  ASSUME InLoop, LoopsOn, module' = module, Loop!BrTable
  PROVE  Wasm!BranchOp
<1>1. Loop!Fetch({WASM_OP_BR_TABLE}) /\ UNCHANGED globals
  BY DEF Loop!BrTable, Loop!WASM_OP_BR_TABLE, WASM_OP_BR_TABLE
<1>2. /\ Wasm!At({WASM_OP_BR_TABLE}) /\ prog.code[ip] = WASM_OP_BR_TABLE /\ Wasm!cur.pc = ip
      /\ module.code[ip] = WASM_OP_BR_TABLE
  BY <1>1, AtIs
<1>3. /\ ip \in Nat /\ module.height[fn_idx][ip] \in Nat /\ 1 <= module.height[fn_idx][ip]
      /\ 0 < module.height[fn_idx][ip]
  BY <1>2, InLoopIs, HeightsAre
<1>4. Wasm!Operand(0) = Loop!Operand(0) /\ Loop!Operand(0) \in Nat
  BY <1>3, OperandsAre, LoopAssumption
<1>5. PICK n \in Nat : n = Loop!Imm(1) /\ \A j \in 0..n : ip + 2 + j \in LabelSlots(module.code, ip)
  BY <1>2, InLoopIs, ReadsAre DEF InLoop, Loop!Imm
<1>6. Wasm!Imm(1) = n
  BY <1>2, <1>5, InLoopIs, ReadsAre DEF InLoop, Loop!Imm, Wasm!Imm, Wasm!code
<1>7. PICK k \in 0..n : k = IF Loop!Operand(0) < n THEN Loop!Operand(0) ELSE n
  BY <1>4
<1>8. Loop!Continue((ip + 2 + k) + 1 + prog.code[ip + 2 + k], Loop!Below(1))
  BY <1>5, <1>7 DEF Loop!BrTable
<1>9. Wasm!Branch(ip + 2 + k, Wasm!Below(1))
  <2>1. 1 = IF module.code[ip] = WASM_OP_BR THEN 0 ELSE 1
    BY <1>2 DEF WASM_OP_BR, WASM_OP_BR_TABLE
  <2>2. PICK slot \in LabelSlots(module.code, ip) : slot = ip + 2 + k
    BY <1>5
  <2>3. Loop!Continue(slot + 1 + prog.code[slot], Loop!Below(1))
    BY <1>8, <2>2
  <2> QED
    BY <1>1, <1>3, <2>1, <2>2, <2>3, BranchStep
<1>10. k = IF Wasm!Operand(0) < Wasm!Imm(1) THEN Wasm!Operand(0) ELSE Wasm!Imm(1)
  BY <1>4, <1>6, <1>7
<1> QED
  BY <1>2, <1>9, <1>10 DEF Wasm!BranchOp, Wasm!WASM_OP_BR_TABLE, WASM_OP_BR_TABLE

-----------------------------------------------------------------------------
(***************************************************************************)
(* A call cuts the operands in two and puts zeros on top.                  *)
(***************************************************************************)
Without(s, n) == SubSeq(s, 1, Len(s) - n)

LEMMA WithoutTwice ==
  ASSUME NEW s \in Seq(Value), NEW n \in Nat, NEW m \in Nat, n + m <= Len(s)
  PROVE  Without(Without(s, n), m) = Without(s, n + m)
<1>1. PICK len \in Nat : len = Len(s) /\ n + m <= len
  BY LenProperties
<1>2. PICK d \in Nat, e \in Nat : d = len - n /\ e = len - (n + m)
  <2>1. len - n \in Nat /\ len - (n + m) \in Nat
    BY <1>1
  <2> QED
    BY <2>1, Zenon
<1>3. d <= len /\ e <= len /\ e <= d /\ d - m = e
  BY <1>1, <1>2
<1>4. PICK r, t, u : r = Prefix(s, d) /\ t = Prefix(r, e) /\ u = Prefix(s, e)
  OBVIOUS
<1>5. r \in Seq(Value) /\ Len(r) = d /\ \A k \in 1..d : r[k] = s[k]
  BY <1>1, <1>3, <1>4, PrefixIs DEF Prefix
<1>6. t \in Seq(Value) /\ Len(t) = e /\ \A k \in 1..e : t[k] = r[k]
  <2>1. e <= Len(r)
    BY <1>3, <1>5
  <2> QED
    BY <1>4, <1>5, <2>1, PrefixIs DEF Prefix
<1>7. u \in Seq(Value) /\ Len(u) = e /\ \A k \in 1..e : u[k] = s[k]
  BY <1>1, <1>3, <1>4, PrefixIs DEF Prefix
<1>8. \A k \in 1..e : t[k] = u[k]
  BY <1>3, <1>5, <1>6, <1>7
<1>9. t = u
  BY <1>6, <1>7, <1>8, SeqEqual
<1>10. Without(s, n) = r /\ Without(s, n + m) = u
  BY <1>1, <1>2, <1>4 DEF Without, Prefix
<1>11. Without(r, m) = t
  BY <1>3, <1>4, <1>5 DEF Without, Prefix
<1> QED
  BY <1>9, <1>10, <1>11

LEMMA AboveTwice ==
  ASSUME NEW s \in Seq(Value), NEW a \in Nat, NEW d \in Nat, a + d <= Len(s)
  PROVE  Above(Above(s, a), d) = Above(s, a + d)
<1>1. PICK len \in Nat : len = Len(s) /\ a + d <= len
  BY LenProperties
<1>2. PICK m \in Nat, e \in Nat : m = len - a /\ e = len - (a + d)
  <2>1. len - a \in Nat /\ len - (a + d) \in Nat
    BY <1>1
  <2> QED
    BY <2>1, Zenon
<1>3. a <= len /\ d <= m /\ m - d = e /\ a + d \in Nat
  BY <1>1, <1>2
<1>4. PICK r, t, u : r = Above(s, a) /\ t = Above(r, d) /\ u = Above(s, a + d)
  OBVIOUS
<1>5. r \in Seq(Value) /\ Len(r) = m /\ \A k \in 1..m : r[k] = s[a + k]
  <2>1. len = Len(s) /\ a <= len
    BY <1>1, <1>3
  <2>2. /\ Above(s, a) \in Seq(Value) /\ Len(Above(s, a)) = len - a
        /\ \A k \in 1..(len - a) : Above(s, a)[k] = s[a + k]
    BY <2>1, AboveIs
  <2> QED
    BY <1>2, <1>4, <2>2
<1>6. t \in Seq(Value) /\ Len(t) = e /\ \A k \in 1..e : t[k] = r[d + k]
  <2>1. t \in Seq(Value) /\ Len(t) = m - d /\ \A k \in 1..(m - d) : t[k] = r[d + k]
    <3>1. m = Len(r) /\ d <= m /\ r \in Seq(Value)
      BY <1>3, <1>5
    <3>2. /\ Above(r, d) \in Seq(Value) /\ Len(Above(r, d)) = m - d
          /\ \A k \in 1..(m - d) : Above(r, d)[k] = r[d + k]
      BY <3>1, AboveIs
    <3> QED
      BY <1>4, <3>2
  <2> QED
    BY <1>3, <2>1
<1>7. u \in Seq(Value) /\ Len(u) = e /\ \A k \in 1..e : u[k] = s[(a + d) + k]
  <2>1. PICK b \in Nat : b = a + d
    BY <1>3
  <2>2. u \in Seq(Value) /\ Len(u) = len - b /\ \A k \in 1..(len - b) : u[k] = s[b + k]
    <3>1. b <= len
      BY <1>1, <2>1
    <3> QED
      BY <1>1, <1>4, <2>1, <3>1, AboveIs, ZenonT(60)
  <2> QED
    BY <1>2, <2>1, <2>2
<1>8. ASSUME NEW k \in 1..e PROVE t[k] = u[k]
  <2>1. d + k \in 1..m /\ a + (d + k) = (a + d) + k
    BY <1>2, <1>3
  <2> QED
    BY <1>5, <1>6, <1>7, <2>1
<1>9. t = u
  BY <1>6, <1>7, <1>8, SeqEqual
<1> QED
  BY <1>4, <1>9

LEMMA Joined ==
  ASSUME NEW s \in Seq(Value), NEW z \in Seq(Value)
  PROVE  /\ s \o z \in Seq(Value) /\ Len(s \o z) = Len(s) + Len(z)
         /\ \A idx \in 1..Len(s) : (s \o z)[idx] = s[idx]
         /\ \A idx \in 1..Len(z) : (s \o z)[Len(s) + idx] = z[idx]
<1>1. PICK m \in Nat, n \in Nat : m = Len(s) /\ n = Len(z)
  BY LenProperties
<1>2. PICK r : r = s \o z
  OBVIOUS
<1>3. /\ s \o z \in Seq(Value) /\ Len(s \o z) = Len(s) + Len(z)
      /\ \A idx \in 1..(Len(s) + Len(z)) :
           (s \o z)[idx] = IF idx <= Len(s) THEN s[idx] ELSE z[idx - Len(s)]
  BY ConcatProperties, Zenon
<1>4. /\ r \in Seq(Value) /\ Len(r) = m + n
      /\ \A idx \in 1..(m + n) : r[idx] = IF idx <= m THEN s[idx] ELSE z[idx - m]
  BY <1>1, <1>2, <1>3
<1>5. \A idx \in 1..m : r[idx] = s[idx]
  BY <1>4
<1>6. ASSUME NEW idx \in 1..n PROVE r[m + idx] = z[idx]
  <2>1. m + idx \in 1..(m + n) /\ ~ (m + idx <= m) /\ (m + idx) - m = idx
    OBVIOUS
  <2> QED
    BY <1>4, <2>1
<1> QED
  BY <1>1, <1>2, <1>4, <1>5, <1>6

LEMMA AboveJoined ==
  ASSUME NEW s \in Seq(Value), NEW z \in Seq(Value), NEW a \in Nat, a <= Len(s)
  PROVE  Above(s \o z, a) = Above(s, a) \o z
<1>1. PICK m \in Nat, n \in Nat : m = Len(s) /\ n = Len(z) /\ a <= m
  BY LenProperties
<1>2. PICK d \in Nat : d = m - a
  <2>1. m - a \in Nat
    BY <1>1
  <2> QED
    BY <2>1, Zenon
<1>3. PICK r, t, u, w : r = s \o z /\ t = Above(r, a) /\ u = Above(s, a) /\ w = u \o z
  OBVIOUS
<1>4. /\ r \in Seq(Value) /\ Len(r) = m + n /\ \A idx \in 1..m : r[idx] = s[idx]
      /\ \A idx \in 1..n : r[m + idx] = z[idx]
  BY <1>1, <1>3, Joined
<1>5. t \in Seq(Value) /\ Len(t) = d + n /\ \A k \in 1..(d + n) : t[k] = r[a + k]
  <2>1. PICK b \in Nat : b = m + n
    OBVIOUS
  <2>2. b = Len(r) /\ a <= b
    BY <1>1, <1>4, <2>1
  <2>3. t \in Seq(Value) /\ Len(t) = b - a /\ \A k \in 1..(b - a) : t[k] = r[a + k]
    <3>1. r \in Seq(Value)
      BY <1>4
    <3>2. /\ Above(r, a) \in Seq(Value) /\ Len(Above(r, a)) = b - a
          /\ \A k \in 1..(b - a) : Above(r, a)[k] = r[a + k]
      BY <2>2, <3>1, AboveIs
    <3> QED
      BY <1>3, <3>2
  <2>4. b - a = d + n
    BY <1>2, <2>1
  <2> QED
    BY <2>3, <2>4
<1>6. u \in Seq(Value) /\ Len(u) = d /\ \A k \in 1..d : u[k] = s[a + k]
  <2>1. m = Len(s) /\ a <= m
    BY <1>1
  <2>2. /\ Above(s, a) \in Seq(Value) /\ Len(Above(s, a)) = m - a
        /\ \A k \in 1..(m - a) : Above(s, a)[k] = s[a + k]
    BY <2>1, AboveIs
  <2> QED
    BY <1>2, <1>3, <2>2
<1>7. /\ w \in Seq(Value) /\ Len(w) = d + n /\ \A idx \in 1..d : w[idx] = u[idx]
      /\ \A idx \in 1..n : w[d + idx] = z[idx]
  BY <1>1, <1>3, <1>6, Joined, ZenonT(60)
<1>8. ASSUME NEW k \in 1..(d + n) PROVE t[k] = w[k]
  <2>1. t[k] = r[a + k]
    BY <1>5
  <2>2. CASE k <= d
    <3>1. k \in 1..d /\ a + k \in 1..m
      BY <1>1, <1>2, <2>2
    <3> QED
      BY <1>4, <1>6, <1>7, <2>1, <3>1
  <2>3. CASE d < k
    <3>1. PICK idx \in 1..n : d + idx = k /\ m + idx = a + k
      <4>1. k - d \in 1..n /\ d + (k - d) = k /\ m + (k - d) = a + k
        BY <1>1, <1>2, <2>3
      <4> QED
        BY <4>1, Zenon
    <3>2. r[m + idx] = z[idx] /\ w[d + idx] = z[idx]
      BY <1>4, <1>7
    <3> QED
      BY <2>1, <3>1, <3>2
  <2> QED
    BY <2>2, <2>3
<1>9. t = w
  BY <1>5, <1>7, <1>8, SeqEqual
<1> QED
  BY <1>3, <1>9

LEMMA ZerosAre ==
  ASSUME NEW n \in Nat
  PROVE  /\ [idx \in 1..n |-> 0] \in Seq(Value) /\ Len([idx \in 1..n |-> 0]) = n
         /\ Loop!Zeros(n) = [idx \in 1..n |-> 0]
<1>1. [idx \in 1..n |-> 0] \in [1..n -> Value]
  BY LoopAssumption
<1>2. [idx \in 1..n |-> 0] \in Seq(Value) /\ DOMAIN [idx \in 1..n |-> 0] = 1..n
  BY <1>1
<1> QED
  BY <1>2, LenProperties DEF Loop!Zeros

LEMMA BelowTwice ==
  ASSUME InLoop, NEW n \in Nat, NEW m \in Nat, n + m <= module.height[fn_idx][ip]
  PROVE  /\ Without(Loop!Below(n), m) = Loop!Below(n + m)
         /\ Without(Wasm!Below(n), m) = Wasm!Below(n + m)
<1>1. PICK h \in Nat, p \in Nat : h = module.height[fn_idx][ip] /\ p = op_ptr
  BY InLoopIs
<1>2. op \in Seq(Value) /\ n + m <= Len(op)
  <2>1. p + h = Len(op) /\ op \in Seq(Value)
    BY <1>1, InLoopIs
  <2> QED
    BY <1>1, <2>1
<1>3. PICK s : s = Wasm!cur.stack
  OBVIOUS
<1>4. s \in Seq(Value) /\ n + m <= Len(s)
  <2>1. 0 <= h /\ h - 0 = h
    OBVIOUS
  <2>2. Wasm!Below(0) \in Seq(Value) /\ Len(Wasm!Below(0)) = h
    BY <1>1, <2>1, StackIs
  <2> QED
    BY <1>1, <1>3, <2>2, EmptyPop
<1>5. \A k : Loop!Below(k) = Without(op, k) /\ Wasm!Below(k) = Without(s, k)
  BY <1>3 DEF Loop!Below, Wasm!Below, Without
<1> QED
  BY <1>2, <1>4, <1>5, WithoutTwice

\* A call of an import: its result, if it has one, replaces the arguments.
LEMMA ImportStep ==
  ASSUME InLoop, LoopsOn, module' = module, NEW n \in Nat, NEW f, NEW ret,
         module.funcs[f].num_params \in Nat,
         n + module.funcs[f].num_params <= module.height[fn_idx][ip],
         Loop!CallImport(f, Loop!Below(n), ret)
  PROVE  Wasm!Invoke(f, Wasm!Below(n), ret)
<1>1. PICK np \in Nat, m \in Nat : np = module.funcs[f].num_params /\ m = n + np
  <2>1. n + module.funcs[f].num_params \in Nat
    OBVIOUS
  <2> QED
    BY <2>1, Zenon
<1>2. m <= module.height[fn_idx][ip] /\ prog.funcs = module.funcs /\ prog.num_imports = module.num_imports
  BY <1>1, SameModule DEF InLoop
<1>3. /\ Without(Loop!Below(n), np) = Loop!Below(m)
      /\ Without(Wasm!Below(n), np) = Wasm!Below(m)
  BY <1>1, BelowTwice
<1>4. /\ f < module.num_imports
      /\ \/ \E v \in Value :
              /\ Loop!Continue(ret, IF module.funcs[f].num_results # 0 THEN Append(Loop!Below(m), v)
                                    ELSE Loop!Below(m))
              /\ UNCHANGED globals
         \/ Loop!DoTrap
  BY <1>1, <1>2, <1>3 DEF Loop!CallImport, Without
<1>5. Wasm!Stop("trapped") \/
      \E v \in Value : /\ Wasm!Goto(ret, IF module.funcs[f].num_results = 0 THEN Wasm!Below(m)
                                         ELSE Append(Wasm!Below(m), v), Wasm!cur.locals)
                       /\ UNCHANGED globals
  <2>1. CASE Loop!DoTrap
    BY <2>1, TrapStep
  <2>2. ASSUME NEW v \in Value, UNCHANGED globals,
               Loop!Continue(ret, IF module.funcs[f].num_results # 0 THEN Append(Loop!Below(m), v)
                                  ELSE Loop!Below(m))
        PROVE  Wasm!Goto(ret, IF module.funcs[f].num_results = 0 THEN Wasm!Below(m)
                              ELSE Append(Wasm!Below(m), v), Wasm!cur.locals)
    <3>1. CASE module.funcs[f].num_results = 0
      <4>1. Loop!Continue(ret, Loop!Below(m))
        BY <2>2, <3>1
      <4>2. Wasm!Goto(ret, Wasm!Below(m), Wasm!cur.locals)
        BY <1>2, <4>1, PopStep
      <4> QED
        BY <3>1, <4>2
    <3>2. CASE module.funcs[f].num_results # 0
      <4>1. Loop!Continue(ret, Append(Loop!Below(m), v))
        BY <2>2, <3>2
      <4>2. Wasm!Goto(ret, Append(Wasm!Below(m), v), Wasm!cur.locals)
        BY <1>2, <4>1, PushStep
      <4> QED
        BY <3>2, <4>2
    <3> QED
      BY <3>1, <3>2
  <2> QED
    BY <1>4, <2>1, <2>2
<1>6. PICK s : s = Wasm!Below(n)
  OBVIOUS
<1>7. Wasm!Below(m) = SubSeq(s, 1, Len(s) - np)
  BY <1>3, <1>6 DEF Without
<1> QED
  BY <1>1, <1>4, <1>5, <1>6, <1>7 DEF Wasm!Invoke

Topmost(s, n) == SubSeq(s, Len(s) - n + 1, Len(s))

\* The caller's operands without the arguments, in the array and in the list.
LEMMA CallCuts ==
  ASSUME InLoop, NEW n \in Nat, NEW np \in Nat, n + np <= module.height[fn_idx][ip],
         NEW s, s = Loop!Below(n)
  PROVE  /\ s \in Seq(Value) /\ Len(s) \in Nat /\ \A k \in 1..Len(s) : s[k] = op[k]
         /\ Len(s) - np \in Nat /\ op_ptr <= Len(s) - np
         /\ Slice(s, op_ptr, Len(s) - np) = Without(Wasm!Below(n), np)
         /\ Above(s, Len(s) - np) = Topmost(Wasm!Below(n), np)
<1> DEFINE t == Wasm!Below(n)
<1> HIDE DEF t
<1>1. PICK h \in Nat, p \in Nat, m \in Nat : h = module.height[fn_idx][ip] /\ p = op_ptr /\ m = n + np
  <2>1. n + np \in Nat
    OBVIOUS
  <2> QED
    BY <2>1, InLoopIs, Zenon
<1>2. n <= h /\ m <= h
  BY <1>1
<1>3. /\ s \in Seq(Value) /\ Len(s) = Len(op) - n /\ \A k \in 1..Len(s) : s[k] = op[k]
      /\ Above(s, p) = t
  BY <1>1, <1>2, PopIs DEF t
<1>4. PICK r : r = Loop!Below(m)
  OBVIOUS
<1>5. r \in Seq(Value) /\ Len(r) = Len(op) - m /\ p <= Len(r) /\ Above(r, p) = Wasm!Below(m)
  BY <1>1, <1>2, <1>4, PopIs
<1>6. PICK e \in Nat, len \in Nat : e = Len(r) /\ len = Len(s)
  BY <1>3, <1>5, LenProperties
<1>7. e = len - np /\ p <= e /\ e <= len /\ p <= len
  <2>1. PICK l \in Nat : l = Len(op)
    BY InLoopIs
  <2>2. e = l - m /\ len = l - n /\ p <= e
    BY <1>3, <1>5, <1>6, <2>1
  <2> QED
    BY <1>1, <2>2
<1>8. r = Prefix(s, e)
  <2>1. Without(s, np) = r
    BY <1>1, <1>4, BelowTwice
  <2> QED
    BY <1>6, <1>7, <2>1 DEF Without, Prefix
<1>9. Slice(s, p, e) = Wasm!Below(m)
  <2>1. \A k \in 1..e : r[k] = s[k]
    BY <1>3, <1>6, <1>7, <1>8, PrefixIs DEF Prefix
  <2>2. \A k \in (p + 1)..e : s[k] = r[k]
    BY <2>1
  <2>3. e <= Len(s) /\ e <= Len(r)
    BY <1>6, <1>7
  <2>4. Slice(s, p, e) = Slice(r, p, e)
    <3>1. s \in Seq(Value) /\ r \in Seq(Value) /\ p <= e
      BY <1>3, <1>5, <1>7
    <3> QED
      BY <2>2, <2>3, <3>1, SliceSame
  <2> QED
    BY <1>5, <1>6, <2>4 DEF Above
<1>10. Wasm!Below(m) = Without(t, np)
  BY <1>1, BelowTwice DEF t
<1>11. Above(s, e) = Topmost(t, np)
  <2>1. PICK d \in Nat : d = e - p
    <3>1. e - p \in Nat
      BY <1>7
    <3> QED
      BY <3>1, Zenon
  <2>2. p + d = e /\ p + d <= Len(s)
    BY <1>6, <1>7, <2>1
  <2>3. Above(t, d) = Above(s, e)
    BY <1>3, <2>2, AboveTwice
  <2>4. len = Len(s) /\ p <= len
    BY <1>6, <1>7
  <2>5. Len(Above(s, p)) = len - p
    BY <1>3, <2>4, AboveIs
  <2>6. Len(t) - np = d
    BY <1>3, <1>7, <2>1, <2>5
  <2> QED
    BY <2>3, <2>6 DEF Above, Slice, Topmost
<1> QED
  BY <1>1, <1>3, <1>6, <1>7, <1>9, <1>10, <1>11 DEF t

\* A call of a function of the module: the caller is left with what its callee
\* may not touch, and the callee has the arguments and zeros.
LEMMA FuncStep ==
  ASSUME InLoop, LoopsOn, module' = module, NEW n \in Nat, NEW f, NEW ret,
         module.funcs[f].num_params \in Nat, module.funcs[f].num_locals \in Nat,
         n + module.funcs[f].num_params <= module.height[fn_idx][ip],
         Loop!CallFunc(f, Loop!Below(n), ret)
  PROVE  Wasm!Invoke(f, Wasm!Below(n), ret)
<1>1. PICK np \in Nat, nl \in Nat : np = module.funcs[f].num_params /\ nl = module.funcs[f].num_locals
  OBVIOUS
<1>2. PICK s, t : s = Loop!Below(n) /\ t = Wasm!Below(n)
  OBVIOUS
<1>3. PICK z, g : z = [idx \in 1..nl |-> 0] /\ g = s \o z
  OBVIOUS
<1>4. z \in Seq(Value) /\ Len(z) = nl /\ Loop!Zeros(nl) = z
  BY <1>3, ZerosAre
<1>5. prog.funcs = module.funcs /\ prog.num_imports = module.num_imports
  BY SameModule DEF InLoop
<1>6. /\ f >= module.num_imports /\ fn_idx' = f /\ ip' = module.funcs[f].code_start
      /\ frames' = Append(frames, [ret_addr |-> ret, fn_idx |-> fn_idx, locals |-> locals,
                                   op_ptr |-> op_ptr])
      /\ locals' = Len(s) - np /\ op' = g /\ op_ptr' = Len(g)
      /\ UNCHANGED <<prog, phase, globals, return_result>>
  BY <1>1, <1>2, <1>3, <1>4, <1>5 DEF Loop!CallFunc
<1>7. PICK p \in Nat, l \in Nat : p = op_ptr /\ l = locals /\ l <= p
  <2>1. PICK k \in Nat : k = Slots(prog, fn_idx)
    BY InLoopIs
  <2> QED
    BY <2>1, InLoopIs
<1>8. /\ s \in Seq(Value) /\ Len(s) \in Nat /\ \A k \in 1..Len(s) : s[k] = op[k]
      /\ Len(s) - np \in Nat /\ p <= Len(s) - np
      /\ Slice(s, p, Len(s) - np) = Without(t, np)
      /\ Above(s, Len(s) - np) = Topmost(t, np)
  <2>1. n + np <= module.height[fn_idx][ip] /\ np \in Nat
    BY <1>1
  <2>2. /\ s \in Seq(Value) /\ Len(s) \in Nat /\ \A k \in 1..Len(s) : s[k] = op[k]
        /\ Len(s) - np \in Nat /\ op_ptr <= Len(s) - np
        /\ Slice(s, op_ptr, Len(s) - np) = Without(Wasm!Below(n), np)
        /\ Above(s, Len(s) - np) = Topmost(Wasm!Below(n), np)
    BY <1>2, <2>1, CallCuts, SMTT(60)
  <2> QED
    BY <1>2, <1>7, <2>2
<1>9. PICK len \in Nat, e \in Nat : len = Len(s) /\ e = len - np /\ p <= e /\ e <= len
  BY <1>8
<1>10. /\ g \in Seq(Value) /\ Len(g) = len + nl /\ \A k \in 1..len : g[k] = op[k]
       /\ \A k \in 1..len : g[k] = s[k]
  BY <1>3, <1>4, <1>8, <1>9, Joined
<1>11. PICK N \in Nat : N = Len(frames)
  BY CallersBelow
<1>12. PICK c : c = [ret_addr |-> ret, fn_idx |-> fn_idx, locals |-> locals, op_ptr |-> op_ptr]
  OBVIOUS
<1>13. Len(frames') = N + 1 /\ frames'[N + 1] = c /\ \A j \in 1..N : frames'[j] = frames[j]
  <2>1. frames \in Seq(RP!Context)
    BY DEF InLoop, WInv, RP!IInv, RP!TypeOK
  <2>2. DOMAIN frames = 1..N
    BY <1>11, CallersBelow
  <2> QED
    BY <1>6, <1>11, <1>12, <2>1, <2>2
<1>14. \A j \in 1..N : Suspended(j)' = Suspended(j)
  <2> TAKE j \in 1..N
  <2>1. locals <= Len(g) /\ \A k \in 1..locals : g[k] = op[k]
    BY <1>7, <1>9, <1>10
  <2>2. /\ Slice(g, frames[j].locals, frames[j].op_ptr) = Slice(op, frames[j].locals, frames[j].op_ptr)
        /\ Slice(g, frames[j].op_ptr, TopOf(j)) = Slice(op, frames[j].op_ptr, TopOf(j))
    BY <1>10, <1>11, <2>1, SuspendedSame
  <2>3. TopOf(j)' = TopOf(j)
    BY <1>11, <1>12, <1>13 DEF TopOf
  <2>4. frames'[j] = frames[j]
    BY <1>13
  <2> QED
    BY <1>6, <2>2, <2>3, <2>4 DEF Suspended
<1>15. PICK A : A = Loop!Activations
  OBVIOUS
<1>16. A = [j \in 1..(N + 1) |-> IF j = N + 1 THEN Current ELSE Suspended(j)] /\ Len(A) = N + 1
  BY <1>11, <1>15, ActivationsAre, CurrentIs DEF Active
<1>17. A[N + 1] = Current /\ Wasm!cur = Current
  BY <1>11, <1>15, CurrentIs
<1>18. Suspended(N + 1)' = [fn |-> fn_idx, pc |-> ret, locals |-> Slice(op, l, p),
                           stack |-> Without(t, np)]
  <2>1. Suspended(N + 1)' = [fn |-> fn_idx, pc |-> ret, locals |-> Slice(g, l, p),
                             stack |-> Slice(g, p, e)]
    BY <1>6, <1>7, <1>9, <1>12, <1>13 DEF Suspended, TopOf
  <2>2. Slice(g, l, p) = Slice(op, l, p)
    <3>1. op \in Seq(Value) /\ Len(op) \in Nat /\ p <= Len(op)
      <4>1. PICK h \in Nat : h = module.height[fn_idx][ip]
        BY InLoopIs
      <4> QED
        BY <1>7, <4>1, InLoopIs
    <3>2. p <= Len(g) /\ \A k \in (l + 1)..p : g[k] = op[k]
      BY <1>9, <1>10, SMTT(60)
    <3> QED
      <4>1. g \in Seq(Value) /\ l <= p
        BY <1>7, <1>10
      <4> QED
        BY <3>1, <3>2, <4>1, SliceSame
  <2>3. Slice(g, p, e) = Without(t, np)
    <3>1. e <= Len(g) /\ e <= Len(s) /\ \A k \in (p + 1)..e : g[k] = s[k]
      BY <1>9, <1>10
    <3>2. Slice(g, p, e) = Slice(s, p, e)
      <4>1. g \in Seq(Value) /\ s \in Seq(Value) /\ p <= e
        BY <1>8, <1>9, <1>10
      <4> QED
        BY <3>1, <4>1, SliceSame
    <3> QED
      BY <1>8, <1>9, <3>2
  <2> QED
    BY <2>1, <2>2, <2>3
<1>19. Current' = [fn |-> f, pc |-> module.funcs[f].code_start, locals |-> Topmost(t, np) \o z,
                 stack |-> <<>>]
  <2>1. Current' = [fn |-> f, pc |-> module.funcs[f].code_start, locals |-> Slice(g, e, Len(g)),
                    stack |-> Above(g, Len(g))]
    BY <1>6, <1>9 DEF Current
  <2>2. Slice(g, e, Len(g)) = Topmost(t, np) \o z
    <3>1. Above(g, e) = Above(s, e) \o z
      BY <1>3, <1>4, <1>8, <1>9, AboveJoined
    <3> QED
      BY <1>8, <1>9, <3>1 DEF Above
  <2>3. Above(g, Len(g)) = <<>>
    <3>1. PICK m \in Nat : m = Len(g)
      BY <1>10
    <3>2. m <= m /\ m - m = 0
      OBVIOUS
    <3>3. Above(g, m) \in Seq(Value) /\ Len(Above(g, m)) = m - m
      BY <1>10, <3>1, <3>2, AboveIs
    <3> QED
      BY <3>1, <3>2, <3>3, EmptySeq
  <2> QED
    BY <2>1, <2>2, <2>3
<1> DEFINE caller == [A[Len(A)] EXCEPT !.pc = ret, !.stack = Without(t, np)]
           callee == [fn |-> f, pc |-> module.funcs[f].code_start, locals |-> Topmost(t, np) \o z,
                      stack |-> <<>>]
<1>20. caller = [fn |-> fn_idx, pc |-> ret, locals |-> Slice(op, l, p), stack |-> Without(t, np)]
  <2>1. A[Len(A)] = [fn |-> fn_idx, pc |-> ip, locals |-> Slice(op, l, p), stack |-> Above(op, p)]
    BY <1>7, <1>16, <1>17 DEF Current
  <2>2. PICK ls, st, rest : ls = Slice(op, l, p) /\ st = Above(op, p) /\ rest = Without(t, np)
    OBVIOUS
  <2>3. [[fn |-> fn_idx, pc |-> ip, locals |-> ls, stack |-> st] EXCEPT !.pc = ret, !.stack = rest] =
          [fn |-> fn_idx, pc |-> ret, locals |-> ls, stack |-> rest]
    <3>1. PICK r : r = [fn |-> fn_idx, pc |-> ip, locals |-> ls, stack |-> st]
      OBVIOUS
    <3>2. PICK r2 : r2 = [r EXCEPT !.pc = ret]
      OBVIOUS
    <3>3. r2 = [fn |-> fn_idx, pc |-> ret, locals |-> ls, stack |-> st]
      BY <3>1, <3>2
    <3>4. [r2 EXCEPT !.stack = rest] = [fn |-> fn_idx, pc |-> ret, locals |-> ls, stack |-> rest]
      BY <3>3
    <3> QED
      BY <3>1, <3>2, <3>4
  <2> QED
    BY <2>1, <2>2, <2>3
<1>21. callee = [fn |-> f, pc |-> module.funcs[f].code_start, locals |-> Topmost(t, np) \o z,
                 stack |-> <<>>]
  OBVIOUS
<1> HIDE DEF caller, callee
<1>22. Loop!Activations' = Append([A EXCEPT ![Len(A)] = caller], callee)
  <2>1. Loop!Activations' = Active'
    <3>1. phase' = "running"
      BY <1>6 DEF InLoop
    <3> QED
      BY <3>1, ActivationsNext DEF LoopsOn
  <2>2. Active' = [j \in 1..((N + 1) + 1) |-> IF j = (N + 1) + 1 THEN Current' ELSE Suspended(j)']
    BY <1>13 DEF Active
  <2>3. Active' = [j \in 1..((N + 1) + 1) |->
                     IF j = (N + 1) + 1 THEN callee ELSE IF j = N + 1 THEN caller ELSE Suspended(j)]
    <3>1. \A j \in 1..((N + 1) + 1) :
            (IF j = (N + 1) + 1 THEN Current' ELSE Suspended(j)') =
            (IF j = (N + 1) + 1 THEN callee ELSE IF j = N + 1 THEN caller ELSE Suspended(j))
      BY <1>14, <1>18, <1>19, <1>20, <1>21
    <3> QED
      BY <2>2, <3>1
  <2>4. [A EXCEPT ![Len(A)] = caller] =
          [j \in 1..(N + 1) |-> IF j = N + 1 THEN caller ELSE Suspended(j)]
    BY <1>16
  <2>5. N + 1 \in Nat
    OBVIOUS
  <2> QED
    BY <2>1, <2>3, <2>4, <2>5, ListAppend
<1>23. Loop!InStart' = Loop!InStart
  <2>1. Loop!FnAt(1)' = Loop!FnAt(1)
    BY <1>11, <1>12, <1>13 DEF Loop!FnAt, Loop!Depth
  <2> QED
    BY <1>6, <2>1 DEF Loop!InStart
<1>24. callee = Wasm!Activation(f, Topmost(t, np))
  BY <1>1, <1>3 DEF callee, Wasm!Activation
<1>25. caller = [A[Len(A)] EXCEPT !.pc = ret, !.stack = Without(t, np)]
  BY DEF caller
<1> QED
  BY <1>1, <1>2, <1>6, <1>15, <1>22, <1>23, <1>24, <1>25
     DEF Wasm!Invoke, Topmost, Without

LEMMA FuncIs ==
  ASSUME InLoop, NEW f \in DOMAIN module.funcs
  PROVE  /\ module.funcs[f].num_params \in Nat /\ module.funcs[f].num_locals \in Nat
         /\ module.funcs[f].num_results \in 0..1
         /\ module.sigs[module.funcs[f].sig_index].num_params = module.funcs[f].num_params
<1>1. Valid(prog, Value) /\ prog.funcs = module.funcs /\ prog.sigs = module.sigs
  BY InLoopIs, SameModule DEF InLoop
<1>2. /\ module.funcs[f].num_params \in Nat /\ module.funcs[f].num_locals \in Nat
      /\ module.funcs[f].num_results \in 0..1
      /\ module.sigs[module.funcs[f].sig_index] =
           [num_params  |-> module.funcs[f].num_params, num_results |-> module.funcs[f].num_results]
  BY <1>1 DEF Valid
<1> QED
  BY <1>2

LEMMA InvokeStep ==
  ASSUME InLoop, LoopsOn, module' = module, NEW n \in Nat, NEW f \in DOMAIN module.funcs, NEW ret,
         n + module.funcs[f].num_params <= module.height[fn_idx][ip],
         Loop!CallImport(f, Loop!Below(n), ret) \/ Loop!CallFunc(f, Loop!Below(n), ret)
  PROVE  Wasm!Invoke(f, Wasm!Below(n), ret)
<1>1. module.funcs[f].num_params \in Nat /\ module.funcs[f].num_locals \in Nat
  BY FuncIs
<1>2. CASE Loop!CallImport(f, Loop!Below(n), ret)
  BY <1>1, <1>2, ImportStep
<1>3. CASE Loop!CallFunc(f, Loop!Below(n), ret)
  BY <1>1, <1>3, FuncStep
<1> QED
  BY <1>2, <1>3

LEMMA CallStep ==
  ASSUME InLoop, LoopsOn, module' = module, Loop!Call
  PROVE  Wasm!Call
<1>1. PICK f : f = prog.code[ip + 1]
  OBVIOUS
<1>2. /\ Loop!Fetch({WASM_OP_CALL})
      /\ Loop!CallImport(f, op, ip + 2) \/ Loop!CallFunc(f, op, ip + 2)
  BY <1>1 DEF Loop!Call, Loop!Imm, Loop!WASM_OP_CALL, WASM_OP_CALL
<1>3. Wasm!At({WASM_OP_CALL}) /\ prog.code[ip] = WASM_OP_CALL /\ Wasm!cur.pc = ip
  BY <1>2, AtIs
<1>4. f = Wasm!Imm(1)
  BY <1>1, <1>3, InLoopIs, ReadsAre DEF InLoop, Wasm!Imm, Wasm!code, ImmediateOps
<1>5. f \in DOMAIN module.funcs /\ module.funcs[f].num_params <= module.height[fn_idx][ip]
  <2>1. InstrValid(prog, Value, fn_idx, ip) /\ prog.funcs = module.funcs /\ prog.height = module.height
    BY InLoopIs, SameModule DEF InLoop
  <2> QED
    BY <1>1, <1>3, <2>1 DEF InstrValid, MayCall
<1>6. 0 + module.funcs[f].num_params <= module.height[fn_idx][ip]
  BY <1>5, FuncIs
<1>7. Wasm!Invoke(f, Wasm!Below(0), ip + 2)
  <2>1. Loop!CallImport(f, Loop!Below(0), ip + 2) \/ Loop!CallFunc(f, Loop!Below(0), ip + 2)
    BY <1>2, EmptyPop
  <2> QED
    BY <1>5, <1>6, <2>1, InvokeStep
<1>8. Wasm!Invoke(Wasm!Imm(1), Wasm!cur.stack, Wasm!cur.pc + 2)
  BY <1>3, <1>4, <1>7, EmptyPop
<1> QED
  BY <1>3, <1>8 DEF Wasm!Call, Wasm!WASM_OP_CALL, WASM_OP_CALL

LEMMA CallIndirectStep ==
  ASSUME InLoop, LoopsOn, module' = module, Loop!CallIndirect
  PROVE  Wasm!CallIndirect
<1>1. PICK x, t : x = Loop!Operand(0) /\ t = prog.code[ip + 1]
  OBVIOUS
<1> DEFINE ok == /\ x \in DOMAIN module.table /\ module.table[x] # -1
                 /\ module.funcs[module.table[x]].sig_index = t
           f  == module.table[x]
<1>2. prog.table = module.table /\ prog.funcs = module.funcs /\ prog.sigs = module.sigs
  BY SameModule DEF InLoop
<1>3. /\ Loop!Fetch({WASM_OP_CALL_INDIRECT})
      /\ \/ ~ok /\ Loop!DoTrap
         \/ ok /\ Loop!CallImport(f, Loop!Below(1), ip + 3)
         \/ ok /\ Loop!CallFunc(f, Loop!Below(1), ip + 3)
  BY <1>1, <1>2 DEF Loop!CallIndirect, Loop!Imm, Loop!WASM_OP_CALL_INDIRECT,
                    WASM_OP_CALL_INDIRECT, Loop!NullFunc
<1>4. /\ Wasm!At({WASM_OP_CALL_INDIRECT}) /\ prog.code[ip] = WASM_OP_CALL_INDIRECT
      /\ Wasm!cur.pc = ip
  BY <1>3, AtIs
<1>5. t = Wasm!Imm(1)
  BY <1>1, <1>4, InLoopIs, ReadsAre DEF InLoop, Wasm!Imm, Wasm!code
<1>6. x = Wasm!Operand(0)
  <2>1. module.height[fn_idx][ip] \in Nat /\ 1 <= module.height[fn_idx][ip]
    BY <1>4, InLoopIs, HeightsAre
  <2>2. 0 < module.height[fn_idx][ip]
    BY <2>1
  <2> QED
    BY <1>1, <2>2, OperandsAre
<1>7. ASSUME ok
      PROVE  f \in DOMAIN module.funcs /\ 1 + module.funcs[f].num_params <= module.height[fn_idx][ip]
  <2>1. /\ InstrValid(prog, Value, fn_idx, ip) /\ Valid(prog, Value)
        /\ prog.height = module.height
    BY InLoopIs, SameModule DEF InLoop
  <2>2. f \in DOMAIN module.funcs
    BY <1>2, <1>7, <2>1 DEF Valid
  <2>3. module.sigs[t].num_params <= module.height[fn_idx][ip] - 1
    BY <1>1, <1>2, <1>4, <2>1 DEF InstrValid, MayCall
  <2>4. module.funcs[f].num_params \in Nat /\ module.sigs[t].num_params = module.funcs[f].num_params
    BY <1>7, <2>2, FuncIs
  <2>5. PICK h \in Nat : h = module.height[fn_idx][ip]
    BY InLoopIs
  <2>6. PICK np \in Nat : np = module.funcs[f].num_params
    BY <2>4
  <2>7. np <= h - 1
    BY <2>3, <2>4, <2>5, <2>6
  <2>8. 1 + np <= h
    BY <2>7
  <2> QED
    BY <2>2, <2>5, <2>6, <2>8
<1>8. IF ok THEN Wasm!Invoke(f, Wasm!Below(1), ip + 3) ELSE Wasm!Stop("trapped")
  <2>1. CASE ok
    <3>1. Loop!CallImport(f, Loop!Below(1), ip + 3) \/ Loop!CallFunc(f, Loop!Below(1), ip + 3)
      BY <1>3, <2>1
    <3>2. /\ f \in DOMAIN module.funcs
          /\ 1 + module.funcs[f].num_params <= module.height[fn_idx][ip]
      BY <1>7, <2>1
    <3> HIDE DEF ok, f
    <3>3. Wasm!Invoke(f, Wasm!Below(1), ip + 3)
      BY <3>1, <3>2, InvokeStep
    <3> QED
      BY <2>1, <3>3
  <2>2. CASE ~ok
    BY <1>3, <2>2, TrapStep
  <2> QED
    BY <2>1, <2>2
<1> QED
  BY <1>4, <1>5, <1>6, <1>8
     DEF Wasm!CallIndirect, Wasm!WASM_OP_CALL_INDIRECT, WASM_OP_CALL_INDIRECT, Wasm!NullFunc

-----------------------------------------------------------------------------
(***************************************************************************)
(* A return cuts the operands at the callee's locals and gives the caller  *)
(* the result.                                                             *)
(***************************************************************************)
LEMMA TopmostIs ==
  ASSUME NEW t \in Seq(Value), NEW n \in 0..1, n <= Len(t)
  PROVE  /\ n = 0 => Topmost(t, n) = <<>>
         /\ n = 1 => Topmost(t, n) = <<t[Len(t)]>> /\ t[Len(t)] \in Value
<1>1. PICK len \in Nat : len = Len(t) /\ n <= len
  BY LenProperties
<1>2. PICK d \in Nat : d = len - n
  <2>1. len - n \in Nat
    BY <1>1
  <2> QED
    BY <2>1, Zenon
<1>3. d <= len /\ len - d = n
  BY <1>1, <1>2
<1>4. PICK r : r = Above(t, d)
  OBVIOUS
<1>5. r \in Seq(Value) /\ Len(r) = n /\ \A idx \in 1..n : r[idx] = t[d + idx]
  <2>1. /\ Above(t, d) \in Seq(Value) /\ Len(Above(t, d)) = len - d
        /\ \A idx \in 1..(len - d) : Above(t, d)[idx] = t[d + idx]
    BY <1>1, <1>3, AboveIs
  <2> QED
    BY <1>3, <1>4, <2>1
<1>6. Topmost(t, n) = r
  BY <1>1, <1>2, <1>4 DEF Above, Slice, Topmost
<1>7. n = 0 => r = <<>>
  BY <1>5, EmptySeq
<1>8. ASSUME n = 1
      PROVE  r = <<t[len]>> /\ t[len] \in Value
  <2>1. d + 1 = len /\ 1 \in 1..len
    BY <1>1, <1>2, <1>8
  <2>2. r[1] = t[len] /\ t[len] \in Value
    <3>1. len \in 1..len
      BY <1>1, <2>1
    <3>2. t[len] \in Value
      BY <1>1, <3>1, ElementOfSeq
    <3> QED
      BY <1>5, <1>8, <2>1, <3>2
  <2>3. PICK v \in Value : v = t[len]
    BY <2>2
  <2>4. <<v>> \in Seq(Value) /\ Len(<<v>>) = 1 /\ <<v>>[1] = v
    OBVIOUS
  <2>5. r = <<v>>
    BY <1>5, <1>8, <2>2, <2>3, <2>4, SeqEqual
  <2> QED
    BY <2>2, <2>3, <2>5
<1> QED
  BY <1>1, <1>6, <1>7, <1>8

LEMMA ListPrefix ==
  ASSUME NEW n \in Nat, NEW s, NEW t, s = [j \in 1..n |-> s[j]], t = [j \in 1..(n + 1) |-> t[j]],
         \A j \in 1..n : t[j] = s[j]
  PROVE  Prefix(t, n) = s
<1> DEFINE S == {t[j] : j \in 1..(n + 1)}
<1>1. t \in Seq(S) /\ Len(t) = n + 1
  <2>1. \A j \in 1..(n + 1) : t[j] \in S
    OBVIOUS
  <2>2. t \in [1..(n + 1) -> S]
    BY <2>1
  <2>3. n + 1 \in Nat
    OBVIOUS
  <2> HIDE DEF S
  <2> QED
    BY <2>2, <2>3
<1>2. s \in Seq(S) /\ Len(s) = n
  <2>1. \A j \in 1..n : s[j] \in S
    OBVIOUS
  <2>2. s \in [1..n -> S]
    BY <2>1
  <2> HIDE DEF S
  <2> QED
    BY <2>2
<1> HIDE DEF S
<1>3. /\ SubSeq(t, 1, n) \in Seq(S) /\ Len(SubSeq(t, 1, n)) = n
      /\ \A j \in 1..n : SubSeq(t, 1, n)[j] = t[j]
  <2>1. \A j \in 1..n : t[j] \in S
    BY <1>1, ElementOfSeq
  <2> QED
    BY <1>1, <2>1, SubSeqProperties
<1>4. SubSeq(t, 1, n) = s
  BY <1>2, <1>3, SeqEqual
<1> QED
  BY <1>4 DEF Prefix

\* What a return leaves in the array and hands over.
LEMMA ReturnCuts ==
  ASSUME InLoop, NEW nr \in 0..1, nr <= module.height[fn_idx][ip],
         NEW s, s = IF nr = 1 THEN Append(Prefix(op, locals), Loop!Operand(0)) ELSE Prefix(op, locals)
  PROVE  /\ s \in Seq(Value) /\ locals <= Len(s) /\ \A k \in 1..locals : s[k] = op[k]
         /\ nr = 0 => Topmost(Wasm!cur.stack, nr) = <<>>
         /\ nr = 1 => /\ Topmost(Wasm!cur.stack, nr) = <<Loop!Operand(0)>>
                      /\ Loop!Operand(0) \in Value
         /\ \A c \in 0..locals : Above(s, c) = Slice(op, c, locals) \o Topmost(Wasm!cur.stack, nr)
<1>1. PICK h \in Nat, p \in Nat, l \in Nat, n \in Nat :
        h = module.height[fn_idx][ip] /\ p = op_ptr /\ l = locals /\ n = Len(op) /\ l <= p /\ p + h = n
  <2>1. PICK k \in Nat : k = Slots(prog, fn_idx)
    BY InLoopIs
  <2> QED
    BY <2>1, InLoopIs
<1>2. PICK t : t = Wasm!cur.stack
  OBVIOUS
<1>3. t \in Seq(Value) /\ Len(t) = h
  <2>1. 0 <= module.height[fn_idx][ip]
    BY <1>1
  <2>2. Wasm!Below(0) \in Seq(Value) /\ Len(Wasm!Below(0)) = module.height[fn_idx][ip] - 0
    BY <2>1, StackIs
  <2> QED
    BY <1>1, <1>2, <2>2, EmptyPop
<1>4. PICK x : x = Loop!Operand(0)
  OBVIOUS
<1>5. nr = 1 => t[h] = x /\ x \in Value
  <2> SUFFICES ASSUME nr = 1 PROVE t[h] = x /\ x \in Value
    OBVIOUS
  <2>1. 0 < module.height[fn_idx][ip]
    BY <1>1
  <2>2. x \in Value /\ Wasm!Operand(0) = x
    BY <1>4, <2>1, OperandsAre
  <2>3. Wasm!Operand(0) = t[h]
    BY <1>2, <1>3 DEF Wasm!Operand
  <2> QED
    BY <2>2, <2>3
<1>6. PICK results : results = Topmost(t, nr)
  OBVIOUS
<1>7. nr = 0 => results = <<>>
  BY <1>1, <1>3, <1>6, TopmostIs
<1>8. nr = 1 => results = <<x>>
  BY <1>1, <1>3, <1>5, <1>6, TopmostIs
<1>9. PICK r : r = Prefix(op, l)
  OBVIOUS
<1>10. op \in Seq(Value) /\ l <= Len(op)
  BY <1>1, InLoopIs
<1>11. r \in Seq(Value) /\ Len(r) = l /\ \A k \in 1..l : r[k] = op[k]
  BY <1>9, <1>10, PrefixIs DEF Prefix
<1>12. ASSUME NEW c \in 0..l
       PROVE  /\ Above(r, c) = Slice(op, c, l) /\ Slice(op, c, l) \in Seq(Value)
              /\ nr = 0 => Above(s, c) = Above(r, c)
              /\ nr = 1 => Above(s, c) = Append(Above(r, c), x)
  <2>1. c \in Nat /\ c <= l /\ l <= Len(r) /\ \A k \in (c + 1)..l : r[k] = op[k]
    BY <1>11
  <2>2. Slice(r, c, l) = Slice(op, c, l) /\ Slice(op, c, l) \in Seq(Value)
    <3>1. l \in Nat /\ l <= Len(op) /\ op \in Seq(Value) /\ r \in Seq(Value)
      BY <1>1, <1>10, <1>11
    <3>2. Slice(r, c, l) = Slice(op, c, l)
      BY <2>1, <3>1, SliceSame
    <3>3. Slice(op, c, l) \in Seq(Value)
      BY <2>1, <3>1, SliceIs
    <3> QED
      BY <3>2, <3>3
  <2>3. Above(r, c) = Slice(op, c, l)
    BY <1>11, <2>2 DEF Above
  <2>4. nr = 0 => s = r
    BY <1>1, <1>9
  <2>5. nr = 1 => s = Append(r, x)
    BY <1>1, <1>4, <1>9
  <2>6. c <= Len(r)
    BY <1>11
  <2>7. nr = 1 => Above(Append(r, x), c) = Append(Above(r, c), x)
    BY <1>5, <1>11, <2>1, <2>6, AbovePush
  <2> QED
    BY <2>2, <2>3, <2>4, <2>5, <2>7
<1>13. \A c \in 0..l : Above(s, c) = Slice(op, c, l) \o results
  <2> TAKE c \in 0..l
  <2>1. PICK w \in Seq(Value) : w = Slice(op, c, l)
    BY <1>12
  <2>2. w \o <<>> = w
    BY <2>1, ConcatEmptySeq
  <2>3. nr = 1 => w \o <<x>> = Append(w, x)
    BY <1>5, <2>1, AppendIsConcat
  <2>4. /\ nr = 0 => Above(s, c) = w
        /\ nr = 1 => Above(s, c) = Append(w, x)
    BY <1>12, <2>1
  <2>5. nr = 0 \/ nr = 1
    OBVIOUS
  <2>6. CASE nr = 0
    BY <1>7, <2>1, <2>2, <2>4, <2>6
  <2>7. CASE nr = 1
    BY <1>8, <2>1, <2>3, <2>4, <2>7
  <2> QED
    BY <2>5, <2>6, <2>7
<1>14. s \in Seq(Value) /\ locals <= Len(s) /\ \A k \in 1..l : s[k] = op[k]
  <2>1. CASE nr = 1
    <3>1. s = Append(r, x) /\ x \in Value
      BY <1>1, <1>4, <1>5, <1>9, <2>1
    <3>2. s \in Seq(Value) /\ Len(s) = l + 1 /\ \A k \in 1..l : s[k] = r[k]
      <4>1. /\ Append(r, x) \in Seq(Value) /\ Len(Append(r, x)) = Len(r) + 1
            /\ \A k \in 1..Len(r) : Append(r, x)[k] = r[k]
        BY <1>11, <3>1, AppendProperties
      <4> QED
        BY <1>11, <3>1, <4>1
    <3> QED
      BY <1>1, <1>11, <3>2
  <2>2. CASE nr = 0
    BY <1>1, <1>9, <1>11, <2>2
  <2>3. nr = 0 \/ nr = 1
    OBVIOUS
  <2> QED
    BY <2>1, <2>2, <2>3, Zenon
<1> QED
  BY <1>1, <1>2, <1>4, <1>5, <1>6, <1>7, <1>8, <1>13, <1>14

LEMMA ReturnIs ==
  ASSUME InLoop, LoopsOn, module' = module, Loop!Return
  PROVE  \E nr \in 0..1 :
           /\ nr = module.funcs[fn_idx].num_results /\ nr <= module.height[fn_idx][ip]
           /\ op' = IF nr = 1 THEN Append(Prefix(op, locals), Loop!Operand(0)) ELSE Prefix(op, locals)
           /\ return_result' = IF nr = 1 THEN Loop!Operand(0) ELSE return_result
           /\ \/ Wasm!At({WASM_OP_RETURN})
              \/ Wasm!At({WASM_OP_END}) /\ Wasm!cur.pc + 1 = Wasm!fn.code_end
           /\ Wasm!cur.pc = ip /\ Wasm!fn = module.funcs[fn_idx]
<1>1. prog.funcs = module.funcs /\ prog.height = module.height
  BY SameModule DEF InLoop
<1>2. fn_idx \in DOMAIN module.funcs /\ InstrValid(prog, Value, fn_idx, ip)
  BY InLoopIs
<1>3. PICK nr \in 0..1 : nr = module.funcs[fn_idx].num_results
  BY <1>2, FuncIs
<1>4. \/ Loop!Fetch({WASM_OP_RETURN})
      \/ Loop!Fetch({WASM_OP_END}) /\ ip + 1 = module.funcs[fn_idx].code_end
  BY <1>1 DEF Loop!Return, Loop!fn, Loop!WASM_OP_RETURN, WASM_OP_RETURN, Loop!WASM_OP_END, WASM_OP_END
<1>5. /\ \/ prog.code[ip] = WASM_OP_RETURN
         \/ prog.code[ip] = WASM_OP_END /\ ip + 1 = prog.funcs[fn_idx].code_end
      /\ \/ Wasm!At({WASM_OP_RETURN})
         \/ Wasm!At({WASM_OP_END}) /\ ip + 1 = module.funcs[fn_idx].code_end
  BY <1>1, <1>4, AtIs
<1>6. nr <= module.height[fn_idx][ip]
  BY <1>1, <1>2, <1>3, <1>5 DEF InstrValid
<1>7. /\ op' = IF nr = 1 THEN Append(Prefix(op, locals), Loop!Operand(0)) ELSE Prefix(op, locals)
      /\ return_result' = IF nr = 1 THEN Loop!Operand(0) ELSE return_result
  BY <1>1, <1>3 DEF Loop!Return, Loop!fn, Prefix
<1>8. Wasm!cur.pc = ip /\ Wasm!fn = module.funcs[fn_idx]
  BY CurrentIs DEF Current, Wasm!fn
<1> QED
  BY <1>3, <1>5, <1>6, <1>7, <1>8

\* Out of the bottom frame: nothing is active any more.
LEMMA ReturnOut ==
  ASSUME InLoop, LoopsOn, module' = module, Loop!Return, frames = <<>>
  PROVE  Wasm!ReturnFrom
<1>1. PICK nr \in 0..1 :
        /\ nr = module.funcs[fn_idx].num_results /\ nr <= module.height[fn_idx][ip]
        /\ op' = IF nr = 1 THEN Append(Prefix(op, locals), Loop!Operand(0)) ELSE Prefix(op, locals)
        /\ return_result' = IF nr = 1 THEN Loop!Operand(0) ELSE return_result
        /\ \/ Wasm!At({WASM_OP_RETURN})
           \/ Wasm!At({WASM_OP_END}) /\ Wasm!cur.pc + 1 = Wasm!fn.code_end
        /\ Wasm!cur.pc = ip /\ Wasm!fn = module.funcs[fn_idx]
  BY ReturnIs
<1>2. PICK results : results = Topmost(Wasm!cur.stack, nr)
  OBVIOUS
<1>3. /\ nr = 0 => results = <<>>
      /\ nr = 1 => results = <<Loop!Operand(0)>> /\ Loop!Operand(0) \in Value
  <2>1. PICK s : s = IF nr = 1 THEN Append(Prefix(op, locals), Loop!Operand(0)) ELSE Prefix(op, locals)
    OBVIOUS
  <2> QED
    BY <1>1, <1>2, <2>1, ReturnCuts
<1>4. return_result' = IF results # <<>> THEN results[1] ELSE return_result
  <2>1. nr = 0 \/ nr = 1
    OBVIOUS
  <2>2. CASE nr = 1
    <3>1. PICK x : x = Loop!Operand(0)
      OBVIOUS
    <3>2. <<x>> # <<>> /\ <<x>>[1] = x
      OBVIOUS
    <3> QED
      BY <1>1, <1>3, <2>2, <3>1, <3>2
  <2>3. CASE nr = 0
    BY <1>1, <1>3, <2>3
  <2> QED
    BY <2>1, <2>2, <2>3
<1>5. PICK A : A = Loop!Activations
  OBVIOUS
<1>6. Len(frames) = 0
  BY CallersBelow, EmptySeq DEF InLoop, WInv, RP!IInv, RP!TypeOK
<1>7. SubSeq(A, 1, Len(A) - 1) = <<>>
  <2>1. A = [j \in 1..(0 + 1) |-> IF j = 0 + 1 THEN Current ELSE Suspended(j)] /\ Len(A) = 0 + 1
    BY <1>5, <1>6, ActivationsAre, CurrentIs DEF Active
  <2>2. Prefix(A, 0) = [j \in 1..0 |-> Suspended(j)]
    <3>0. PICK n \in Nat : n = 0
      OBVIOUS
    <3>1. PICK s : s = [j \in 1..n |-> Suspended(j)]
      OBVIOUS
    <3>2. s = [j \in 1..n |-> s[j]] /\ A = [j \in 1..(n + 1) |-> A[j]] /\ \A j \in 1..n : A[j] = s[j]
      BY <2>1, <3>0, <3>1
    <3>3. Prefix(A, n) = s
      BY <3>2, ListPrefix
    <3> QED
      BY <3>0, <3>1, <3>3
  <2>3. [j \in 1..0 |-> Suspended(j)] = <<>>
    OBVIOUS
  <2>4. Len(A) - 1 = 0
    BY <2>1
  <2> QED
    BY <2>2, <2>3, <2>4 DEF Prefix
<1>8. /\ phase' = IF module.has_start /\ fn_idx = module.start_idx THEN "main_init" ELSE "exited"
      /\ UNCHANGED <<prog, globals, ip, fn_idx, locals, op_ptr, frames>>
  BY SameModule DEF Loop!Return, InLoop
<1>9. Loop!Activations' = <<>>
  BY <1>8 DEF Loop!Activations
<1>10. Loop!InStart <=> module.has_start /\ fn_idx = module.start_idx
  BY <1>6, SameModule DEF Loop!InStart, Loop!FnAt, Loop!Depth, InLoop
<1>11. Loop!InStart' <=> module.has_start /\ fn_idx = module.start_idx
  <2>1. Loop!FnAt(1)' = fn_idx
    BY <1>6, <1>8 DEF Loop!FnAt, Loop!Depth
  <2>2. prog'.has_start = module.has_start /\ prog'.start_idx = module.start_idx
    BY <1>8, SameModule DEF InLoop
  <2> QED
    BY <1>8, <2>1, <2>2 DEF Loop!InStart
<1>12. Loop!InStart' = Loop!InStart
  <2>1. Loop!InStart \in BOOLEAN /\ Loop!InStart' \in BOOLEAN
    BY DEF Loop!InStart
  <2> QED
    BY <1>10, <1>11, <2>1
<1>13. SubSeq(Wasm!cur.stack, Len(Wasm!cur.stack) - Wasm!fn.num_results + 1, Len(Wasm!cur.stack)) = results
  BY <1>1, <1>2 DEF Topmost
<1>14. \/ Wasm!At({Wasm!WASM_OP_RETURN})
       \/ Wasm!At({Wasm!WASM_OP_END}) /\ Wasm!cur.pc + 1 = Wasm!fn.code_end
  BY <1>1 DEF Wasm!WASM_OP_RETURN, WASM_OP_RETURN, Wasm!WASM_OP_END, WASM_OP_END
<1> QED
  BY <1>4, <1>5, <1>7, <1>8, <1>9, <1>10, <1>12, <1>13, <1>14 DEF Wasm!ReturnFrom

\* To a caller: it goes on behind its call, with the result.
LEMMA ReturnBack ==
  ASSUME InLoop, LoopsOn, module' = module, Loop!Return, frames # <<>>
  PROVE  Wasm!ReturnFrom
<1>1. PICK nr \in 0..1 :
        /\ nr = module.funcs[fn_idx].num_results /\ nr <= module.height[fn_idx][ip]
        /\ op' = IF nr = 1 THEN Append(Prefix(op, locals), Loop!Operand(0)) ELSE Prefix(op, locals)
        /\ return_result' = IF nr = 1 THEN Loop!Operand(0) ELSE return_result
        /\ \/ Wasm!At({WASM_OP_RETURN})
           \/ Wasm!At({WASM_OP_END}) /\ Wasm!cur.pc + 1 = Wasm!fn.code_end
        /\ Wasm!cur.pc = ip /\ Wasm!fn = module.funcs[fn_idx]
  BY ReturnIs
<1>2. PICK results, g : results = Topmost(Wasm!cur.stack, nr) /\ g = op'
  OBVIOUS
<1>3. /\ nr = 0 => results = <<>>
      /\ nr = 1 => results = <<Loop!Operand(0)>> /\ Loop!Operand(0) \in Value
      /\ g \in Seq(Value) /\ locals <= Len(g) /\ \A k \in 1..locals : g[k] = op[k]
      /\ \A c \in 0..locals : Above(g, c) = Slice(op, c, locals) \o results
  <2>1. g = IF nr = 1 THEN Append(Prefix(op, locals), Loop!Operand(0)) ELSE Prefix(op, locals)
    BY <1>1, <1>2
  <2> QED
    BY <1>1, <1>2, <2>1, ReturnCuts
<1>4. return_result' = IF results # <<>> THEN results[1] ELSE return_result
  <2>1. nr = 0 \/ nr = 1
    OBVIOUS
  <2>2. CASE nr = 1
    <3>1. PICK x : x = Loop!Operand(0)
      OBVIOUS
    <3>2. <<x>> # <<>> /\ <<x>>[1] = x
      OBVIOUS
    <3> QED
      BY <1>1, <1>3, <2>2, <3>1, <3>2
  <2>3. CASE nr = 0
    BY <1>1, <1>3, <2>3
  <2> QED
    BY <2>1, <2>2, <2>3
<1>5. frames \in Seq(RP!Context)
  BY DEF InLoop, WInv, RP!IInv, RP!TypeOK
<1>6. PICK m \in Nat : Len(frames) = m + 1
  <2>1. PICK n \in Nat : n = Len(frames)
    BY CallersBelow
  <2>2. n # 0
    BY <1>5, <2>1, EmptySeq
  <2>3. n - 1 \in Nat /\ n = (n - 1) + 1
    BY <2>2
  <2> QED
    BY <2>1, <2>3, Zenon
<1>7. PICK ctx : ctx = frames[m + 1]
  OBVIOUS
<1>8. /\ frames' = Prefix(frames, m) /\ ip' = ctx.ret_addr /\ fn_idx' = ctx.fn_idx
      /\ locals' = ctx.locals /\ op_ptr' = ctx.op_ptr
      /\ UNCHANGED <<phase, prog, globals>>
  <2>1. Len(frames) - 1 = m
    BY <1>6
  <2> QED
    BY <1>6, <1>7, <2>1 DEF Loop!Return, Prefix
<1>9. Len(frames') = m /\ \A j \in 1..m : frames'[j] = frames[j]
  <2>1. m <= Len(frames) /\ \A j \in 1..m : frames[j] \in RP!Context
    BY <1>5, <1>6, ElementOfSeq
  <2>2. /\ Len(SubSeq(frames, 1, m)) = m
        /\ \A j \in 1..m : SubSeq(frames, 1, m)[j] = frames[j]
    BY <1>5, <2>1, SubSeqProperties
  <2> QED
    BY <1>8, <2>2 DEF Prefix
<1>10. PICK l \in Nat, a \in Nat, b \in Nat :
         l = locals /\ a = ctx.locals /\ b = ctx.op_ptr /\ a <= b /\ b <= l /\ TopOf(m + 1) = l
  <2>1. m + 1 \in 1..Len(frames)
    BY <1>6
  <2>2. TopOf(m + 1) = locals
    BY <1>6 DEF TopOf
  <2> QED
    BY <1>7, <2>1, <2>2, CallersBelow, InLoopIs
<1>11. \A j \in 1..(m + 1) :
         /\ Slice(g, frames[j].locals, frames[j].op_ptr) = Slice(op, frames[j].locals, frames[j].op_ptr)
         /\ Slice(g, frames[j].op_ptr, TopOf(j)) = Slice(op, frames[j].op_ptr, TopOf(j))
  BY <1>3, <1>6, SuspendedSame
<1>12. \A j \in 1..m : Suspended(j)' = Suspended(j)
  <2> TAKE j \in 1..m
  <2>1. j \in 1..(m + 1) /\ j # m + 1
    OBVIOUS
  <2>2. TopOf(j)' = TopOf(j)
    <3>1. TopOf(j) = frames[j + 1].locals
      BY <1>6, <2>1 DEF TopOf
    <3>2. CASE j = m
      BY <1>7, <1>8, <1>9, <3>1, <3>2 DEF TopOf
    <3>3. CASE j # m
      <4>1. j + 1 \in 1..m
        BY <3>3
      <4> QED
        BY <1>9, <3>1, <3>3, <4>1 DEF TopOf
    <3> QED
      BY <3>2, <3>3
  <2> QED
    BY <1>2, <1>9, <1>11, <2>1, <2>2 DEF Suspended
<1> DEFINE back == [fn |-> ctx.fn_idx, pc |-> ctx.ret_addr, locals |-> Slice(op, a, b),
                    stack |-> Slice(op, b, l) \o results]
<1>13. Current' = back
  <2>1. Slice(g, a, b) = Slice(op, a, b)
    BY <1>7, <1>10, <1>11
  <2>2. Above(g, b) = Slice(op, b, l) \o results
    BY <1>3, <1>10
  <2> QED
    BY <1>2, <1>8, <1>10, <2>1, <2>2 DEF Current
<1>14. Suspended(m + 1) = [fn |-> ctx.fn_idx, pc |-> ctx.ret_addr, locals |-> Slice(op, a, b),
                           stack |-> Slice(op, b, l)]
  BY <1>7, <1>10 DEF Suspended
<1>15. PICK A : A = Loop!Activations
  OBVIOUS
<1>16. PICK callers : callers = SubSeq(A, 1, Len(A) - 1)
  OBVIOUS
<1>17. callers = [j \in 1..(m + 1) |-> Suspended(j)] /\ Len(callers) = m + 1 /\ callers # <<>>
  <2>1. /\ A = [j \in 1..((m + 1) + 1) |-> IF j = (m + 1) + 1 THEN Current ELSE Suspended(j)]
        /\ Len(A) = (m + 1) + 1
    BY <1>6, <1>15, ActivationsAre, CurrentIs DEF Active
  <2>2. Prefix(A, m + 1) = [j \in 1..(m + 1) |-> Suspended(j)]
    <3>0. PICK n \in Nat : n = m + 1
      <4>1. m + 1 \in Nat
        OBVIOUS
      <4> QED
        BY <4>1
    <3>1. PICK s : s = [j \in 1..n |-> Suspended(j)]
      OBVIOUS
    <3>2. s = [j \in 1..n |-> s[j]] /\ A = [j \in 1..(n + 1) |-> A[j]] /\ \A j \in 1..n : A[j] = s[j]
      BY <2>1, <3>0, <3>1
    <3>3. Prefix(A, n) = s
      BY <3>2, ListPrefix
    <3> QED
      BY <3>0, <3>1, <3>3
  <2>3. Len(A) - 1 = m + 1
    BY <2>1
  <2>4. callers = [j \in 1..(m + 1) |-> Suspended(j)]
    BY <1>16, <2>2, <2>3 DEF Prefix
  <2>5. Len(callers) = m + 1
    BY <2>4
  <2>6. callers # <<>>
    BY <2>5
  <2> QED
    BY <2>4, <2>5, <2>6
<1>18. [callers[m + 1] EXCEPT !.stack = callers[m + 1].stack \o results] = back
  <2>1. callers[m + 1] = Suspended(m + 1)
    BY <1>17
  <2>2. PICK ls, st, w : ls = Slice(op, a, b) /\ st = Slice(op, b, l) /\ w = st \o results
    OBVIOUS
  <2>3. PICK r : r = [fn |-> ctx.fn_idx, pc |-> ctx.ret_addr, locals |-> ls, stack |-> st]
    OBVIOUS
  <2>4. r.stack = st /\ [r EXCEPT !.stack = w] =
          [fn |-> ctx.fn_idx, pc |-> ctx.ret_addr, locals |-> ls, stack |-> w]
    BY <2>3
  <2> QED
    BY <1>14, <2>1, <2>2, <2>3, <2>4
<1> HIDE DEF back
<1>19. Loop!Activations' = [callers EXCEPT ![Len(callers)].stack = @ \o results]
  <2>1. Loop!Activations' = Active'
    <3>1. phase' = "running"
      BY <1>8 DEF InLoop
    <3> QED
      BY <3>1, ActivationsNext DEF LoopsOn
  <2>2. Active' = [j \in 1..(m + 1) |-> IF j = m + 1 THEN Current' ELSE Suspended(j)']
    BY <1>9 DEF Active
  <2>3. Active' = [j \in 1..(m + 1) |-> IF j = m + 1 THEN back ELSE Suspended(j)]
    <3>1. \A j \in 1..(m + 1) : (IF j = m + 1 THEN Current' ELSE Suspended(j)') =
                                (IF j = m + 1 THEN back ELSE Suspended(j))
      BY <1>12, <1>13
    <3> QED
      BY <2>2, <3>1
  <2>4. PICK e : e = [callers[m + 1] EXCEPT !.stack = callers[m + 1].stack \o results]
    OBVIOUS
  <2>5. [callers EXCEPT ![m + 1] = e] = [j \in 1..(m + 1) |-> IF j = m + 1 THEN e ELSE Suspended(j)]
    BY <1>17
  <2>6. [callers EXCEPT ![Len(callers)].stack = @ \o results] = [callers EXCEPT ![m + 1] = e]
    BY <1>17, <2>4
  <2> QED
    BY <1>18, <2>1, <2>3, <2>4, <2>5, <2>6
<1>20. Loop!InStart' = Loop!InStart
  <2>1. Loop!FnAt(1)' = Loop!FnAt(1)
    <3>1. CASE m = 0
      BY <1>6, <1>7, <1>8, <1>9, <3>1 DEF Loop!FnAt, Loop!Depth
    <3>2. CASE m # 0
      <4>1. 1 \in 1..m
        BY <3>2
      <4> QED
        BY <1>6, <1>9, <3>2, <4>1 DEF Loop!FnAt, Loop!Depth
    <3> QED
      BY <3>1, <3>2
  <2> QED
    BY <1>8, <2>1 DEF Loop!InStart
<1>21. SubSeq(Wasm!cur.stack, Len(Wasm!cur.stack) - Wasm!fn.num_results + 1, Len(Wasm!cur.stack)) = results
  BY <1>1, <1>2 DEF Topmost
<1>22. \/ Wasm!At({Wasm!WASM_OP_RETURN})
       \/ Wasm!At({Wasm!WASM_OP_END}) /\ Wasm!cur.pc + 1 = Wasm!fn.code_end
  BY <1>1 DEF Wasm!WASM_OP_RETURN, WASM_OP_RETURN, Wasm!WASM_OP_END, WASM_OP_END
<1> QED
  BY <1>4, <1>8, <1>15, <1>16, <1>17, <1>19, <1>20, <1>21, <1>22 DEF Wasm!ReturnFrom

LEMMA ReturnStep ==
  ASSUME InLoop, LoopsOn, module' = module, Loop!Return
  PROVE  Wasm!ReturnFrom
BY ReturnOut, ReturnBack

-----------------------------------------------------------------------------
(***************************************************************************)
(* Entering and leaving the loop.                                          *)
(***************************************************************************)
LEMMA WholeSlice ==
  ASSUME NEW s \in Seq(Value)
  PROVE  Slice(s, 0, Len(s)) = s /\ Above(s, Len(s)) = <<>>
<1>1. PICK n \in Nat : n = Len(s)
  BY LenProperties
<1>2. 0 <= n /\ n <= n /\ n - 0 = n /\ n - n = 0
  OBVIOUS
<1>3. PICK z \in Nat : z = 0
  OBVIOUS
<1>4. Slice(s, z, n) = s
  <2>1. z <= n /\ n <= Len(s)
    BY <1>1, <1>3
  <2>2. /\ Slice(s, z, n) \in Seq(Value) /\ Len(Slice(s, z, n)) = n - z
        /\ \A idx \in 1..(n - z) : Slice(s, z, n)[idx] = s[z + idx]
    BY <2>1, SliceIs
  <2>3. n - z = n /\ \A idx \in 1..n : z + idx = idx
    BY <1>3
  <2> QED
    BY <1>1, <2>2, <2>3, SeqEqual
<1>5. Above(s, n) = <<>>
  <2>1. Above(s, n) \in Seq(Value) /\ Len(Above(s, n)) = n - n
    BY <1>1, <1>2, AboveIs
  <2> QED
    BY <1>2, <2>1, EmptySeq
<1> QED
  BY <1>1, <1>3, <1>4, <1>5

\* A function entered at the bottom is the only one that is active.
LEMMA EntryStep ==
  ASSUME WInv, returned, LoopsOn, module' = module,
         NEW f \in DOMAIN module.funcs, Loop!EnterBottom(f)
  PROVE  Loop!Activations' = <<Wasm!Activation(f, module.args)>>
<1>1. Valid(prog, Value) /\ prog.funcs = module.funcs /\ prog.args = module.args
  BY ModulesAssumption, SameModule DEF WInv
<1>2. PICK nl \in Nat : nl = module.funcs[f].num_locals
  BY <1>1 DEF Valid
<1>3. PICK z, g : z = [idx \in 1..nl |-> 0] /\ g = module.args \o z
  OBVIOUS
<1>4. g \in Seq(Value)
  <2>1. z \in Seq(Value) /\ module.args \in Seq(Value)
    BY <1>1, <1>3, ZerosAre DEF Valid
  <2> QED
    BY <1>3, <2>1, Joined
<1>5. /\ phase' = "running" /\ fn_idx' = f /\ ip' = module.funcs[f].code_start
      /\ op' = g /\ locals' = 0 /\ op_ptr' = Len(g) /\ frames' = <<>>
  BY <1>1, <1>2, <1>3, ZerosAre DEF Loop!EnterBottom
<1>6. Loop!Activations' = Active'
  BY <1>5, ActivationsNext DEF LoopsOn
<1>7. PICK c : c = [fn |-> f, pc |-> module.funcs[f].code_start, locals |-> g, stack |-> <<>>]
  OBVIOUS
<1>8. Current' = c
  <2>1. Slice(g, 0, Len(g)) = g /\ Above(g, Len(g)) = <<>>
    BY <1>4, WholeSlice
  <2> QED
    BY <1>5, <1>7, <2>1 DEF Current
<1>9. Active' = <<c>>
  <2>1. Len(frames') = 0
    BY <1>5
  <2>2. Active' = [j \in 1..(0 + 1) |-> IF j = 0 + 1 THEN Current' ELSE Suspended(j)']
    BY <2>1 DEF Active
  <2>3. \A j \in 1..(0 + 1) : (IF j = 0 + 1 THEN Current' ELSE Suspended(j)') = c
    BY <1>8
  <2>4. Active' = [j \in 1..1 |-> c]
    BY <2>2, <2>3
  <2>5. [j \in 1..1 |-> c] = <<c>>
    OBVIOUS
  <2> QED
    BY <2>4, <2>5
<1>10. Wasm!Activation(f, module.args) = c
  BY <1>2, <1>3, <1>7 DEF Wasm!Activation
<1> QED
  BY <1>6, <1>9, <1>10

LEMMA StartStep ==
  ASSUME WInv, returned, Structured(module), LoopsOn, module' = module, Loop!StartInit
  PROVE  Wasm!InvokeStart
<1>1. /\ Valid(prog, Value) /\ prog.start_idx = module.start_idx
      /\ prog.has_start = module.has_start /\ prog.funcs = module.funcs /\ RP!IInv
  BY ModulesAssumption, SameModule DEF WInv
<1>2. phase = "start_init" /\ Loop!EnterBottom(module.start_idx)
  BY <1>1 DEF Loop!StartInit
<1>3. module.has_start
  BY <1>1, <1>2 DEF RP!IInv
<1>4. module.args = <<>> /\ module.start_idx \in DOMAIN module.funcs
  BY <1>1, <1>3 DEF Structured, Valid
<1>5. Loop!Activations' = <<Wasm!Activation(module.start_idx, <<>>)>>
  BY <1>2, <1>4, EntryStep
<1>6. /\ phase' = "running" /\ fn_idx' = module.start_idx /\ frames' = <<>>
      /\ UNCHANGED <<prog, globals, return_result>>
  BY <1>2 DEF Loop!EnterBottom
<1>7. Loop!InStart' = TRUE
  <2>1. Loop!FnAt(1)' = module.start_idx
    <3>1. Len(frames') = 0
      BY <1>6
    <3> QED
      BY <1>6, <3>1 DEF Loop!FnAt, Loop!Depth
  <2> QED
    BY <1>1, <1>3, <1>6, <2>1 DEF Loop!InStart
<1> QED
  BY <1>2, <1>5, <1>6, <1>7 DEF Wasm!InvokeStart

LEMMA MainStep ==
  ASSUME WInv, returned, Structured(module), LoopsOn, module' = module, Loop!MainInit
  PROVE  Wasm!InvokeMain
<1>1. /\ Valid(prog, Value) /\ prog.start_idx = module.start_idx
      /\ prog.main_idx = module.main_idx /\ prog.args = module.args
      /\ prog.arg_types_match = module.arg_types_match
      /\ prog.has_start = module.has_start /\ prog.funcs = module.funcs
  BY ModulesAssumption, SameModule DEF WInv
<1>2. /\ phase = "main_init" /\ Loop!EnterBottom(module.main_idx)
      /\ Len(module.args) = module.funcs[module.main_idx].num_params /\ module.arg_types_match
  BY <1>1 DEF Loop!MainInit
<1>3. module.main_idx \in DOMAIN module.funcs
  BY <1>1 DEF Valid
<1>4. Loop!Activations' = <<Wasm!Activation(module.main_idx, module.args)>>
  BY <1>2, <1>3, EntryStep
<1>5. /\ phase' = "running" /\ fn_idx' = module.main_idx /\ frames' = <<>>
      /\ UNCHANGED <<prog, globals, return_result>>
  BY <1>2 DEF Loop!EnterBottom
<1>6. Loop!InStart' = FALSE
  <2>1. Loop!FnAt(1)' = module.main_idx
    <3>1. Len(frames') = 0
      BY <1>5
    <3> QED
      BY <1>5, <3>1 DEF Loop!FnAt, Loop!Depth
  <2> QED
    BY <1>1, <1>5, <2>1 DEF Loop!InStart, Structured
<1> QED
  BY <1>2, <1>4, <1>5, <1>6 DEF Wasm!InvokeMain

LEMMA RejectStep ==
  ASSUME WInv, returned, module' = module, Loop!MainReject
  PROVE  Wasm!RejectMain
<1>1. /\ prog.main_idx = module.main_idx /\ prog.args = module.args /\ prog.funcs = module.funcs
      /\ prog.arg_types_match = module.arg_types_match
  BY SameModule
<1>2. /\ phase = "main_init" /\ phase' = "rejected" /\ UNCHANGED <<prog, globals, return_result>>
      /\ \/ Len(module.args) # module.funcs[module.main_idx].num_params
         \/ ~module.arg_types_match
  BY <1>1 DEF Loop!MainReject
<1>3. Loop!InStart' = Loop!InStart
  BY <1>2 DEF Loop!InStart
<1>4. Loop!Activations' = <<>>
  BY <1>2 DEF Loop!Activations
<1> QED
  BY <1>2, <1>3, <1>4 DEF Wasm!RejectMain, Wasm!Stop

LEMMA OverrunStep ==
  ASSUME InLoop, module' = module, Loop!Overrun
  PROVE  Wasm!Exhaust
<1>1. Wasm!Stop(IF "overrun" = "overrun" THEN "exhausted" ELSE "trapped")
  BY StopStep DEF Loop!Overrun
<1> QED
  BY <1>1 DEF Wasm!Exhaust, InLoop

LEMMA LoopStep ==
  ASSUME WInv, returned, Structured(module), LoopsOn, module' = module, Loop!Step
  PROVE  Wasm!Next
<1>1. CASE Loop!StartInit \/ Loop!MainInit \/ Loop!MainReject
  BY <1>1, StartStep, MainStep, RejectStep DEF Wasm!Next, Wasm!Progress
<1>2. ASSUME ~(Loop!StartInit \/ Loop!MainInit \/ Loop!MainReject)
      PROVE  phase = "running"
  BY <1>2 DEF Loop!Step, Loop!Unreachable, Loop!Nop, Loop!EnterBlock, Loop!EndBlock, Loop!Br,
     Loop!BrIf, Loop!BrTable, Loop!Return, Loop!Call, Loop!CallIndirect, Loop!Drop, Loop!Select,
     Loop!LocalGet, Loop!LocalSet, Loop!LocalTee, Loop!GlobalGet, Loop!GlobalSet, Loop!Const,
     Loop!Load, Loop!Store, Loop!UnaryOp, Loop!BinaryOp, Loop!Overrun, Loop!Fetch
<1>3. ASSUME InLoop, Loop!Nop \/ Loop!EnterBlock \/ Loop!EndBlock \/ Loop!Drop \/ Loop!Select \/ Loop!Const
                     \/ Loop!Load \/ Loop!Store \/ Loop!UnaryOp \/ Loop!BinaryOp \/ Loop!Unreachable
      PROVE  Wasm!SimpleOp
  BY <1>3, NopStep, DropStep, SelectStep, ConstStep, LoadStep, StoreStep, UnaryStep, BinaryStep,
     UnreachableStep
<1>4. ASSUME InLoop, Loop!LocalGet \/ Loop!LocalSet \/ Loop!LocalTee \/ Loop!GlobalGet \/ Loop!GlobalSet
      PROVE  Wasm!VariableOp
  BY <1>4, LocalGetStep, LocalSetStep, GlobalStep
<1>5. ASSUME InLoop, Loop!Br \/ Loop!BrIf \/ Loop!BrTable
      PROVE  Wasm!BranchOp
  BY <1>5, BrStep, BrIfStep, BrTableStep
<1>6. ASSUME InLoop, Loop!Call \/ Loop!CallIndirect \/ Loop!Return \/ Loop!Overrun
      PROVE  Wasm!Call \/ Wasm!CallIndirect \/ Wasm!ReturnFrom \/ Wasm!Exhaust
  BY <1>6, CallStep, CallIndirectStep, ReturnStep, OverrunStep
<1>7. CASE ~(Loop!StartInit \/ Loop!MainInit \/ Loop!MainReject)
  <2>1. InLoop
    BY <1>2, <1>7 DEF InLoop
  <2>2. \/ Wasm!SimpleOp \/ Wasm!VariableOp \/ Wasm!BranchOp \/ Wasm!Call \/ Wasm!CallIndirect
        \/ Wasm!ReturnFrom \/ Wasm!Exhaust
    BY <1>3, <1>4, <1>5, <1>6, <1>7, <2>1 DEF Loop!Step
  <2> QED
    BY <2>2 DEF Wasm!Next, Wasm!Progress
<1> QED
  BY <1>1, <1>7

\* Before parse returns the abstract machine has not begun.
LEMMA WaitStep ==
  ASSUME WInv, ~returned, module' = module,
         UNCHANGED <<phase, ip, fn_idx, op, locals, op_ptr, frames, globals, return_result>>,
         prog'.has_start = prog.has_start
  PROVE  UNCHANGED Wasm!vars
<1>1. phase = IF prog.has_start THEN "start_init" ELSE "main_init"
  BY DEF WInv, Loop!Start
<1>2. Loop!InStart = FALSE /\ Loop!InStart' = FALSE
  BY <1>1 DEF Loop!InStart
<1>3. Loop!Activations = <<>> /\ Loop!Activations' = <<>>
  BY <1>1 DEF Loop!Activations
<1> QED
  BY <1>2, <1>3 DEF Wasm!vars

(***************************************************************************)
(* Every step of loader and interpreter, in a module whose branches leave  *)
(* no operand behind, is one of the machine of the WebAssembly semantics   *)
(* on the module as the file has it, or leaves that machine as it is: the  *)
(* frames in the operand array are its activations, the patched offsets    *)
(* its labels.  The only thing the interpreter may do that a program does  *)
(* not is to run out of its arrays.                                        *)
(***************************************************************************)
THEOREM WholeRunsImplement ==
  Spec /\ Structured(module) => Wasm!Init /\ [][Wasm!Next]_(Wasm!vars)
<1>1. Init => Wasm!Init
  <2> SUFFICES ASSUME Init PROVE Wasm!Init
    OBVIOUS
  <2>1. /\ prog = module /\ phase = IF module.has_start THEN "start_init" ELSE "main_init"
        /\ globals = module.globals /\ return_result = Sentinel
    BY DEF Init, Loop!Start
  <2>2. Loop!InStart = FALSE
    BY <2>1 DEF Loop!InStart
  <2>3. Loop!Activations = <<>>
    BY <2>1 DEF Loop!Activations
  <2> QED
    BY <2>1, <2>2, <2>3 DEF Wasm!Init
<1>2. Structured(module) /\ [Next]_vars => Structured(module)'
  <2> SUFFICES ASSUME Structured(module), [Next]_vars PROVE Structured(module)'
    OBVIOUS
  <2>1. module' = module
    BY DEF Next, Step, Parse, Instantiate, Interpret, Halted, vars
  <2> QED
    BY <2>1 DEF Structured
<1>3. WInv /\ WInv' /\ Structured(module) /\ [Next]_vars => [Wasm!Next]_(Wasm!vars)
  <2> SUFFICES ASSUME WInv, WInv', Structured(module), [Next]_vars
               PROVE  Wasm!Next \/ UNCHANGED Wasm!vars
    OBVIOUS
  <2>1. module \in Modules /\ Structured(module)
    BY DEF WInv
  <2>2. CASE Parse
    <3>1. ~returned /\ UNCHANGED <<module, prog, phase, ip, fn_idx, op, locals, op_ptr, frames,
                                   globals, return_result>>
      BY <2>2 DEF Parse, loopVars
    <3> QED
      BY <3>1, WaitStep
  <2>3. CASE Instantiate
    <3>1. /\ ~returned /\ returned'
          /\ UNCHANGED <<module, phase, ip, fn_idx, op, locals, op_ptr, frames, globals,
                         return_result>>
      BY <2>3 DEF Instantiate
    <3>2. prog'.has_start = module.has_start /\ prog = module
      <4>1. prog' = Linked(module)
        BY <3>1 DEF WInv
      <4> QED
        BY <2>1, <3>1, <4>1, LinkedIs DEF WInv, Fields
    <3> QED
      BY <3>1, <3>2, WaitStep
  <2>4. CASE Interpret
    <3>1. returned /\ Loop!Step /\ returned' = returned /\ module' = module
      BY <2>4 DEF Interpret
    <3>2. LoopsOn
      <4>1. Structured(module)'
        BY <2>1, <3>1 DEF Structured
      <4> QED
        BY <3>1, <4>1 DEF LoopsOn, InLoop
    <3> QED
      BY <2>1, <3>1, <3>2, LoopStep
  <2>5. CASE Halted \/ UNCHANGED vars
    <3>1. UNCHANGED <<module, prog, phase, ip, fn_idx, op, locals, op_ptr, frames, globals,
                      return_result>>
      BY <2>5 DEF Halted, vars, loopVars
    <3>2. Loop!Activations' = Loop!Activations
      BY <3>1 DEF Loop!Activations, Loop!ActivationAt, Loop!FnAt, Loop!IpAt, Loop!LocalsAt,
                  Loop!OpPtrAt, Loop!TopAt, Loop!Depth
    <3>3. Loop!InStart' = Loop!InStart
      BY <3>1 DEF Loop!InStart, Loop!FnAt, Loop!Depth
    <3> QED
      BY <3>1, <3>2, <3>3 DEF Wasm!vars
  <2> QED
    BY <2>2, <2>3, <2>4, <2>5 DEF Next, Step
<1> QED
  BY <1>1, <1>2, <1>3, Whole, PTL DEF Spec
=============================================================================
