------------------------------ MODULE WeeCode ------------------------------
(***************************************************************************)
(* The Wee-O-Wasm byte code as both the loader (weedis.c) and the          *)
(* interpreter (weerun.c) read it: the opcodes of weewasm.h and the        *)
(* immediates that follow each of them.                                    *)
(*                                                                         *)
(* A module's code is a sequence of integers, one slot per opcode, per     *)
(* LEB128 immediate and per branch label.  A slot stands for all the bytes *)
(* of its field: weeify pads every label to the four bytes that the loader *)
(* overwrites with an offset, so a label keeps its slot when it is         *)
(* patched.  Addresses are indexes into that sequence.                     *)
(***************************************************************************)
EXTENDS Integers, Sequences

WASM_OP_UNREACHABLE   == 0
WASM_OP_NOP           == 1
WASM_OP_BLOCK         == 2
WASM_OP_LOOP          == 3
WASM_OP_END           == 11
WASM_OP_BR            == 12
WASM_OP_BR_IF         == 13
WASM_OP_BR_TABLE      == 14
WASM_OP_RETURN        == 15
WASM_OP_CALL          == 16
WASM_OP_CALL_INDIRECT == 17
WASM_OP_DROP          == 26
WASM_OP_SELECT        == 27
WASM_OP_LOCAL_GET     == 32
WASM_OP_LOCAL_SET     == 33
WASM_OP_LOCAL_TEE     == 34
WASM_OP_GLOBAL_GET    == 35
WASM_OP_GLOBAL_SET    == 36
WASM_OP_I32_CONST     == 65
WASM_OP_F64_CONST     == 68
WASM_OP_I32_EQZ       == 69
WASM_OP_I32_ADD       == 106
WASM_OP_I32_SUB       == 107
WASM_OP_I32_DIV_U     == 110

\* The operators that pop one operand and push one result: i32.eqz, i32.clz,
\* i32.ctz, i32.popcnt, the conversions and the sign extensions.
UnaryOps == {WASM_OP_I32_EQZ} \cup 103..105 \cup 170..171 \cup 183..184
              \cup 192..193

\* The operators that pop two operands and push one result: the comparisons
\* of i32 and f64 and their arithmetic.
BinaryOps == 70..79 \cup 97..102 \cup 106..120 \cup 160..163

LoadOps  == {40} \cup 43..47
StoreOps == {54} \cup 57..59
ConstOps == {WASM_OP_I32_CONST, WASM_OP_F64_CONST}

BlockOps  == {WASM_OP_BLOCK, WASM_OP_LOOP}
LocalOps  == {WASM_OP_LOCAL_GET, WASM_OP_LOCAL_SET, WASM_OP_LOCAL_TEE}
GlobalOps == {WASM_OP_GLOBAL_GET, WASM_OP_GLOBAL_SET}

\* The opcodes that have a behaviour.  The handlers of if, else, table.get,
\* table.set and the conversions from i64, a type no operand has, are empty.
Opcodes ==
  {WASM_OP_UNREACHABLE, WASM_OP_NOP, WASM_OP_END, WASM_OP_BR, WASM_OP_BR_IF,
   WASM_OP_BR_TABLE, WASM_OP_RETURN, WASM_OP_CALL, WASM_OP_CALL_INDIRECT,
   WASM_OP_DROP, WASM_OP_SELECT}
    \cup BlockOps \cup LocalOps \cup GlobalOps \cup ConstOps
    \cup LoadOps \cup StoreOps \cup UnaryOps \cup BinaryOps

\* The number of immediate slots of the instruction at address p: what
\* decode_expr reads after each opcode.
Immediates(code, p) ==
  CASE code[p] \in BlockOps \cup LocalOps \cup GlobalOps \cup ConstOps
                     \cup {WASM_OP_BR, WASM_OP_BR_IF, WASM_OP_CALL} -> 1
    [] code[p] \in LoadOps \cup StoreOps \cup {WASM_OP_CALL_INDIRECT} -> 2
    [] code[p] = WASM_OP_BR_TABLE -> code[p + 1] + 2
    [] OTHER -> 0

\* The address of the instruction that follows the one at p.
NextInstr(code, p) == p + 1 + Immediates(code, p)

\* The slots of the labels of the instruction at p.  br_table has its entries
\* and the default label behind their count.
LabelSlots(code, p) ==
  CASE code[p] \in {WASM_OP_BR, WASM_OP_BR_IF} -> {p + 1}
    [] code[p] = WASM_OP_BR_TABLE -> (p + 2)..(p + 2 + code[p + 1])
    [] OTHER -> {}
=============================================================================
