------------------------------ MODULE WeeValid ------------------------------
(***************************************************************************)
(* The modules weerun may be given.  It validates nothing: it relies on    *)
(* the modules having passed a WebAssembly validator (wat2wasm, see        *)
(* tests/build.sh) before weeify rewrote them, and on its own loader       *)
(* having replaced the labels by offsets.  Valid(p, Value) states what     *)
(* that gives, instruction by instruction, with the validator's operand    *)
(* heights as a certificate: p.height[f][a] is the number of operands      *)
(* function f has at address a.                                            *)
(*                                                                         *)
(* The condition is weaker than validation: control may arrive with more   *)
(* operands than the height of the address, as it does after a branch that *)
(* does not unwind the stack.                                              *)
(***************************************************************************)
EXTENDS WeeCode

NullFunc == -1   \* a table entry no element segment has set

\* The parameters and declared locals of a function.
Slots(p, f) == p.funcs[f].num_params + p.funcs[f].num_locals

\* In function f, control may go to address a with k operands.  In an exact
\* module, whose branches are all taken at the height of their label, these are
\* no more than the validator counted.
MayGo(p, f, a, k) ==
  /\ a \in DOMAIN p.height[f]
  /\ p.height[f][a] <= k
  /\ p.exact => p.height[f][a] = k

\* A call of something of type t (a function or a signature) with k operands,
\* to go on at address a.
MayCall(p, f, t, a, k) ==
  /\ t.num_params <= k
  /\ MayGo(p, f, a, k - t.num_params + t.num_results)

\* Offsets are relative to the slot behind the label.
OffsetTarget(p, slot) == slot + 1 + p.code[slot]

\* pops operands are there, and what follows may have pushes more of them.
Effect(p, f, a, pops, pushes) ==
  /\ pops <= p.height[f][a]
  /\ MayGo(p, f, NextInstr(p.code, a), p.height[f][a] - pops + pushes)

\* The operand and locals conditions of the instruction at address a of f.
InstrValid(p, Value, f, a) ==
  LET o   == p.code[a]
      imm == p.code[a + 1]
      k   == p.height[f][a]
  IN
  /\ o \in {WASM_OP_NOP} \cup BlockOps => Effect(p, f, a, 0, 0)
  /\ o = WASM_OP_END =>
       IF a + 1 = p.funcs[f].code_end THEN p.funcs[f].num_results <= k
                                      ELSE Effect(p, f, a, 0, 0)
  /\ o = WASM_OP_RETURN => p.funcs[f].num_results <= k
  /\ o = WASM_OP_BR => MayGo(p, f, OffsetTarget(p, a + 1), k)
  /\ o = WASM_OP_BR_IF => /\ Effect(p, f, a, 1, 0)
                          /\ MayGo(p, f, OffsetTarget(p, a + 1), k - 1)
  /\ o = WASM_OP_BR_TABLE =>
       /\ k >= 1
       /\ imm \in Nat
       /\ \A i \in 0..imm : MayGo(p, f, OffsetTarget(p, a + 2 + i), k - 1)
  /\ o = WASM_OP_CALL => /\ imm \in DOMAIN p.funcs
                         /\ MayCall(p, f, p.funcs[imm], a + 2, k)
  /\ o = WASM_OP_CALL_INDIRECT =>
       /\ k >= 1
       /\ imm \in DOMAIN p.sigs
       /\ MayCall(p, f, p.sigs[imm], a + 3, k - 1)
  /\ o = WASM_OP_DROP => Effect(p, f, a, 1, 0)
  /\ o = WASM_OP_SELECT => Effect(p, f, a, 3, 1)
  /\ o \in LocalOps => imm \in 0..(Slots(p, f) - 1)
  /\ o = WASM_OP_LOCAL_GET => Effect(p, f, a, 0, 1)
  /\ o = WASM_OP_LOCAL_SET => Effect(p, f, a, 1, 0)
  /\ o = WASM_OP_LOCAL_TEE => Effect(p, f, a, 1, 1)
  /\ o \in GlobalOps => imm \in DOMAIN p.globals
  /\ o = WASM_OP_GLOBAL_GET => Effect(p, f, a, 0, 1)
  /\ o = WASM_OP_GLOBAL_SET => Effect(p, f, a, 1, 0)
  /\ o \in ConstOps => imm \in Value /\ Effect(p, f, a, 0, 1)
  /\ o \in LoadOps => Effect(p, f, a, 1, 1)
  /\ o \in StoreOps => Effect(p, f, a, 2, 0)
  /\ o \in UnaryOps => Effect(p, f, a, 1, 1)
  /\ o \in BinaryOps => Effect(p, f, a, 2, 1)

\* A function with a body: imports have none and come first.
FuncValid(p, Value, f) ==
  /\ p.funcs[f].code_start \in DOMAIN p.height[f]
  /\ p.height[f][p.funcs[f].code_start] = 0
  /\ \A a \in DOMAIN p.height[f] :
       /\ a \in DOMAIN p.code
       /\ p.height[f][a] \in Nat
       /\ p.code[a] \in Opcodes
       /\ InstrValid(p, Value, f, a)

Valid(p, Value) ==
  /\ p.code \in Seq(Int)
  /\ p.num_imports \in Nat
  /\ p.num_funcs \in Nat
  /\ DOMAIN p.funcs = 0..(p.num_funcs - 1)
  /\ \A f \in DOMAIN p.funcs :
       /\ p.funcs[f].num_params \in Nat
       /\ p.funcs[f].num_results \in 0..1
       /\ p.funcs[f].num_locals \in Nat
       /\ p.funcs[f].sig_index \in DOMAIN p.sigs
       /\ p.sigs[p.funcs[f].sig_index] =
            [num_params  |-> p.funcs[f].num_params,
             num_results |-> p.funcs[f].num_results]
       /\ f >= p.num_imports => FuncValid(p, Value, f)
  /\ \A i \in DOMAIN p.table : p.table[i] \in DOMAIN p.funcs \cup {-1}
  /\ \A i \in DOMAIN p.globals : p.globals[i] \in Value
  /\ p.args \in Seq(Value)
  /\ p.arg_types_match \in BOOLEAN
  /\ p.has_start \in BOOLEAN
  /\ p.main_idx \in DOMAIN p.funcs /\ p.main_idx >= p.num_imports
  /\ p.has_start => /\ p.start_idx \in DOMAIN p.funcs
                    /\ p.start_idx >= p.num_imports
                    /\ p.funcs[p.start_idx].num_params = 0
                    /\ p.funcs[p.start_idx].num_results = 0
=============================================================================
