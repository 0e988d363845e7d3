----------------------------- MODULE WeePrograms -----------------------------
(***************************************************************************)
(* The programs that are model-checked: an environment of functions to     *)
(* call, the alphabets mains are built from, and a few whole functions.    *)
(***************************************************************************)
EXTENDS WeeGen, WeeValid

\* The arithmetic of i32 at a width of modulus values; 0 as a divisor traps.
EqzOf(a) == IF a = 0 THEN 1 ELSE 0

WrapOf(modulus, trap, o, a, b) ==
  CASE o = WASM_OP_I32_SUB -> (a - b) % modulus
    [] o = WASM_OP_I32_DIV_U -> IF b = 0 THEN trap ELSE a \div b
    [] OTHER -> (a + b) % modulus

Fun(sig, locs) ==
  [sig_index |-> sig[1], num_params |-> sig[2], num_results |-> sig[3],
   num_locals |-> locs, code_start |-> 0, code_end |-> 0]

\* The signatures (i32) -> i32, () -> (), (i32, i32) -> i32, () -> i32 and
\* (i32) -> (): type index, parameters, results.
S1  == <<0, 1, 1>>
S0  == <<1, 0, 0>>
S2  == <<2, 2, 1>>
S01 == <<3, 0, 1>>
S10 == <<4, 1, 0>>

Sigs == [i \in 0..4 |-> LET s == <<S1, S0, S2, S01, S10>>[i + 1]
                        IN [num_params |-> s[2], num_results |-> s[3]]]

\* A module with an import of type S1 as function 0, then the functions fs,
\* of which the first is main.
Env(fs, args, has_start) ==
  LET n == Len(fs)
  IN [code |-> <<>>, labels |-> <<>>, height |-> <<>>, exact |-> TRUE,
      funcs |-> [f \in 0..n |-> IF f = 0 THEN Fun(S1, 0) ELSE fs[f]],
      num_funcs |-> n + 1, num_imports |-> 1, sigs |-> Sigs,
      table |-> [i \in 0..1 |-> IF i = 0 THEN n ELSE NullFunc],
      globals |-> [i \in {0} |-> 0],
      args |-> args, arg_types_match |-> TRUE,
      has_start |-> has_start, main_idx |-> 1, start_idx |-> n]

-----------------------------------------------------------------------------
\* Control instructions, with calls of functions 1 and 2.
ControlAlphabet ==
  {<<WASM_OP_BLOCK, VoidType>>, <<WASM_OP_LOOP, VoidType>>, <<WASM_OP_END>>,
   <<WASM_OP_BR, 0>>, <<WASM_OP_BR, 1>>, <<WASM_OP_BR_IF, 0>>,
   <<WASM_OP_BR_IF, 1>>, <<WASM_OP_BR_TABLE, 1, 0, 1>>,
   <<WASM_OP_RETURN>>, <<WASM_OP_DROP>>, <<WASM_OP_LOCAL_GET, 0>>,
   <<WASM_OP_LOCAL_SET, 0>>, <<WASM_OP_I32_CONST, 2>>,
   <<WASM_OP_CALL, 1>>, <<WASM_OP_CALL, 2>>}

\* helper(a, b) = a if b else 0.
Helper == << <<WASM_OP_BLOCK, VoidType>>, <<WASM_OP_LOCAL_GET, 1>>,
             <<WASM_OP_BR_IF, 0>>, <<WASM_OP_LOCAL_GET, 2>>,
             <<WASM_OP_RETURN>>, <<WASM_OP_END>>,
             <<WASM_OP_LOCAL_GET, 0>>, <<WASM_OP_END>> >>

\* As Helper, but it leaves its block with an operand too many.
Leaving == << <<WASM_OP_BLOCK, VoidType>>, <<WASM_OP_LOCAL_GET, 0>>,
              <<WASM_OP_LOCAL_GET, 1>>, <<WASM_OP_BR_IF, 0>>,
              <<WASM_OP_DROP>>, <<WASM_OP_LOCAL_GET, 2>>,
              <<WASM_OP_RETURN>>, <<WASM_OP_END>>,
              <<WASM_OP_LOCAL_GET, 0>>, <<WASM_OP_END>> >>

\* Branches on 0 and on the argument, which is 1: the first index beyond the
\* br_table's entries.
BranchAlphabet ==
  {<<WASM_OP_BLOCK, VoidType>>, <<WASM_OP_LOOP, VoidType>>, <<WASM_OP_END>>,
   <<WASM_OP_BR_IF, 0>>, <<WASM_OP_BR_IF, 1>>, <<WASM_OP_BR_TABLE, 1, 0, 1>>,
   <<WASM_OP_LOCAL_GET, 0>>, <<WASM_OP_I32_CONST, 0>>}

\* The instructions that compute, access locals, globals and memory, call the
\* import (function 0) and call through the table, which holds the last function.
DataAlphabet ==
  {<<WASM_OP_UNREACHABLE>>, <<WASM_OP_NOP>>, <<WASM_OP_END>>,
   <<WASM_OP_SELECT>>, <<WASM_OP_LOCAL_GET, 0>>, <<WASM_OP_LOCAL_TEE, 1>>,
   <<WASM_OP_GLOBAL_GET, 0>>, <<WASM_OP_GLOBAL_SET, 0>>,
   <<WASM_OP_I32_CONST, 0>>, <<WASM_OP_I32_EQZ>>, <<WASM_OP_I32_DIV_U>>,
   <<WASM_OP_I32_SUB>>, <<44, 0, 0>>, <<58, 0, 0>>, <<WASM_OP_CALL, 0>>,
   <<WASM_OP_CALL_INDIRECT, 0, 0>>, <<WASM_OP_CALL_INDIRECT, 2, 0>>}

Negate == << <<WASM_OP_LOCAL_GET, 1>>, <<WASM_OP_LOCAL_GET, 0>>,
             <<WASM_OP_I32_SUB>>, <<WASM_OP_END>> >>

\* The start function and the main of proj2-tests/start0.wat: the first stores
\* what its first local holds plus 2.
Starter == << <<WASM_OP_LOCAL_GET, 0>>, <<WASM_OP_I32_CONST, 2>>,
              <<WASM_OP_I32_ADD>>, <<WASM_OP_GLOBAL_SET, 0>>, <<WASM_OP_END>> >>

Getter == << <<WASM_OP_GLOBAL_GET, 0>>, <<WASM_OP_END>> >>
=============================================================================
