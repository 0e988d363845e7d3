------------------------------ MODULE MCWeedis ------------------------------
(***************************************************************************)
(* The loader on every code section of two bodies of bounded length.       *)
(***************************************************************************)
EXTENDS Weedis, FiniteSetsExt

CONSTANT MaxBody   \* the instructions of a body

\* The instructions allowed in a body where depth blocks, the function among
\* them, are open; labels that no block answers to do not occur.
Instrs(depth) ==
  {<<WASM_OP_NOP>>, <<WASM_OP_BLOCK, 64>>, <<WASM_OP_LOOP, 64>>,
   <<WASM_OP_I32_CONST, 11>>}
    \cup {<<o, k>> : o \in {WASM_OP_BR, WASM_OP_BR_IF}, k \in 0..(depth - 1)}
    \cup {<<WASM_OP_BR_TABLE, 1, k, depth - 1>> : k \in 0..(depth - 1)}

\* Every way to close depth open blocks with at most n instructions.
RECURSIVE Rests(_, _)
Rests(n, depth) ==
  IF depth = 0 THEN {<<>>}
  ELSE IF n < depth THEN {}
  ELSE {<<WASM_OP_END>> \o r : r \in Rests(n - 1, depth - 1)}
         \cup UNION {{j \o r :
                r \in Rests(n - 1, IF j[1] \in BlockOps THEN depth + 1 ELSE depth)} :
              j \in Instrs(depth)}

MCBodies == Rests(MaxBody, 1)

\* A body with its header: size and local declarations.
WithHeader(body, decls) ==
  <<Len(body) + 1 + Len(decls), Len(decls) \div 2>> \o decls \o body

\* A first body that fills static_blocks: a loop in a block, and a loop.
Filler == <<WASM_OP_BLOCK, 64, WASM_OP_LOOP, 64, WASM_OP_BR, 1, WASM_OP_END,
            WASM_OP_END, WASM_OP_LOOP, 64, WASM_OP_BR_IF, 0, WASM_OP_END,
            WASM_OP_END>>

MCImages ==
  {<<1>> \o WithHeader(b, <<>>) : b \in MCBodies}
    \cup {<<2>> \o WithHeader(Filler, <<2, 127>>) \o WithHeader(b, <<>>) :
            b \in MCBodies}
    \cup {<<0>>}
=============================================================================
