------------------------------ MODULE MCWeeify ------------------------------
(***************************************************************************)
(* weeify on small modules, in every form their labels and lengths can     *)
(* have, and on modules cut short.                                         *)
(***************************************************************************)
EXTENDS Weeify

Plain(op, raw) == [op |-> op, labels |-> <<>>, raw |-> raw, odd |-> FALSE]
Odd(op, raw)   == [op |-> op, labels |-> <<>>, raw |-> raw, odd |-> TRUE]
Branch(op, ls) == [op |-> op, labels |-> ls, raw |-> <<>>, odd |-> FALSE]

\* LEB128 fields of one and of two bytes; an f64 whose bytes look like `end'
\* and `br'; labels of one and of two bytes; else and table.get, which pass.
LegalInstrs ==
  {Plain(WASM_OP_NOP, <<>>), Plain(WASM_OP_BLOCK, <<4>>), Plain(WASM_OP_END, <<>>),
   Plain(WASM_OP_LOCAL_GET, <<9, 1>>), Plain(40, <<2, 12, 2>>),
   Plain(WASM_OP_I32_CONST, <<12, 7>>), Plain(WASM_OP_F64_CONST, <<11, 12>>),
   Plain(WASM_OP_CALL_INDIRECT, <<3, 0>>), Plain(5, <<>>), Plain(37, <<0>>),
   Branch(WASM_OP_BR, <<1>>), Branch(WASM_OP_BR_IF, <<9>>),
   Branch(WASM_OP_BR_TABLE, <<0>>), Branch(WASM_OP_BR_TABLE, <<1, 8, 0>>)}

\* A block with a result, a second table, i64.add, if, an unassigned opcode.
IllegalInstrs ==
  {Odd(WASM_OP_BLOCK, <<7>>), Odd(WASM_OP_CALL_INDIRECT, <<3, 1>>),
   Plain(124, <<>>), Plain(4, <<4>>), Plain(255, <<>>)}

End == Plain(WASM_OP_END, <<>>)

Local(n, type) == [n |-> n, type |-> type]
Body(locals, code) == [locals |-> locals, code |-> Append(code, End)]

\* One or two groups of locals, or none.
Bodies(n, instrs) ==
  {Body(<<>>, c) : c \in BoundedSeq(instrs, n)}
    \cup {Body(l, <<j>>) : l \in {<<Local(2, 7)>>, <<Local(9, 4), Local(1, 7)>>}, j \in instrs}

Code(bs)   == [id |-> WASM_SECT_CODE, bodies |-> bs]
Other(raw)   == [id |-> raw[1], raw |-> raw]

\* A type section in front; a custom section that looks like code behind.
Around(code) == <<Other(<<1, 2, 96, 10>>), code, Other(<<0, 3, 10, 12, 0>>)>>

OneBody   == {<<b>> : b \in Bodies(2, LegalInstrs \cup IllegalInstrs)}
TwoBodies == {<<a, b>> : a, b \in Bodies(1, LegalInstrs \cup IllegalInstrs)}

Modules == {Around(Code(b)) : b \in OneBody} \cup {<<Code(b)>> : b \in TwoBodies}
             \cup {<<>>, <<Code(<<>>)>>}

\* Lengths and labels as short as they can be, or longer.
FormPairs == {<<"leb", "leb">>, <<"leb5", "leb4">>, <<"leb5", "leb5">>}

WholeFiles ==
  {[bytes |-> Encode(m, f[1], f[2]), module |-> m, truncated |-> FALSE] :
     m \in Modules, f \in FormPairs}

\* Every file one can get by cutting this module short.
CutModule == Around(Code(<<Body(<<>>, <<Branch(WASM_OP_BR_TABLE, <<1, 0>>)>>)>>))

CutFiles ==
  LET whole == Encode(CutModule, "leb", "leb")
  IN {[bytes |-> SubSeq(whole, 1, n), module |-> CutModule, truncated |-> TRUE] :
        n \in 0..(Len(whole) - 1)}

MCFiles == WholeFiles \cup CutFiles

\* A module for each of some bytecodes that are illegal: i64.add, br_on_null, else.
IllegalFiles ==
  {[bytes |-> Encode(m, "leb", "leb"), module |-> m, truncated |-> FALSE] :
     m \in {Around(Code(<<Body(<<>>, <<Plain(op, <<>>)>>)>>)) : op \in {124, 212, 5}}}

\* The output of an earlier, longer module.
StaleOutput == [k \in 1..50 |-> 99]

NewOutput  == {<<>>}
AnyOutput  == {<<>>, StaleOutput}
=============================================================================
