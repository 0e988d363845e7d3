------------------------------ MODULE MCWeerun ------------------------------
(***************************************************************************)
(* Instances of the interpreter for TLC.  The arithmetic is that of i32 at *)
(* a width of Modulus values.                                              *)
(***************************************************************************)
EXTENDS Weerun, WeePrograms

CONSTANTS Modulus, MaxBody

MCValue == 0..(Modulus - 1)

MCUnary(o, a) == EqzOf(a)

MCBinary(o, a, b) == WrapOf(Modulus, Trap, o, a, b)

-----------------------------------------------------------------------------
\* Every valid main of at most MaxBody control instructions, with a helper.
ControlPrograms ==
  LET env == Env(<<Fun(S1, 0), Fun(S2, 1)>>, <<1>>, FALSE)
      helpers == {Body(env, 2, Helper), Body(env, 2, Leaving)}
  IN {Assemble(env, [f \in 1..2 |-> IF f = 1 THEN b ELSE h]) :
        b \in Bodies(env, 1, ControlAlphabet, MaxBody), h \in helpers}

\* Every valid main without result, of one instruction more, over branches.
BranchPrograms ==
  LET env == Env(<<Fun(S10, 0)>>, <<1>>, FALSE)
  IN {Assemble(env, 1 :> b) : b \in Bodies(env, 1, BranchAlphabet, MaxBody + 1)}

\* Every valid main over the instructions that compute; function 2 has one
\* parameter.
DataPrograms ==
  LET env == Env(<<Fun(S1, 1), Fun(S1, 1)>>, <<2>>, FALSE)
      negate == Body(env, 2, Negate)
  IN {Assemble(env, [f \in 1..2 |-> IF f = 1 THEN b ELSE negate]) :
        b \in Bodies(env, 1, DataAlphabet, MaxBody)}

\* A module with a start function (function 2); args are given to main.
StartProgram(sig, args) ==
  LET env == Env(<<Fun(sig, 0), Fun(S0, 1)>>, args, TRUE)
  IN Assemble(env, [f \in 1..2 |-> Body(env, f, IF f = 1 THEN Getter
                                                ELSE Starter)])

\* A main without parameters and result.
VoidMain ==
  LET env == Env(<<Fun(S0, 0)>>, <<>>, FALSE)
  IN Assemble(env, 1 :> Body(env, 1, <<<<WASM_OP_NOP>>, <<WASM_OP_END>>>>))

\* proj2-tests/start0.wat; also with arguments main does not take, of the wrong
\* number or of the wrong type.
StartPrograms ==
  {StartProgram(S01, <<>>), StartProgram(S1, <<1>>), VoidMain,
   [StartProgram(S1, <<>>) EXCEPT !.arg_types_match = FALSE],
   [StartProgram(S01, <<>>) EXCEPT !.arg_types_match = FALSE]}

AllPrograms == ControlPrograms \cup BranchPrograms \cup DataPrograms
                 \cup StartPrograms

\* (i32.const 1) (block (i32.const 2) (br 0)): the function's result is 1.
ResidualProgram ==
  LET env == Env(<<Fun(S01, 0)>>, <<>>, FALSE)
  IN Assemble(env, 1 :> Body(env, 1,
       << <<WASM_OP_I32_CONST, 1>>, <<WASM_OP_BLOCK, VoidType>>,
          <<WASM_OP_I32_CONST, 2>>, <<WASM_OP_BR, 0>>, <<WASM_OP_END>>,
          <<WASM_OP_END>> >>))

\* A finished run of ResidualProgram returns what WebAssembly says it does.
ResidualResult == phase = "exited" => return_result = 1

-----------------------------------------------------------------------------
\* The constants of the configurations, given by name: TLC then evaluates each
\* set once.
MCAllPrograms   == AllPrograms
MCResidual      == {ResidualProgram}
=============================================================================
