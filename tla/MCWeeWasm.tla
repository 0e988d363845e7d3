------------------------------ MODULE MCWeeWasm ------------------------------
(***************************************************************************)
(* Whole runs, from a code section with labels to the result, of the mains *)
(* that MCWeerun runs without the loader.                                  *)
(***************************************************************************)
EXTENDS WeeWasm, WeePrograms

CONSTANTS Modulus, MaxBody

MCValue == 0..(Modulus - 1)

MCUnary(o, a) == EqzOf(a)

MCBinary(o, a, b) == WrapOf(Modulus, Trap, o, a, b)

\* n locals: none, two in one declaration, or one and then the others.
Decls(n) == CASE n = 0 -> <<>>
              [] n = 2 -> <<2, 127>>
              [] OTHER -> <<1, 124, n - 1, 127>>

InFile(env, bodies) ==
  Declare(env, bodies, [f \in DOMAIN bodies |-> Decls(env.funcs[f].num_locals)])

\* Main is in front of its helper, or behind it, where the loader meets blocks
\* of the helper in static_blocks.  (As function 1 or 2, main calls either.)
Fronts ==
  LET env == Env(<<Fun(S1, 2), Fun(S2, 3)>>, <<1>>, FALSE)
      helpers == {Body(env, 2, Helper), Body(env, 2, Leaving)}
  IN {InFile(env, [f \in 1..2 |-> IF f = 1 THEN b ELSE h]) :
        b \in Bodies(env, 1, ControlAlphabet, MaxBody), h \in helpers}

Behinds ==
  LET env == [Env(<<Fun(S2, 3), Fun(S1, 2)>>, <<1>>, FALSE) EXCEPT !.main_idx = 2]
      helpers == {Body(env, 1, Helper), Body(env, 1, Leaving)}
  IN {InFile(env, [f \in 1..2 |-> IF f = 2 THEN b ELSE h]) :
        b \in Bodies(env, 2, ControlAlphabet, MaxBody), h \in helpers}

Branches ==
  LET env == Env(<<Fun(S10, 0)>>, <<1>>, FALSE)
  IN {InFile(env, 1 :> b) : b \in Bodies(env, 1, BranchAlphabet, MaxBody + 1)}

Datas ==
  LET env == Env(<<Fun(S1, 2), Fun(S1, 2)>>, <<2>>, FALSE)
      negate == Body(env, 2, Negate)
  IN {InFile(env, [f \in 1..2 |-> IF f = 1 THEN b ELSE negate]) :
        b \in Bodies(env, 1, DataAlphabet, MaxBody - 1)}

Starts ==
  LET env == Env(<<Fun(S01, 0), Fun(S0, 2)>>, <<>>, TRUE)
      getter  == Body(env, 1, Getter)
      starter == Body(env, 2, Starter)
  IN {InFile(env, [f \in 1..2 |-> IF f = 1 THEN getter ELSE starter])}

MCModules == Fronts \cup Behinds \cup Branches \cup Datas \cup Starts

\* Those whose branches are all taken at the height of their label.
MCExactModules == {m \in MCModules : m.exact}

ASSUME MCStructured == \A m \in Modules : Structured(m)
=============================================================================
