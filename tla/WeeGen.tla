------------------------------- MODULE WeeGen -------------------------------
(***************************************************************************)
(* Builds loaded modules for model checking: a validator that reads the    *)
(* instructions of a body one by one and records the operand heights and   *)
(* the label types, the set of all valid bodies of a bounded length over   *)
(* an alphabet, and an assembler that lays bodies out in one code image    *)
(* and replaces the labels by offsets.  Only model-checking modules use    *)
(* it.                                                                     *)
(*                                                                         *)
(* An instruction is a sequence: its opcode and its immediates.            *)
(***************************************************************************)
EXTENDS WeeLabels, SequencesExt

VoidType == 64    \* the only block type weeify accepts: no result

Invalid == [valid |-> FALSE]

\* The validator's state at the start of the body of a function.
Fresh(fun) ==
  [valid |-> TRUE, code |-> <<>>, heights |-> {}, labels |-> {}, h |-> 0,
   dead |-> FALSE, exact |-> TRUE,
   ctrl |-> << [height |-> 0, arity |-> fun.num_results] >>]

\* Operands popped and pushed by the instructions without labels.
StackEffect(env, i) ==
  CASE i[1] = WASM_OP_NOP -> <<0, 0>>
    [] i[1] = WASM_OP_DROP -> <<1, 0>>
    [] i[1] = WASM_OP_SELECT -> <<3, 1>>
    [] i[1] \in {WASM_OP_LOCAL_GET, WASM_OP_GLOBAL_GET} \cup ConstOps -> <<0, 1>>
    [] i[1] \in {WASM_OP_LOCAL_SET, WASM_OP_GLOBAL_SET} -> <<1, 0>>
    [] i[1] \in {WASM_OP_LOCAL_TEE} \cup LoadOps \cup UnaryOps -> <<1, 1>>
    [] i[1] \in StoreOps -> <<2, 0>>
    [] i[1] \in BinaryOps -> <<2, 1>>
    [] i[1] = WASM_OP_CALL ->
         <<env.funcs[i[2]].num_params, env.funcs[i[2]].num_results>>
    [] i[1] = WASM_OP_CALL_INDIRECT ->
         <<env.sigs[i[2]].num_params + 1, env.sigs[i[2]].num_results>>

\* The labels of a branch instruction.
LabelsOf(i) == CASE i[1] \in {WASM_OP_BR, WASM_OP_BR_IF} -> <<i[2]>>
                 [] i[1] = WASM_OP_BR_TABLE -> SubSeq(i, 3, Len(i))
                 [] OTHER -> <<>>

\* Append instruction i, at height h, to the body.
Put(s, i, h) ==
  [s EXCEPT !.code = @ \o i, !.heights = @ \cup {<<Len(s.code) + 1, h>>}]

LabelOf(s, k) == s.ctrl[Len(s.ctrl) - k]

\* A branch that needs `cond' operands besides those of its labels.
EmitBranch(s, i, cond, dead) ==
  LET ks    == LabelsOf(i)
      h     == s.h - cond
      fst   == Len(s.code) + Len(i) - Len(ks)
      ok    == /\ ~s.dead
               /\ \A j \in 1..Len(ks) : ks[j] < Len(s.ctrl)
               /\ \A j \in 1..Len(ks) : LabelOf(s, ks[j]).arity =
                                          LabelOf(s, ks[1]).arity
               /\ Last(s.ctrl).height + LabelOf(s, ks[1]).arity <= h
  IN IF ~ok THEN Invalid
     ELSE [Put(s, i, s.h) EXCEPT
             !.h = h,
             !.dead = dead,
             !.exact = @ /\ \A j \in 1..Len(ks) :
                              h = LabelOf(s, ks[j]).height
                                    + LabelOf(s, ks[j]).arity,
             !.labels = @ \cup {<<fst + j, LabelOf(s, ks[j]).height,
                                  LabelOf(s, ks[j]).arity>> : j \in 1..Len(ks)}]

EmitEnd(s) ==
  LET l == Last(s.ctrl)
      h == l.height + l.arity
  IN IF ~s.dead /\ s.h # h THEN Invalid
     ELSE [Put(s, <<WASM_OP_END>>, h) EXCEPT
             !.h = h, !.dead = FALSE, !.ctrl = Front(s.ctrl)]

EmitBlock(s, i) ==
  IF s.dead THEN Invalid
  ELSE [Put(s, i, s.h) EXCEPT !.ctrl = Append(@, [height |-> s.h, arity |-> 0])]

\* Validate and append instruction i.  Behind an unconditional branch only an
\* `end' is accepted.
Emit(env, s, i) ==
  IF ~s.valid \/ s.ctrl = <<>> THEN Invalid
  ELSE CASE i[1] \in BlockOps -> EmitBlock(s, i)
         [] i[1] = WASM_OP_END -> EmitEnd(s)
         [] i[1] = WASM_OP_BR -> EmitBranch(s, i, 0, TRUE)
         [] i[1] = WASM_OP_BR_IF -> EmitBranch(s, i, 1, FALSE)
         [] i[1] = WASM_OP_BR_TABLE -> EmitBranch(s, i, 1, TRUE)
         [] i[1] = WASM_OP_UNREACHABLE ->
              IF s.dead THEN Invalid ELSE [Put(s, i, s.h) EXCEPT !.dead = TRUE]
         [] i[1] = WASM_OP_RETURN ->
              IF s.dead \/ s.h < Last(s.ctrl).height + s.ctrl[1].arity
              THEN Invalid ELSE [Put(s, i, s.h) EXCEPT !.dead = TRUE]
         [] OTHER ->
              LET e == StackEffect(env, i)
              IN IF s.dead \/ s.h - e[1] < Last(s.ctrl).height THEN Invalid
                 ELSE [Put(s, i, s.h) EXCEPT !.h = @ - e[1] + e[2]]

\* The validated body that consists of the given instructions.
Body(env, f, instrs) ==
  FoldLeft(LAMBDA s, i : Emit(env, s, i), Fresh(env.funcs[f]), instrs)

\* All valid bodies that extend s by at most n instructions of the alphabet.
RECURSIVE Extensions(_, _, _, _)
Extensions(env, alphabet, s, n) ==
  IF s.ctrl = <<>> THEN {s}
  ELSE IF n < Len(s.ctrl) THEN {}
  ELSE UNION {Extensions(env, alphabet, t, n - 1) :
                t \in {u \in {Emit(env, s, i) : i \in alphabet} : u.valid}}

Bodies(env, f, alphabet, n) ==
  Extensions(env, alphabet, Fresh(env.funcs[f]), n)

-----------------------------------------------------------------------------
\* The module of environment env whose code is raw and whose function f, one of
\* those with a validated body bodies[f], has its body behind address base[f]:
\* label targets and heights.
Placed(env, bodies, raw, base) ==
  LET fs == DOMAIN bodies
      s(f) == base[f] + 1
      e(f) == base[f] + Len(bodies[f].code) + 1
      labels ==
        UNION {LET t == Targets(raw, s(f), e(f))
               IN {<<base[f] + l[1],
                     [target |-> t[base[f] + l[1]], height |-> l[2],
                      arity |-> l[3]]>> : l \in bodies[f].labels} : f \in fs}
      Label(a) == (CHOOSE l \in labels : l[1] = a)[2]
  IN [env EXCEPT
        !.code = raw,
        !.labels = [a \in {l[1] : l \in labels} |-> Label(a)],
        !.exact = \A f \in fs : bodies[f].exact,
        !.funcs = [f \in DOMAIN @ |->
                     IF f \in fs
                     THEN [@[f] EXCEPT !.code_start = s(f), !.code_end = e(f)]
                     ELSE @[f]],
        !.height = [f \in fs |->
                      [a \in {base[f] + x[1] : x \in bodies[f].heights} |->
                         (CHOOSE x \in bodies[f].heights : base[f] + x[1] = a)[2]]]]

\* The bodies one behind the other, each behind its part of front.
Image(bodies, start, front) ==
  FoldLeft(LAMBDA c, f : c \o front[f] \o bodies[f].code, start,
           SetToSortSeq(DOMAIN bodies, LAMBDA x, y : x < y))

Bases(bodies, start, front) ==
  [f \in DOMAIN bodies |->
     Len(start) + Len(front[f]) +
     SumFunctionOnSet([g \in DOMAIN bodies |-> Len(front[g]) + Len(bodies[g].code)],
                      {g \in DOMAIN bodies : g < f})]

\* A loaded module: nothing but bodies, offsets instead of labels.
Assemble(env, bodies) ==
  LET none == [f \in DOMAIN bodies |-> <<>>]
      m    == Placed(env, bodies, Image(bodies, <<>>, none), Bases(bodies, <<>>, none))
  IN [m EXCEPT !.code = [a \in DOMAIN @ |-> IF a \in DOMAIN m.labels
                                            THEN m.labels[a].target - (a + 1) ELSE @[a]]]

\* A module as the file has it: the code section with its headers, the size of
\* each body and decls[f], the declarations of its locals, and labels.
Declare(env, bodies, decls) ==
  LET Size(f) == 1 + Len(decls[f]) + Len(bodies[f].code)
      front == [f \in DOMAIN bodies |-> <<Size(f), Len(decls[f]) \div 2>> \o decls[f]]
      start == <<Cardinality(DOMAIN bodies)>>
  IN Placed(env, bodies, Image(bodies, start, front), Bases(bodies, start, front))
=============================================================================
