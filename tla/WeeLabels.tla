----------------------------- MODULE WeeLabels -----------------------------
(***************************************************************************)
(* What a branch label means, stated over the whole body of a function at  *)
(* once: label k of a branch names the k-th block around it, counted from  *)
(* the inside, and the function itself beyond the outermost block.  The    *)
(* loader (Weedis) computes the same targets in two linear passes.         *)
(*                                                                         *)
(* A body occupies the addresses s..e-1; its last slot is the `end' that   *)
(* closes the function.                                                    *)
(***************************************************************************)
EXTENDS WeeCode, FiniteSets

\* The addresses at which the instructions of the body start.
InstrStarts(code, s, e) ==
  LET at[i \in 0..(e - s)] ==
        IF i = 0 THEN s
        ELSE LET p == at[i - 1] IN IF p >= e THEN e ELSE NextInstr(code, p)
  IN {at[i] : i \in 0..(e - s)} \ {e}

Opens(code, I)  == {p \in I : code[p] \in BlockOps}
Closes(code, I) == {p \in I : code[p] = WASM_OP_END}

\* The `end' of the block opened at b: the first one at which as many blocks
\* were closed as opened, counted from b on.
MatchingEnd(code, I, b) ==
  LET Between(p) == {q \in I : b <= q /\ q <= p}
      Balanced   == {p \in Closes(code, I) :
                       /\ p > b
                       /\ Cardinality(Opens(code, Between(p))) =
                          Cardinality(Closes(code, Between(p)))}
  IN CHOOSE p \in Balanced : \A q \in Balanced : p <= q

\* The blocks around the instruction at p.
Enclosing(code, I, p) ==
  {b \in Opens(code, I) : b < p /\ p < MatchingEnd(code, I, b)}

\* Where label k of a branch at p leads: behind the header of a loop, to the
\* `end' of a block, or to the last `end' of the function.
LabelTarget(code, s, e, p, k) ==
  LET I      == InstrStarts(code, s, e)
      around == Enclosing(code, I, p)
      Inside(b) == {c \in around : c > b}
  IN IF k >= Cardinality(around) THEN e - 1
     ELSE LET b == CHOOSE c \in around : Cardinality(Inside(c)) = k
          IN IF code[b] = WASM_OP_LOOP THEN NextInstr(code, b)
             ELSE MatchingEnd(code, I, b)

\* Every branch label of the body: the slot it is in, and its target.
Targets(code, s, e) ==
  LET I        == InstrStarts(code, s, e)
      Owner(a) == CHOOSE p \in I : a \in LabelSlots(code, p)
  IN [a \in UNION {LabelSlots(code, p) : p \in I} |->
        LabelTarget(code, s, e, Owner(a), code[a])]

-----------------------------------------------------------------------------
\* The blocks that are open at p, the function among them.
Nesting(code, I, p) ==
  LET before == {q \in I : q < p}
  IN 1 + Cardinality(Opens(code, before)) - Cardinality(Closes(code, before))

\* What a validated body at s..e-1 is: its instructions end where it ends, which
\* is where the last block is closed, and every label has a block.
BodyOK(code, s, e) ==
  LET I == InstrStarts(code, s, e)
  IN /\ s < e
     /\ \A p \in I :
          LET next == NextInstr(code, p)
          IN /\ code[p] = WASM_OP_BR_TABLE => code[p + 1] \in Nat
             /\ next <= e
             /\ Nesting(code, I, next) = 0 <=> next = e
             /\ \A a \in LabelSlots(code, p) : code[a] \in 0..(Nesting(code, I, p) - 1)
=============================================================================
