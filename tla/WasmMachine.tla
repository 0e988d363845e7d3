---------------------------- MODULE WasmMachine ----------------------------
(***************************************************************************)
(* What running a Wee-O-Wasm module means: the machine of the WebAssembly  *)
(* semantics, which noderun.js runs the same modules on.  Every active     *)
(* function has locals and operands of its own; a branch names a label,    *)
(* goes to its target and keeps only the operands the label's type says.   *)
(* It knows nothing of stacks in arrays, saved pointers or offsets.        *)
(***************************************************************************)
EXTENDS WeeCode

CONSTANTS Value, Trap, Sentinel, Unary(_, _), Binary(_, _, _)

NullFunc == -1

VARIABLES
  prog,     \* the module, any one: it never changes; prog.labels says of each
            \* label slot its target, the operands below the label and the
            \* ones a branch carries
  phase,    \* "start", "main": about to invoke that function; "running";
            \* "exited", "trapped", "rejected", "exhausted"
  in_start, \* whether the invocation that runs is the start function's
  act,      \* the active functions, the current one last: [fn, pc, locals,
            \* stack]
  globals,
  result

vars == <<prog, phase, in_start, act, globals, result>>

-----------------------------------------------------------------------------
cur        == act[Len(act)]
code       == prog.code
fn         == prog.funcs[cur.fn]
Imm(i)     == code[cur.pc + i]
Operand(i) == cur.stack[Len(cur.stack) - i]
Below(n)   == SubSeq(cur.stack, 1, Len(cur.stack) - n)

At(opcodes) == phase = "running" /\ code[cur.pc] \in opcodes

Activation(f, args) ==
  [fn     |-> f,
   pc     |-> prog.funcs[f].code_start,
   locals |-> args \o [i \in 1..prog.funcs[f].num_locals |-> 0],
   stack  |-> <<>>]

\* Continue in the same activation, at pc with operands s and locals l.
Goto(pc, s, l) ==
  /\ act' = [act EXCEPT ![Len(act)] =
               [fn |-> cur.fn, pc |-> pc, locals |-> l, stack |-> s]]
  /\ UNCHANGED <<prog, phase, in_start, result>>

Advance(s) == Goto(NextInstr(code, cur.pc), s, cur.locals) /\ UNCHANGED globals

\* Branch to the label in a slot with operands s: unwind to its height.
Branch(slot, s) ==
  LET l == prog.labels[slot]
  IN /\ Goto(l.target,
             SubSeq(s, 1, l.height) \o SubSeq(s, Len(s) - l.arity + 1, Len(s)),
             cur.locals)
     /\ UNCHANGED globals

Stop(why) ==
  /\ phase' = why
  /\ act' = <<>>
  /\ UNCHANGED <<prog, in_start, globals, result>>

-----------------------------------------------------------------------------
\* The start function has no parameters and no result.
InvokeStart ==
  /\ phase = "start"
  /\ phase' = "running"
  /\ in_start' = TRUE
  /\ act' = <<Activation(prog.start_idx, <<>>)>>
  /\ UNCHANGED <<prog, globals, result>>

InvokeMain ==
  /\ phase = "main"
  /\ Len(prog.args) = prog.funcs[prog.main_idx].num_params
  /\ prog.arg_types_match
  /\ phase' = "running"
  /\ in_start' = FALSE
  /\ act' = <<Activation(prog.main_idx, prog.args)>>
  /\ UNCHANGED <<prog, globals, result>>

RejectMain ==
  /\ phase = "main"
  /\ \/ Len(prog.args) # prog.funcs[prog.main_idx].num_params
     \/ ~prog.arg_types_match
  /\ Stop("rejected")

\* The function's result, if it has one, goes to the caller's operands.
ReturnFrom ==
  /\ \/ At({WASM_OP_RETURN})
     \/ At({WASM_OP_END}) /\ cur.pc + 1 = fn.code_end
  /\ LET results == SubSeq(cur.stack, Len(cur.stack) - fn.num_results + 1,
                           Len(cur.stack))
         callers == SubSeq(act, 1, Len(act) - 1)
     IN /\ result' = IF results # <<>> THEN results[1] ELSE result
        /\ IF callers = <<>>
           THEN /\ act' = <<>>
                /\ phase' = IF in_start THEN "main" ELSE "exited"
           ELSE /\ act' = [callers EXCEPT ![Len(callers)].stack = @ \o results]
                /\ UNCHANGED phase
  /\ UNCHANGED <<prog, in_start, globals>>

\* Invoke f with the arguments on top of s, to go on at ret.
Invoke(f, s, ret) ==
  LET np   == prog.funcs[f].num_params
      args == SubSeq(s, Len(s) - np + 1, Len(s))
      rest == SubSeq(s, 1, Len(s) - np)
  IN \/ /\ f < prog.num_imports
        /\ \/ Stop("trapped")
           \/ \E v \in Value :
                /\ Goto(ret, IF prog.funcs[f].num_results = 0 THEN rest
                             ELSE Append(rest, v), cur.locals)
                /\ UNCHANGED globals
     \/ /\ f >= prog.num_imports
        /\ act' = Append([act EXCEPT ![Len(act)] = [@ EXCEPT !.pc = ret,
                                                             !.stack = rest]],
                         Activation(f, args))
        /\ UNCHANGED <<prog, phase, in_start, globals, result>>

Call ==
  /\ At({WASM_OP_CALL})
  /\ Invoke(Imm(1), cur.stack, cur.pc + 2)

CallIndirect ==
  /\ At({WASM_OP_CALL_INDIRECT})
  /\ LET i == Operand(0)
         ok == /\ i \in DOMAIN prog.table
               /\ prog.table[i] # NullFunc
               /\ prog.funcs[prog.table[i]].sig_index = Imm(1)
     IN IF ok THEN Invoke(prog.table[i], Below(1), cur.pc + 3)
        ELSE Stop("trapped")

BranchOp ==
  \/ At({WASM_OP_BR}) /\ Branch(cur.pc + 1, cur.stack)
  \/ At({WASM_OP_BR_IF}) /\ IF Operand(0) # 0 THEN Branch(cur.pc + 1, Below(1))
                            ELSE Advance(Below(1))
  \/ /\ At({WASM_OP_BR_TABLE})
     /\ LET k == IF Operand(0) < Imm(1) THEN Operand(0) ELSE Imm(1)
        IN Branch(cur.pc + 2 + k, Below(1))

\* Replace the n topmost operands by v, or trap when an operator did.
Yield(n, v) ==
  IF v = Trap THEN Stop("trapped") ELSE Advance(Append(Below(n), v))

SimpleOp ==
  \/ At({WASM_OP_NOP} \cup BlockOps) /\ Advance(cur.stack)
  \/ At({WASM_OP_END}) /\ cur.pc + 1 # fn.code_end /\ Advance(cur.stack)
  \/ At({WASM_OP_DROP}) /\ Advance(Below(1))
  \/ At({WASM_OP_SELECT}) /\ Yield(3, IF Operand(0) # 0 THEN Operand(2)
                                      ELSE Operand(1))
  \/ At(ConstOps) /\ Yield(0, Imm(1))
  \/ At(UnaryOps) /\ Yield(1, Unary(code[cur.pc], Operand(0)))
  \/ At(BinaryOps) /\ Yield(2, Binary(code[cur.pc], Operand(1), Operand(0)))
  \/ At(LoadOps) /\ \E v \in Value \cup {Trap} : Yield(1, v)
  \/ At(StoreOps) /\ (Stop("trapped") \/ Advance(Below(2)))
  \/ At({WASM_OP_UNREACHABLE}) /\ Stop("trapped")

VariableOp ==
  \/ At({WASM_OP_LOCAL_GET}) /\ Yield(0, cur.locals[Imm(1) + 1])
  \/ /\ At({WASM_OP_LOCAL_SET})
     /\ Goto(cur.pc + 2, Below(1),
             [cur.locals EXCEPT ![Imm(1) + 1] = Operand(0)])
     /\ UNCHANGED globals
  \/ /\ At({WASM_OP_LOCAL_TEE})
     /\ Goto(cur.pc + 2, cur.stack,
             [cur.locals EXCEPT ![Imm(1) + 1] = Operand(0)])
     /\ UNCHANGED globals
  \/ At({WASM_OP_GLOBAL_GET}) /\ Yield(0, globals[Imm(1)])
  \/ /\ At({WASM_OP_GLOBAL_SET})
     /\ Goto(cur.pc + 2, Below(1), cur.locals)
     /\ globals' = [globals EXCEPT ![Imm(1)] = Operand(0)]

\* The semantics allows an implementation to run out of resources.
Exhaust == phase = "running" /\ Stop("exhausted")

-----------------------------------------------------------------------------
Init ==
  /\ phase = IF prog.has_start THEN "start" ELSE "main"
  /\ in_start = FALSE
  /\ act = <<>>
  /\ globals = prog.globals
  /\ result = Sentinel

Progress ==
  \/ InvokeStart \/ InvokeMain \/ RejectMain
  \/ ReturnFrom \/ Call \/ CallIndirect \/ BranchOp \/ SimpleOp \/ VariableOp

Halted ==
  /\ phase \in {"exited", "trapped", "rejected", "exhausted"}
  /\ UNCHANGED vars

Next == Progress \/ Exhaust \/ Halted

\* A program runs on; nothing makes the machine give up.
Spec == Init /\ [][Next]_vars /\ WF_vars(Progress)
=============================================================================
