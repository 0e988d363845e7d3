------------------------------- MODULE Weerun -------------------------------
(***************************************************************************)
(* The interpreter loop of weerun.c: run(), from the start and main frames *)
(* to the result it returns.  Every handler of the threaded dispatch is    *)
(* one action; an action is enabled when FETCH_OPCODE reads its opcode.    *)
(*                                                                         *)
(* All operands and locals of all active functions live in one array that  *)
(* grows upwards, op_stack_base; a frame is a pair of pointers into it     *)
(* (locals, op_ptr), saved with the return address on the call stack.  The *)
(* array is the sequence op, cut at top: op[1] is op_stack_base[0] and a   *)
(* pointer is the number of values below it.                               *)
(*                                                                         *)
(* Abstracted: the tags of wasm_value_t (every value is a number, which is *)
(* what val.i32 holds), the arithmetic (Unary, Binary), the content of the *)
(* linear memory (a load yields any value or traps), the natives (a call   *)
(* of an import yields any value or exits), and block_depth, which only    *)
(* TRACE prints.                                                           *)
(***************************************************************************)
EXTENDS WeeValid

CONSTANTS
  Programs,        \* the loaded modules, with the arguments given to main
  Value,           \* the values of operands, locals and globals
  Trap,            \* what an operator yields instead of a value when it traps
  Sentinel,        \* the initial return_result, 0xDEADBEEF
  Unary(_, _),     \* Unary(opcode, a)
  Binary(_, _, _), \* Binary(opcode, a, b), a pushed before b
  OP_STACK_MAX,    \* the values op_stack_base has room for
  CALL_STACK_MAX   \* the frames call_stack_base has room for

ASSUME ValueAssumption ==
  /\ Value \subseteq Nat
  /\ 0 \in Value
  /\ Trap \notin Value
  /\ Sentinel \notin Value

ASSUME OperatorAssumption ==
  /\ \A o \in UnaryOps : \A a \in Value : Unary(o, a) \in Value \cup {Trap}
  /\ \A o \in BinaryOps : \A a, b \in Value :
       Binary(o, a, b) \in Value \cup {Trap}

ASSUME StackAssumption == OP_STACK_MAX \in Nat /\ CALL_STACK_MAX \in Nat

ASSUME ProgramAssumption == \A p \in Programs : Valid(p, Value)

VARIABLES
  prog,          \* the module and its instance: constant while it runs
  phase,         \* where control is: at main_init, at start_init, in the
                 \* loop ("running"), or out of run() for one of the reasons
                 \* in Stopped
  ip,            \* the instruction pointer
  fn_idx,        \* the function of the current frame
  op,            \* the operand stack, op_stack_base up to top
  locals,        \* the current frame: the values below its locals ...
  op_ptr,        \* ... and below its operands
  frames,        \* the saved frames, call_stack_base up to frame
  globals,       \* inst->globals
  return_result  \* what run() will return

vars == <<prog, phase, ip, fn_idx, op, locals, op_ptr, frames, globals,
          return_result>>

Stopped == {"exited", "trapped", "rejected", "overrun"}

-----------------------------------------------------------------------------
\* The current function, the operand i places below the top (Operand(0) is
\* what POP would return) and the stack without its n topmost values.
fn         == prog.funcs[fn_idx]
Operand(i) == op[Len(op) - i]
Below(n)   == SubSeq(op, 1, Len(op) - n)
Imm(i)     == prog.code[ip + i]

Zeros(n) == [i \in 1..n |-> 0]

\* Neither PUSH nor PUSH_FRAME checks its limit.  A push beyond the end of an
\* array is undefined behaviour: nothing is said of what run() does after it.
InBounds == Len(op) <= OP_STACK_MAX /\ Len(frames) <= CALL_STACK_MAX

Fetch(opcodes) ==
  /\ phase = "running"
  /\ InBounds
  /\ prog.code[ip] \in opcodes

\* A handler that stays in its frame: jump to target with operand stack s.
Continue(target, s) ==
  /\ ip' = target
  /\ op' = s
  /\ UNCHANGED <<prog, phase, fn_idx, locals, op_ptr, frames, return_result>>

\* TRAP: print "!trap" and exit.
DoTrap ==
  /\ phase' = "trapped"
  /\ UNCHANGED <<prog, ip, fn_idx, op, locals, op_ptr, frames, globals,
                 return_result>>

-----------------------------------------------------------------------------
\* Enter function f at the bottom of an empty stack, its arguments pushed.
EnterBottom(f) ==
  /\ phase' = "running"
  /\ fn_idx' = f
  /\ ip' = prog.funcs[f].code_start
  /\ op' = prog.args \o Zeros(prog.funcs[f].num_locals)
  /\ locals' = 0
  /\ op_ptr' = Len(op')
  /\ frames' = <<>>
  /\ UNCHANGED <<prog, globals, return_result>>

\* The label start_init.  The start function is given main's arguments.
StartInit ==
  /\ phase = "start_init"
  /\ EnterBottom(prog.start_idx)

\* The label main_init, with its checks of the arguments.
MainInit ==
  /\ phase = "main_init"
  /\ Len(prog.args) = prog.funcs[prog.main_idx].num_params
  /\ prog.arg_types_match
  /\ EnterBottom(prog.main_idx)

MainReject ==
  /\ phase = "main_init"
  /\ \/ Len(prog.args) # prog.funcs[prog.main_idx].num_params
     \/ ~prog.arg_types_match
  /\ phase' = "rejected"
  /\ op' = <<>>
  /\ frames' = <<>>
  /\ fn_idx' = prog.main_idx
  /\ UNCHANGED <<prog, ip, locals, op_ptr, globals, return_result>>

-----------------------------------------------------------------------------
Unreachable ==
  /\ Fetch({WASM_OP_UNREACHABLE})
  /\ DoTrap

Nop ==
  /\ Fetch({WASM_OP_NOP})
  /\ Continue(ip + 1, op)
  /\ UNCHANGED globals

\* block and loop only skip their block type.
EnterBlock ==
  /\ Fetch(BlockOps)
  /\ Continue(ip + 2, op)
  /\ UNCHANGED globals

\* Mutant: an inner `end' is not stepped over.
MutEndBlock ==
  /\ Fetch({WASM_OP_END})
  /\ ip + 1 # fn.code_end
  /\ Continue(ip, op)
  /\ UNCHANGED globals

\* An `end' that closes a block; the last one of a function returns.
EndBlock ==
  /\ Fetch({WASM_OP_END})
  /\ ip + 1 # fn.code_end
  /\ Continue(ip + 1, op)
  /\ UNCHANGED globals

\* Mutant: the offset counts from the label instead of from behind it.
MutBr ==
  /\ Fetch({WASM_OP_BR})
  /\ Continue(ip + 1 + Imm(1), op)
  /\ UNCHANGED globals

\* The label is an offset from the slot behind it.  The operand stack is left
\* as it is, whatever the height of the target's block.
Br ==
  /\ Fetch({WASM_OP_BR})
  /\ Continue(ip + 2 + Imm(1), op)
  /\ UNCHANGED globals

\* Mutant: the condition is popped only when the branch is taken.
MutBrIf ==
  /\ Fetch({WASM_OP_BR_IF})
  /\ IF Operand(0) # 0 THEN Continue(ip + 2 + Imm(1), Below(1))
                       ELSE Continue(ip + 2, op)
  /\ UNCHANGED globals

BrIf ==
  /\ Fetch({WASM_OP_BR_IF})
  /\ Continue(IF Operand(0) # 0 THEN ip + 2 + Imm(1) ELSE ip + 2, Below(1))
  /\ UNCHANGED globals

BrTable ==
  /\ Fetch({WASM_OP_BR_TABLE})
  /\ LET num_elems == Imm(1)
         idx_ch    == IF Operand(0) < num_elems THEN Operand(0) ELSE num_elems
         slot      == ip + 2 + idx_ch
     IN Continue(slot + 1 + prog.code[slot], Below(1))
  /\ UNCHANGED globals

\* Drop the frame's values, keep the result if there is one, and go back to
\* the caller; out of the bottom frame, leave the loop or, after the start
\* function, jump to main_init.
Return ==
  /\ \/ Fetch({WASM_OP_RETURN})
     \/ Fetch({WASM_OP_END}) /\ ip + 1 = fn.code_end
  /\ IF fn.num_results = 1
     THEN /\ return_result' = Operand(0)
          /\ op' = Append(SubSeq(op, 1, locals), Operand(0))
     ELSE /\ op' = SubSeq(op, 1, locals)
          /\ UNCHANGED return_result
  /\ IF frames = <<>>
     THEN /\ phase' = IF prog.has_start /\ fn_idx = prog.start_idx
                      THEN "main_init" ELSE "exited"
          /\ UNCHANGED <<ip, fn_idx, locals, op_ptr, frames>>
     ELSE LET ctx == frames[Len(frames)]
          IN /\ frames' = SubSeq(frames, 1, Len(frames) - 1)
             /\ ip' = ctx.ret_addr
             /\ fn_idx' = ctx.fn_idx
             /\ locals' = ctx.locals
             /\ op_ptr' = ctx.op_ptr
             /\ UNCHANGED phase
  /\ UNCHANGED <<prog, globals>>

\* CALL_ROUTINE for an import: its result, if it has one, replaces the
\* arguments.  A name that is not known gives the null reference, 0; the
\* native functions may trap.
CallImport(f, stack, ret) ==
  LET rest == SubSeq(stack, 1, Len(stack) - prog.funcs[f].num_params)
  IN /\ f < prog.num_imports
     /\ \/ \E result \in Value :
             /\ Continue(ret, IF prog.funcs[f].num_results # 0
                              THEN Append(rest, result) ELSE rest)
             /\ UNCHANGED globals
        \/ DoTrap

\* Mutant: the arguments are left out of the new locals.
MutCallFuncTop(f, stack, ret) ==
  /\ f >= prog.num_imports
  /\ frames' = Append(frames, [ret_addr |-> ret, fn_idx |-> fn_idx,
                               locals |-> locals, op_ptr |-> op_ptr])
  /\ fn_idx' = f
  /\ ip' = prog.funcs[f].code_start
  /\ locals' = Len(stack)
  /\ op' = stack \o Zeros(prog.funcs[f].num_locals)
  /\ op_ptr' = Len(op')
  /\ UNCHANGED <<prog, phase, globals, return_result>>

\* CALL_ROUTINE for a function of the module: the arguments on top of the
\* stack become the first locals of the new frame.
CallFunc(f, stack, ret) ==
  /\ f >= prog.num_imports
  /\ frames' = Append(frames, [ret_addr |-> ret, fn_idx |-> fn_idx,
                               locals |-> locals, op_ptr |-> op_ptr])
  /\ fn_idx' = f
  /\ ip' = prog.funcs[f].code_start
  /\ locals' = Len(stack) - prog.funcs[f].num_params
  /\ op' = stack \o Zeros(prog.funcs[f].num_locals)
  /\ op_ptr' = Len(op')
  /\ UNCHANGED <<prog, phase, globals, return_result>>

Call ==
  /\ Fetch({WASM_OP_CALL})
  /\ \/ CallImport(Imm(1), op, ip + 2)
     \/ CallFunc(Imm(1), op, ip + 2)

\* The callee comes from the table; out of the table's range, for an entry
\* that is not set, or for another type index, it traps.
CallIndirect ==
  /\ Fetch({WASM_OP_CALL_INDIRECT})
  /\ LET idx == Operand(0)
         Callable == /\ idx \in DOMAIN prog.table
                     /\ prog.table[idx] # NullFunc
                     /\ prog.funcs[prog.table[idx]].sig_index = Imm(1)
     IN \/ ~Callable /\ DoTrap
        \/ Callable /\ CallImport(prog.table[idx], Below(1), ip + 3)
        \/ Callable /\ CallFunc(prog.table[idx], Below(1), ip + 3)

Drop ==
  /\ Fetch({WASM_OP_DROP})
  /\ Continue(ip + 1, Below(1))
  /\ UNCHANGED globals

Select ==
  /\ Fetch({WASM_OP_SELECT})
  /\ Continue(ip + 1, Append(Below(3), IF Operand(0) # 0 THEN Operand(2)
                                       ELSE Operand(1)))
  /\ UNCHANGED globals

LocalGet ==
  /\ Fetch({WASM_OP_LOCAL_GET})
  /\ Continue(ip + 2, Append(op, op[locals + Imm(1) + 1]))
  /\ UNCHANGED globals

\* Mutant: local 0 is taken to be the value below the frame's locals.
MutLocalSet ==
  /\ Fetch({WASM_OP_LOCAL_SET})
  /\ Continue(ip + 2, [Below(1) EXCEPT ![locals + Imm(1)] = Operand(0)])
  /\ UNCHANGED globals

LocalSet ==
  /\ Fetch({WASM_OP_LOCAL_SET})
  /\ Continue(ip + 2, [Below(1) EXCEPT ![locals + Imm(1) + 1] = Operand(0)])
  /\ UNCHANGED globals

\* Mutant: the operand is popped, as local.set does.
MutLocalTee ==
  /\ Fetch({WASM_OP_LOCAL_TEE})
  /\ Continue(ip + 2, [Below(1) EXCEPT ![locals + Imm(1) + 1] = Operand(0)])
  /\ UNCHANGED globals

LocalTee ==
  /\ Fetch({WASM_OP_LOCAL_TEE})
  /\ Continue(ip + 2, [op EXCEPT ![locals + Imm(1) + 1] = Operand(0)])
  /\ UNCHANGED globals

GlobalGet ==
  /\ Fetch({WASM_OP_GLOBAL_GET})
  /\ Continue(ip + 2, Append(op, globals[Imm(1)]))
  /\ UNCHANGED globals

GlobalSet ==
  /\ Fetch({WASM_OP_GLOBAL_SET})
  /\ Continue(ip + 2, Below(1))
  /\ globals' = [globals EXCEPT ![Imm(1)] = Operand(0)]

Const ==
  /\ Fetch(ConstOps)
  /\ Continue(ip + 2, Append(op, Imm(1)))
  /\ UNCHANGED globals

\* A load traps outside the memory and yields what the memory holds inside.
Load ==
  /\ Fetch(LoadOps)
  /\ \/ DoTrap
     \/ \E v \in Value : /\ Continue(ip + 3, Append(Below(1), v))
                         /\ UNCHANGED globals

Store ==
  /\ Fetch(StoreOps)
  /\ \/ DoTrap
     \/ Continue(ip + 3, Below(2)) /\ UNCHANGED globals

UnaryOp ==
  /\ Fetch(UnaryOps)
  /\ LET r == Unary(prog.code[ip], Operand(0))
     IN IF r = Trap THEN DoTrap
        ELSE Continue(ip + 1, Append(Below(1), r)) /\ UNCHANGED globals

\* Mutant: the divisor is not compared with zero.
MutBinaryOp ==
  /\ Fetch(BinaryOps)
  /\ Continue(ip + 1, Append(Below(2), Binary(prog.code[ip], Operand(1),
                                             Operand(0))))
  /\ UNCHANGED globals

BinaryOp ==
  /\ Fetch(BinaryOps)
  /\ LET r == Binary(prog.code[ip], Operand(1), Operand(0))
     IN IF r = Trap THEN DoTrap
        ELSE Continue(ip + 1, Append(Below(2), r)) /\ UNCHANGED globals

\* The last push went beyond the end of one of the arrays.
Overrun ==
  /\ phase = "running"
  /\ ~InBounds
  /\ phase' = "overrun"
  /\ UNCHANGED <<prog, ip, fn_idx, op, locals, op_ptr, frames, globals,
                 return_result>>

-----------------------------------------------------------------------------
\* Before the first jump of run.
Start ==
  /\ phase = IF prog.has_start THEN "start_init" ELSE "main_init"
  /\ globals = prog.globals
  /\ return_result = Sentinel
  /\ ip = 1
  /\ fn_idx = prog.main_idx
  /\ op = <<>>
  /\ locals = 0
  /\ op_ptr = 0
  /\ frames = <<>>

Init == prog \in Programs /\ Start

Step ==
  \/ StartInit \/ MainInit \/ MainReject
  \/ Unreachable \/ Nop \/ EnterBlock \/ EndBlock
  \/ Br \/ BrIf \/ BrTable \/ Return \/ Call \/ CallIndirect
  \/ Drop \/ Select \/ LocalGet \/ LocalSet \/ LocalTee
  \/ GlobalGet \/ GlobalSet \/ Const \/ Load \/ Store \/ UnaryOp \/ BinaryOp
  \/ Overrun

\* The process is gone: nothing moves any more.
Halted == phase \in Stopped /\ UNCHANGED vars

Next == Step \/ Halted

\* The loop is single-threaded and never waits.
Spec == Init /\ [][Next]_vars /\ WF_vars(Step)

-----------------------------------------------------------------------------
\* Frame i of the running program, 1 the bottom one; the last is the current.
Depth == Len(frames) + 1

FnAt(i)     == IF i = Depth THEN fn_idx ELSE frames[i].fn_idx
IpAt(i)     == IF i = Depth THEN ip ELSE frames[i].ret_addr
LocalsAt(i) == IF i = Depth THEN locals ELSE frames[i].locals
OpPtrAt(i)  == IF i = Depth THEN op_ptr ELSE frames[i].op_ptr
TopAt(i)    == IF i = Depth THEN Len(op) ELSE LocalsAt(i + 1)

Context == [ret_addr : Int, fn_idx : Nat, locals : Nat, op_ptr : Nat]

\* The interpreter's registers and stacks hold what their C types say.
TypeOK ==
  /\ phase \in {"start_init", "main_init", "running"} \cup Stopped
  /\ ip \in Int
  /\ fn_idx \in DOMAIN prog.funcs
  /\ op \in Seq(Value)
  /\ locals \in Nat /\ op_ptr \in Nat
  /\ frames \in Seq(Context)
  /\ DOMAIN globals = DOMAIN prog.globals
  /\ \A g \in DOMAIN globals : globals[g] \in Value
  /\ return_result \in Value \cup {Sentinel}

\* Control stays inside function bodies: every frame is, or will be after its
\* callee returns, at an instruction of its own function.
ControlInBody ==
  phase = "running" =>
    \A i \in 1..Depth :
      /\ FnAt(i) \in DOMAIN prog.funcs
      /\ FnAt(i) >= prog.num_imports
      /\ IpAt(i) \in DOMAIN prog.height[FnAt(i)]

\* The frames lie one above the other in op, each with its locals below its
\* operands: no pointer of a frame reaches into another one.
FramesNested ==
  phase = "running" =>
    \A i \in 1..Depth :
      /\ LocalsAt(i) + Slots(prog, FnAt(i)) <= OpPtrAt(i)
      /\ OpPtrAt(i) <= TopAt(i)

\* Branches do not unwind the operand stack, and still no frame ever has less
\* operands than the validator counted: the current one for the instruction
\* it is at, a suspended one for the instruction it will resume at, not
\* counting the result its callee still owes it.
OperandsSuffice ==
  phase = "running" =>
    /\ op_ptr + prog.height[fn_idx][ip] <= Len(op)
    /\ \A i \in 1..(Depth - 1) :
         OpPtrAt(i) + prog.height[FnAt(i)][IpAt(i)]
           <= TopAt(i) + prog.funcs[FnAt(i + 1)].num_results

\* A function never touches what its callers have on the stack: below the
\* current frame's locals nothing changes, whatever the function does and
\* also when it calls or returns.
CallersUntouched ==
  [][phase = "running" => SubSeq(op', 1, locals) = SubSeq(op, 1, locals)]_vars

\* Where every branch is taken at the height of its label, the stack has
\* exactly the height the validator counted: loops do not make it grow.
HeightsExact ==
  phase = "running" /\ prog.exact =>
    Len(op) = op_ptr + prog.height[fn_idx][ip]

\* The instructions of function f that have opcode o.
InstrsOf(f, o) == {a \in DOMAIN prog.height[f] : prog.code[a] = o}

\* Without loops; calls, also those through the table, only go to functions
\* further on or to imports, and the start function is not main.
LoopFree ==
  /\ prog.has_start => prog.start_idx # prog.main_idx
  /\ \A f \in DOMAIN prog.height :
       LET Further(g) == g > f \/ g < prog.num_imports
       IN /\ InstrsOf(f, WASM_OP_LOOP) = {}
          /\ \A a \in InstrsOf(f, WASM_OP_CALL) : Further(prog.code[a + 1])
          /\ InstrsOf(f, WASM_OP_CALL_INDIRECT) # {} =>
               \A i \in DOMAIN prog.table : Further(prog.table[i])

\* A program without loops and recursion comes to an end, whatever operands its
\* branches leave behind.
Terminates == LoopFree ~> phase \in Stopped

-----------------------------------------------------------------------------
\* The frames as the activations of the abstract machine: the slices of op
\* between their pointers.
ActivationAt(i) ==
  [fn     |-> FnAt(i),
   pc     |-> IpAt(i),
   locals |-> SubSeq(op, LocalsAt(i) + 1, OpPtrAt(i)),
   stack  |-> SubSeq(op, OpPtrAt(i) + 1, TopAt(i))]

Activations ==
  IF phase # "running" THEN <<>>
  ELSE Append([i \in 1..Len(frames) |-> ActivationAt(i)], ActivationAt(Depth))

\* Whether the start function is, or was, what run() invoked last.
InStart ==
  /\ prog.has_start
  /\ phase # "start_init"
  /\ phase \in {"main_init", "rejected"} \/ FnAt(1) = prog.start_idx
=============================================================================
