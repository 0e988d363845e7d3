---------------------------- MODULE Weerun_proofs ----------------------------
(***************************************************************************)
(* Proofs about the interpreter loop.  For any set of modules that satisfy *)
(* Valid, any arithmetic that stays in Value and any stack limits:         *)
(* control stays inside function bodies, the frames stay nested in the one *)
(* operand array, every handler finds its operands, and no function        *)
(* touches what its callers have on the stack.  Where no branch leaves an  *)
(* operand behind, the number of operands is exactly the validator's.      *)
(*                                                                         *)
(* Valid says of an address how many operands are there at least (exactly, *)
(* when the program is exact), counted from op_ptr.  The inductive         *)
(* invariant ties that count to the array for the current frame and for    *)
(* each suspended one at the address it will resume at, where the callee's *)
(* result is still owed.                                                   *)
(***************************************************************************)
EXTENDS Weerun, SequenceTheorems, TLAPS

\* The current frame is at an instruction of its function, its locals are in
\* place and it has the operands the instruction may count on.
CurrentOK ==
  /\ fn_idx \in DOMAIN prog.funcs
  /\ fn_idx >= prog.num_imports
  /\ ip \in DOMAIN prog.height[fn_idx]
  /\ locals + Slots(prog, fn_idx) <= op_ptr
  /\ op_ptr + prog.height[fn_idx][ip] <= Len(op)
  /\ prog.exact => op_ptr + prog.height[fn_idx][ip] = Len(op)

\* In module p, the suspended frame c, below a frame of function g whose locals start at
\* top, can resume when g returns.
SuspendedOK(p, c, top, g) ==
  /\ c.fn_idx \in DOMAIN p.funcs
  /\ c.fn_idx >= p.num_imports
  /\ c.ret_addr \in DOMAIN p.height[c.fn_idx]
  /\ c.locals + Slots(p, c.fn_idx) <= c.op_ptr
  /\ c.op_ptr <= top
  /\ c.op_ptr + p.height[c.fn_idx][c.ret_addr]
       <= top + p.funcs[g].num_results
  /\ p.exact => c.op_ptr + p.height[c.fn_idx][c.ret_addr]
                  = top + p.funcs[g].num_results

\* Every suspended frame below the frame above it.
CallersOK ==
  \A j \in 1..Len(frames) :
    IF j = Len(frames) THEN SuspendedOK(prog, frames[j], locals, fn_idx)
    ELSE SuspendedOK(prog, frames[j], frames[j + 1].locals, frames[j + 1].fn_idx)

IInv ==
  /\ prog \in Programs
  /\ TypeOK
  /\ phase = "start_init" => prog.has_start
  /\ phase = "running" => CurrentOK /\ CallersOK

-----------------------------------------------------------------------------
\* The stack operations of the handlers: the stack without its n topmost
\* values, and one more pushed on it.
LEMMA BelowProperties ==
  ASSUME NEW S, NEW s \in Seq(S), NEW n \in Nat, n <= Len(s)
  PROVE  /\ SubSeq(s, 1, Len(s) - n) \in Seq(S)
         /\ Len(SubSeq(s, 1, Len(s) - n)) = Len(s) - n
         /\ \A i \in 1..(Len(s) - n) : SubSeq(s, 1, Len(s) - n)[i] = s[i]
<1>1. Len(s) \in Nat /\ \A i \in 1..(Len(s) - n) : s[i] \in S
  BY LenProperties, ElementOfSeq
<1>2. QED
  BY <1>1, SubSeqProperties

LEMMA PrefixProperties ==
  ASSUME NEW S, NEW s \in Seq(S), NEW n \in Nat, n <= Len(s)
  PROVE  /\ SubSeq(s, 1, n) \in Seq(S)
         /\ Len(SubSeq(s, 1, n)) = n
         /\ \A i \in 1..n : SubSeq(s, 1, n)[i] = s[i]
<1>1. Len(s) \in Nat /\ \A i \in 1..n : s[i] \in S
  BY LenProperties, ElementOfSeq
<1>2. QED
  BY <1>1, SubSeqProperties

\* Sequences with the same indexes are of the same length.
LEMMA SameDomain ==
  ASSUME NEW S, NEW s \in Seq(S), NEW t \in Seq(S), DOMAIN s = DOMAIN t
  PROVE  Len(s) = Len(t)
<1>1. /\ Len(s) \in Nat /\ DOMAIN s = 1..Len(s)
      /\ Len(t) \in Nat /\ DOMAIN t = 1..Len(t)
  BY LenProperties
<1>2. ASSUME NEW a \in Nat, NEW b \in Nat, 1..a = 1..b
      PROVE  a <= b
  <2>1. a = 0 \/ a \in 1..b
    BY <1>2
  <2>2. QED
    BY <2>1
<1>3. \A a, b \in Nat : 1..a = 1..b => a = b
  BY <1>2
<1>4. QED
  BY <1>1, <1>3, Zenon

\* The declared locals: n zeros, which are values.
LEMMA ZerosProperties ==
  ASSUME NEW n \in Nat
  PROVE  Zeros(n) \in Seq(Value) /\ Len(Zeros(n)) = n
<1>1. Zeros(n) \in [1..n -> Value]
  BY ValueAssumption DEF Zeros
<1>2. Zeros(n) \in Seq(Value)
  BY <1>1
<1>3. DOMAIN Zeros(n) = 1..n /\ DOMAIN Zeros(n) = 1..Len(Zeros(n))
  BY <1>1, <1>2, LenProperties
<1>4. QED
  BY <1>2, <1>3, LenProperties

\* The stack once a function's declared locals are pushed.
LEMMA WithLocals ==
  ASSUME NEW s \in Seq(Value), NEW n \in Nat
  PROVE  /\ s \o Zeros(n) \in Seq(Value)
         /\ Len(s \o Zeros(n)) \in Nat
         /\ Len(s \o Zeros(n)) = Len(s) + n
<1>1. Zeros(n) \in Seq(Value) /\ Len(Zeros(n)) = n
  BY ZerosProperties
<1>2. QED
  BY <1>1, ConcatProperties, LenProperties

-----------------------------------------------------------------------------
\* The groups of opcodes do not overlap, so each fixes its instructions' length.
LEMMA InstructionLengths ==
  ASSUME NEW code, NEW p \in Int
  PROVE  /\ code[p] \in {WASM_OP_NOP, WASM_OP_END, WASM_OP_DROP, WASM_OP_SELECT}
                          \cup UnaryOps \cup BinaryOps
              => NextInstr(code, p) = p + 1
         /\ code[p] \in BlockOps \cup LocalOps \cup GlobalOps \cup ConstOps
                          \cup {WASM_OP_BR_IF}
              => NextInstr(code, p) = p + 2
         /\ code[p] \in LoadOps \cup StoreOps => NextInstr(code, p) = p + 3
BY DEF NextInstr, Immediates, BlockOps, LocalOps, GlobalOps, ConstOps, LoadOps,
       StoreOps, UnaryOps, BinaryOps, WASM_OP_NOP, WASM_OP_END, WASM_OP_DROP,
       WASM_OP_SELECT, WASM_OP_I32_EQZ, WASM_OP_BLOCK, WASM_OP_LOOP,
       WASM_OP_LOCAL_GET, WASM_OP_LOCAL_SET, WASM_OP_LOCAL_TEE,
       WASM_OP_GLOBAL_GET, WASM_OP_GLOBAL_SET, WASM_OP_I32_CONST,
       WASM_OP_F64_CONST, WASM_OP_BR, WASM_OP_BR_IF, WASM_OP_CALL,
       WASM_OP_CALL_INDIRECT, WASM_OP_BR_TABLE

-----------------------------------------------------------------------------
\* What the invariant says of a running program before it fetches: where it
\* is, and what the instruction there may count on.
LEMMA AtInstruction ==
  ASSUME IInv, phase = "running"
  PROVE  /\ Valid(prog, Value)
         /\ ip \in Int /\ locals \in Nat /\ op_ptr \in Nat
         /\ op \in Seq(Value) /\ Len(op) \in Nat
         /\ prog.code[ip] \in Opcodes
         /\ prog.height[fn_idx][ip] \in Nat
         /\ locals + Slots(prog, fn_idx) <= op_ptr
         /\ Slots(prog, fn_idx) \in Nat
         /\ op_ptr + prog.height[fn_idx][ip] <= Len(op)
         /\ prog.exact => op_ptr + prog.height[fn_idx][ip] = Len(op)
         /\ InstrValid(prog, Value, fn_idx, ip)
<1>1. Valid(prog, Value)
  BY ProgramAssumption DEF IInv
<1>2. FuncValid(prog, Value, fn_idx)
  BY <1>1 DEF IInv, CurrentOK, Valid
<1>3. prog.funcs[fn_idx].num_params \in Nat /\ prog.funcs[fn_idx].num_locals \in Nat
  BY <1>1 DEF IInv, CurrentOK, Valid
<1>4. QED
  BY <1>1, <1>2, <1>3, LenProperties, SMTT(60)
     DEF IInv, CurrentOK, FuncValid, Slots, TypeOK

\* A handler that stays in its frame keeps the invariant when it leaves at
\* least k operands and goes to an address where k suffice.
LEMMA ContinueKeeps ==
  ASSUME IInv, phase = "running",
         NEW target \in Int, NEW s \in Seq(Value), NEW k \in Int,
         Continue(target, s),
         DOMAIN globals' = DOMAIN prog.globals,
         \A g \in DOMAIN globals' : globals'[g] \in Value,
         MayGo(prog, fn_idx, target, k),
         op_ptr + k <= Len(s),
         prog.exact => op_ptr + k = Len(s)
  PROVE  IInv'
<1>1. TypeOK'
  BY DEF IInv, TypeOK, Continue
<1>2. prog.height[fn_idx][target] \in Nat
  BY AtInstruction DEF IInv, CurrentOK, Valid, FuncValid, MayGo
<1>3. CurrentOK'
  BY <1>2, AtInstruction, LenProperties DEF IInv, CurrentOK, Continue, MayGo, Slots
<1>4. CallersOK'
  BY DEF IInv, CallersOK, Continue, SuspendedOK, Slots
<1>5. QED
  BY <1>1, <1>3, <1>4 DEF IInv, Continue

LEMMA TrapKeeps ==
  ASSUME IInv, DoTrap
  PROVE  IInv'
BY DEF IInv, DoTrap, TypeOK, Stopped

-----------------------------------------------------------------------------
\* Operand i is a value when there are more than i operands.
LEMMA OperandIsValue ==
  ASSUME op \in Seq(Value), NEW i \in Nat, i < Len(op)
  PROVE  Operand(i) \in Value
BY LenProperties, ElementOfSeq DEF Operand

\* So is what is left when n of them are popped.
LEMMA BelowIsStack ==
  ASSUME op \in Seq(Value), NEW n \in Nat, n <= Len(op)
  PROVE  Below(n) \in Seq(Value) /\ Len(Below(n)) = Len(op) - n
BY BelowProperties DEF Below

\* Heights and pointers move together.
LEMMA HeightArithmetic ==
  ASSUME NEW base \in Nat, NEW h \in Nat, NEW len \in Nat,
         NEW pops \in Nat, NEW pushes \in Nat, base + h <= len
  PROVE  /\ h - pops + pushes \in Int
         /\ base + (h - pops + pushes) <= len - pops + pushes
OBVIOUS

LEMMA PopArithmetic ==
  ASSUME NEW base \in Nat, NEW h \in Nat, NEW len \in Nat, base + h <= len, h >= 1
  PROVE  /\ 1 <= len /\ h - 1 \in Nat /\ base + (h - 1) <= len - 1
         /\ base + h = len => base + (h - 1) = len - 1
OBVIOUS

LEMMA SlotArithmetic ==
  ASSUME NEW base \in Nat, NEW n \in Nat, NEW end \in Nat, base + n <= end,
         NEW i \in 0..(n - 1)
  PROVE  base + i + 1 \in 1..end
OBVIOUS

\* The handlers that pop and push without leaving the frame.
LEMMA GlobalStep ==
  ASSUME IInv, phase = "running",
         NEW pops \in Nat, NEW pushes \in Nat,
         Effect(prog, fn_idx, ip, pops, pushes),
         NEW target, NextInstr(prog.code, ip) = target,
         NEW s \in Seq(Value), Len(s) = Len(op) - pops + pushes,
         Continue(target, s),
         DOMAIN globals' = DOMAIN prog.globals,
         \A g \in DOMAIN globals' : globals'[g] \in Value
  PROVE  IInv'
<1> DEFINE k == prog.height[fn_idx][ip] - pops + pushes
<1>1. /\ prog.height[fn_idx][ip] \in Nat /\ op_ptr \in Nat /\ Len(op) \in Nat
      /\ op_ptr + prog.height[fn_idx][ip] <= Len(op)
      /\ prog.exact => op_ptr + prog.height[fn_idx][ip] = Len(op)
  BY AtInstruction
<1>2. /\ k \in Int /\ op_ptr + k <= Len(op) - pops + pushes
      /\ prog.exact => op_ptr + k = Len(op) - pops + pushes
  <2>1. k \in Int /\ op_ptr + k <= Len(op) - pops + pushes
    BY <1>1, HeightArithmetic
  <2>2. ASSUME prog.exact PROVE op_ptr + k = Len(op) - pops + pushes
    <3> DEFINE h == prog.height[fn_idx][ip]
               len == Len(op)
    <3>1. op_ptr + h = len
      BY <1>1, <2>2, Zenon
    <3>2. h \in Nat /\ len \in Nat /\ op_ptr \in Nat
      BY <1>1
    <3> HIDE DEF h, len
    <3>3. op_ptr + (h - pops + pushes) = len - pops + pushes
      BY <3>1, <3>2
    <3>4. QED
      BY <3>3 DEF h, len
  <2>3. QED
    BY <2>1, <2>2
<1>3. MayGo(prog, fn_idx, target, k)
  BY DEF Effect
<1> HIDE DEF k
<1>4. target \in Int
  <2>1. FuncValid(prog, Value, fn_idx) /\ prog.code \in Seq(Int)
    BY AtInstruction DEF IInv, CurrentOK, Valid
  <2>2. target \in DOMAIN prog.code
    BY <1>3, <2>1 DEF FuncValid, MayGo
  <2>3. QED
    BY <2>1, <2>2, LenProperties
<1>5. QED
  BY <1>2, <1>3, <1>4, ContinueKeeps

LEMMA StackStep ==
  ASSUME IInv, phase = "running",
         NEW pops \in Nat, NEW pushes \in Nat,
         Effect(prog, fn_idx, ip, pops, pushes),
         NEW target, NextInstr(prog.code, ip) = target,
         NEW s \in Seq(Value), Len(s) = Len(op) - pops + pushes,
         Continue(target, s), UNCHANGED globals
  PROVE  IInv'
<1>1. DOMAIN globals' = DOMAIN prog.globals /\ \A g \in DOMAIN globals' : globals'[g] \in Value
  BY DEF IInv, TypeOK
<1>2. QED
  BY <1>1, GlobalStep

LEMMA NopKeeps == IInv /\ Nop => IInv'
<1> SUFFICES ASSUME IInv, Nop PROVE IInv'
  OBVIOUS
<1>1. phase = "running" /\ prog.code[ip] \in {WASM_OP_NOP}
  BY DEF Nop, Fetch
<1>2. Effect(prog, fn_idx, ip, 0, 0)
  BY <1>1, AtInstruction DEF InstrValid
<1>3. NextInstr(prog.code, ip) = ip + 1
  BY <1>1, AtInstruction, InstructionLengths
<1>4. op \in Seq(Value) /\ Len(op) \in Nat
  BY <1>1, AtInstruction
<1>5. Len(op) = Len(op) - 0 + 0
  BY <1>4
<1>6. Continue(ip + 1, op) /\ UNCHANGED globals
  BY DEF Nop
<1>7. QED
  BY <1>1, <1>2, <1>3, <1>4, <1>5, <1>6, StackStep

LEMMA EnterBlockKeeps == IInv /\ EnterBlock => IInv'
<1> SUFFICES ASSUME IInv, EnterBlock PROVE IInv'
  OBVIOUS
<1>1. phase = "running" /\ prog.code[ip] \in BlockOps
  BY DEF EnterBlock, Fetch
<1>2. Effect(prog, fn_idx, ip, 0, 0)
  BY <1>1, AtInstruction DEF InstrValid
<1>3. NextInstr(prog.code, ip) = ip + 2
  BY <1>1, AtInstruction, InstructionLengths
<1>4. op \in Seq(Value) /\ Len(op) \in Nat
  BY <1>1, AtInstruction
<1>5. Len(op) = Len(op) - 0 + 0
  BY <1>4
<1>6. Continue(ip + 2, op) /\ UNCHANGED globals
  BY DEF EnterBlock
<1>7. QED
  BY <1>1, <1>2, <1>3, <1>4, <1>5, <1>6, StackStep

LEMMA EndBlockKeeps == IInv /\ EndBlock => IInv'
<1> SUFFICES ASSUME IInv, EndBlock PROVE IInv'
  OBVIOUS
<1>1. phase = "running" /\ prog.code[ip] \in {WASM_OP_END}
  BY DEF EndBlock, Fetch
<1>2. Effect(prog, fn_idx, ip, 0, 0)
  BY <1>1, AtInstruction DEF InstrValid, EndBlock, fn
<1>3. NextInstr(prog.code, ip) = ip + 1
  BY <1>1, AtInstruction, InstructionLengths
<1>4. op \in Seq(Value) /\ Len(op) \in Nat
  BY <1>1, AtInstruction
<1>5. Len(op) = Len(op) - 0 + 0
  BY <1>4
<1>6. Continue(ip + 1, op) /\ UNCHANGED globals
  BY DEF EndBlock
<1>7. QED
  BY <1>1, <1>2, <1>3, <1>4, <1>5, <1>6, StackStep

LEMMA DropKeeps == IInv /\ Drop => IInv'
<1> SUFFICES ASSUME IInv, Drop PROVE IInv'
  OBVIOUS
<1>1. phase = "running" /\ prog.code[ip] \in {WASM_OP_DROP}
  BY DEF Drop, Fetch
<1>2. Effect(prog, fn_idx, ip, 1, 0)
  BY <1>1, AtInstruction DEF InstrValid
<1>3. NextInstr(prog.code, ip) = ip + 1
  BY <1>1, AtInstruction, InstructionLengths
<1>4. op \in Seq(Value) /\ 1 <= Len(op)
  BY <1>1, <1>2, AtInstruction DEF Effect
<1>5. Below(1) \in Seq(Value) /\ Len(Below(1)) = Len(op) - 1 + 0
  BY <1>4, BelowIsStack, LenProperties
<1>6. Continue(ip + 1, Below(1)) /\ UNCHANGED globals
  BY DEF Drop
<1> HIDE DEF Below
<1>7. QED
  BY <1>1, <1>2, <1>3, <1>5, <1>6, StackStep

LEMMA SelectKeeps == IInv /\ Select => IInv'
<1> SUFFICES ASSUME IInv, Select PROVE IInv'
  OBVIOUS
<1>1. phase = "running" /\ prog.code[ip] \in {WASM_OP_SELECT}
  BY DEF Select, Fetch
<1>2. Effect(prog, fn_idx, ip, 3, 1)
  BY <1>1, AtInstruction DEF InstrValid
<1>3. NextInstr(prog.code, ip) = ip + 1
  BY <1>1, AtInstruction, InstructionLengths
<1>4. op \in Seq(Value) /\ 3 <= Len(op)
  BY <1>1, <1>2, AtInstruction DEF Effect
<1>5. Below(3) \in Seq(Value) /\ Len(Below(3)) = Len(op) - 3
  BY <1>4, BelowIsStack
<1>6. Operand(1) \in Value /\ Operand(2) \in Value
  BY <1>4, OperandIsValue
<1> DEFINE s == Append(Below(3), IF Operand(0) # 0 THEN Operand(2) ELSE Operand(1))
<1>7. s \in Seq(Value) /\ Len(s) = Len(op) - 3 + 1
  BY <1>4, <1>5, <1>6, AppendProperties, LenProperties
<1>8. Continue(ip + 1, s) /\ UNCHANGED globals
  BY DEF Select
<1> HIDE DEF s
<1>9. QED
  BY <1>1, <1>2, <1>3, <1>4, <1>7, <1>8, StackStep

LEMMA ConstKeeps == IInv /\ Const => IInv'
<1> SUFFICES ASSUME IInv, Const PROVE IInv'
  OBVIOUS
<1>1. phase = "running" /\ prog.code[ip] \in ConstOps
  BY DEF Const, Fetch
<1>2. Effect(prog, fn_idx, ip, 0, 1)
  BY <1>1, AtInstruction DEF InstrValid
<1>3. NextInstr(prog.code, ip) = ip + 2
  BY <1>1, AtInstruction, InstructionLengths
<1>4. op \in Seq(Value) /\ 0 <= Len(op)
  BY <1>1, <1>2, AtInstruction DEF Effect
<1>5. Imm(1) \in Value
  BY <1>1, AtInstruction DEF InstrValid, Imm
<1> DEFINE s == Append(op, Imm(1))
<1>6. s \in Seq(Value) /\ Len(s) = Len(op) - 0 + 1
  BY <1>4, <1>5, AppendProperties, LenProperties
<1>7. Continue(ip + 2, s) /\ UNCHANGED globals
  BY DEF Const
<1> HIDE DEF s
<1>8. QED
  BY <1>1, <1>2, <1>3, <1>4, <1>6, <1>7, StackStep

LEMMA GlobalGetKeeps == IInv /\ GlobalGet => IInv'
<1> SUFFICES ASSUME IInv, GlobalGet PROVE IInv'
  OBVIOUS
<1>1. phase = "running" /\ prog.code[ip] \in {WASM_OP_GLOBAL_GET}
  BY DEF GlobalGet, Fetch
<1>2. Effect(prog, fn_idx, ip, 0, 1)
  BY <1>1, AtInstruction DEF InstrValid, GlobalOps
<1>3. NextInstr(prog.code, ip) = ip + 2
  BY <1>1, AtInstruction, InstructionLengths DEF GlobalOps
<1>4. op \in Seq(Value) /\ 0 <= Len(op)
  BY <1>1, <1>2, AtInstruction DEF Effect
<1>5. globals[Imm(1)] \in Value
  BY <1>1, AtInstruction DEF InstrValid, Imm, GlobalOps, IInv, TypeOK
<1> DEFINE s == Append(op, globals[Imm(1)])
<1>6. s \in Seq(Value) /\ Len(s) = Len(op) - 0 + 1
  BY <1>4, <1>5, AppendProperties, LenProperties
<1>7. Continue(ip + 2, s) /\ UNCHANGED globals
  BY DEF GlobalGet
<1> HIDE DEF s
<1>8. QED
  BY <1>1, <1>2, <1>3, <1>4, <1>6, <1>7, StackStep

LEMMA GlobalSetKeeps == IInv /\ GlobalSet => IInv'
<1> SUFFICES ASSUME IInv, GlobalSet PROVE IInv'
  OBVIOUS
<1>1. phase = "running" /\ prog.code[ip] \in {WASM_OP_GLOBAL_SET}
  BY DEF GlobalSet, Fetch
<1>2. Effect(prog, fn_idx, ip, 1, 0)
  BY <1>1, AtInstruction DEF InstrValid, GlobalOps
<1>3. NextInstr(prog.code, ip) = ip + 2
  BY <1>1, AtInstruction, InstructionLengths DEF GlobalOps
<1>4. op \in Seq(Value) /\ 1 <= Len(op)
  BY <1>1, <1>2, AtInstruction DEF Effect
<1>5. Below(1) \in Seq(Value) /\ Len(Below(1)) = Len(op) - 1
  BY <1>4, BelowIsStack
<1>6. Operand(0) \in Value
  BY <1>4, OperandIsValue
<1>7. DOMAIN globals' = DOMAIN prog.globals /\ \A g \in DOMAIN globals' : globals'[g] \in Value
  BY <1>6 DEF GlobalSet, IInv, TypeOK
<1>8. QED
  BY <1>1, <1>2, <1>3, <1>4, <1>5, <1>7, GlobalStep DEF GlobalSet

\* The local an instruction names lies below the operands.
LEMMA LocalBelowOperands ==
  ASSUME IInv, phase = "running", prog.code[ip] \in LocalOps
  PROVE  locals + Imm(1) + 1 \in 1..op_ptr
<1>1. Imm(1) \in 0..(Slots(prog, fn_idx) - 1)
  BY AtInstruction DEF InstrValid, Imm
<1>2. /\ locals \in Nat /\ op_ptr \in Nat /\ Slots(prog, fn_idx) \in Nat
      /\ locals + Slots(prog, fn_idx) <= op_ptr
  BY AtInstruction
<1> HIDE DEF Imm
<1>3. QED
  BY <1>1, <1>2, SlotArithmetic

LEMMA LocalGetKeeps == IInv /\ LocalGet => IInv'
<1> SUFFICES ASSUME IInv, LocalGet PROVE IInv'
  OBVIOUS
<1>1. phase = "running" /\ prog.code[ip] \in {WASM_OP_LOCAL_GET}
  BY DEF LocalGet, Fetch
<1>2. Effect(prog, fn_idx, ip, 0, 1)
  BY <1>1, AtInstruction DEF InstrValid, LocalOps
<1>3. NextInstr(prog.code, ip) = ip + 2
  BY <1>1, AtInstruction, InstructionLengths DEF LocalOps
<1>4. op \in Seq(Value) /\ 0 <= Len(op)
  BY <1>1, <1>2, AtInstruction DEF Effect
<1>5. locals + Imm(1) + 1 \in 1..Len(op)
  <2>1. locals + Imm(1) + 1 \in 1..op_ptr
    BY <1>1, LocalBelowOperands DEF LocalOps
  <2>2. op_ptr \in Nat /\ Len(op) \in Nat /\ op_ptr <= Len(op)
    BY <1>1, AtInstruction
  <2>3. QED
    BY <2>1, <2>2
<1>6. op[locals + Imm(1) + 1] \in Value
  BY <1>4, <1>5, ElementOfSeq
<1> DEFINE s == Append(op, op[locals + Imm(1) + 1])
<1>7. s \in Seq(Value) /\ Len(s) = Len(op) - 0 + 1
  BY <1>4, <1>6, AppendProperties, LenProperties
<1>8. Continue(ip + 2, s) /\ UNCHANGED globals
  BY DEF LocalGet
<1> HIDE DEF s
<1>9. QED
  BY <1>1, <1>2, <1>3, <1>4, <1>7, <1>8, StackStep

LEMMA LocalSetKeeps == IInv /\ LocalSet => IInv'
<1> SUFFICES ASSUME IInv, LocalSet PROVE IInv'
  OBVIOUS
<1>1. phase = "running" /\ prog.code[ip] \in {WASM_OP_LOCAL_SET}
  BY DEF LocalSet, Fetch
<1>2. Effect(prog, fn_idx, ip, 1, 0)
  BY <1>1, AtInstruction DEF InstrValid, LocalOps
<1>3. NextInstr(prog.code, ip) = ip + 2
  BY <1>1, AtInstruction, InstructionLengths DEF LocalOps
<1>4. op \in Seq(Value) /\ 1 <= Len(op)
  BY <1>1, <1>2, AtInstruction DEF Effect
<1>5. Below(1) \in Seq(Value) /\ Len(Below(1)) = Len(op) - 1
  BY <1>4, BelowIsStack
<1>6. Operand(0) \in Value
  BY <1>4, OperandIsValue
<1>7. locals + Imm(1) + 1 \in 1..Len(Below(1))
  <2>1. locals + Imm(1) + 1 \in 1..op_ptr
    BY <1>1, LocalBelowOperands DEF LocalOps
  <2>2. /\ op_ptr \in Nat /\ Len(op) \in Nat /\ prog.height[fn_idx][ip] \in Nat
        /\ op_ptr + prog.height[fn_idx][ip] <= Len(op)
    BY <1>1, AtInstruction
  <2>3. 1 <= prog.height[fn_idx][ip]
    BY <1>2 DEF Effect
  <2>4. op_ptr <= Len(op) - 1
    BY <2>2, <2>3
  <2>5. QED
    BY <1>5, <2>1, <2>2, <2>4
<1> DEFINE s == [Below(1) EXCEPT ![locals + Imm(1) + 1] = Operand(0)]
<1>8. s \in Seq(Value) /\ Len(s) = Len(op) - 1 + 0
  BY <1>4, <1>5, <1>6, <1>7, ExceptSeq, LenProperties
<1>9. Continue(ip + 2, s) /\ UNCHANGED globals
  BY DEF LocalSet
<1> HIDE DEF s
<1>10. QED
  BY <1>1, <1>2, <1>3, <1>4, <1>8, <1>9, StackStep

LEMMA LocalTeeKeeps == IInv /\ LocalTee => IInv'
<1> SUFFICES ASSUME IInv, LocalTee PROVE IInv'
  OBVIOUS
<1>1. phase = "running" /\ prog.code[ip] \in {WASM_OP_LOCAL_TEE}
  BY DEF LocalTee, Fetch
<1>2. Effect(prog, fn_idx, ip, 1, 1)
  BY <1>1, AtInstruction DEF InstrValid, LocalOps
<1>3. NextInstr(prog.code, ip) = ip + 2
  BY <1>1, AtInstruction, InstructionLengths DEF LocalOps
<1>4. op \in Seq(Value) /\ 1 <= Len(op)
  BY <1>1, <1>2, AtInstruction DEF Effect
<1>5. Operand(0) \in Value
  BY <1>4, OperandIsValue
<1>6. locals + Imm(1) + 1 \in 1..Len(op)
  <2>1. locals + Imm(1) + 1 \in 1..op_ptr
    BY <1>1, LocalBelowOperands DEF LocalOps
  <2>2. op_ptr \in Nat /\ Len(op) \in Nat /\ op_ptr <= Len(op)
    BY <1>1, AtInstruction
  <2>3. QED
    BY <2>1, <2>2
<1> DEFINE s == [op EXCEPT ![locals + Imm(1) + 1] = Operand(0)]
<1>7. s \in Seq(Value) /\ Len(s) = Len(op) - 1 + 1
  BY <1>4, <1>5, <1>6, ExceptSeq, LenProperties
<1>8. Continue(ip + 2, s) /\ UNCHANGED globals
  BY DEF LocalTee
<1> HIDE DEF s
<1>9. QED
  BY <1>1, <1>2, <1>3, <1>4, <1>7, <1>8, StackStep

LEMMA LoadKeeps == IInv /\ Load => IInv'
<1> SUFFICES ASSUME IInv, Load PROVE IInv'
  OBVIOUS
<1>1. phase = "running" /\ prog.code[ip] \in LoadOps
  BY DEF Load, Fetch
<1>2. Effect(prog, fn_idx, ip, 1, 1)
  BY <1>1, AtInstruction DEF InstrValid
<1>3. NextInstr(prog.code, ip) = ip + 3
  BY <1>1, AtInstruction, InstructionLengths
<1>4. op \in Seq(Value) /\ 1 <= Len(op)
  BY <1>1, <1>2, AtInstruction DEF Effect
<1>5. Below(1) \in Seq(Value) /\ Len(Below(1)) = Len(op) - 1
  BY <1>4, BelowIsStack
<1>6. CASE DoTrap
  BY <1>6, TrapKeeps
<1>7. ASSUME NEW v \in Value, Continue(ip + 3, Append(Below(1), v)), UNCHANGED globals
      PROVE  IInv'
  <2> DEFINE s == Append(Below(1), v)
  <2>1. s \in Seq(Value) /\ Len(s) = Len(op) - 1 + 1 /\ Continue(ip + 3, s)
    BY <1>4, <1>5, <1>7, AppendProperties, LenProperties
  <2> HIDE DEF s
  <2>2. QED
    BY <1>1, <1>2, <1>3, <1>7, <2>1, StackStep
<1>8. QED
  BY <1>6, <1>7 DEF Load

LEMMA StoreKeeps == IInv /\ Store => IInv'
<1> SUFFICES ASSUME IInv, Store PROVE IInv'
  OBVIOUS
<1>1. phase = "running" /\ prog.code[ip] \in StoreOps
  BY DEF Store, Fetch
<1>2. Effect(prog, fn_idx, ip, 2, 0)
  BY <1>1, AtInstruction DEF InstrValid
<1>3. NextInstr(prog.code, ip) = ip + 3
  BY <1>1, AtInstruction, InstructionLengths
<1>4. op \in Seq(Value) /\ 2 <= Len(op)
  BY <1>1, <1>2, AtInstruction DEF Effect
<1>5. Below(2) \in Seq(Value) /\ Len(Below(2)) = Len(op) - 2
  BY <1>4, BelowIsStack
<1>6. CASE DoTrap
  BY <1>6, TrapKeeps
<1>7. CASE Continue(ip + 3, Below(2)) /\ UNCHANGED globals
  <2> DEFINE s == Below(2)
  <2>1. s \in Seq(Value) /\ Len(s) = Len(op) - 2 + 0 /\ Continue(ip + 3, s)
    BY <1>4, <1>5, <1>7, LenProperties
  <2> HIDE DEF s
  <2>2. QED
    BY <1>1, <1>2, <1>3, <1>7, <2>1, StackStep
<1>8. QED
  BY <1>6, <1>7 DEF Store

LEMMA UnaryOpKeeps == IInv /\ UnaryOp => IInv'
<1> SUFFICES ASSUME IInv, UnaryOp PROVE IInv'
  OBVIOUS
<1>1. phase = "running" /\ prog.code[ip] \in UnaryOps
  BY DEF UnaryOp, Fetch
<1>2. Effect(prog, fn_idx, ip, 1, 1)
  BY <1>1, AtInstruction DEF InstrValid
<1>3. NextInstr(prog.code, ip) = ip + 1
  BY <1>1, AtInstruction, InstructionLengths
<1>4. op \in Seq(Value) /\ 1 <= Len(op)
  BY <1>1, <1>2, AtInstruction DEF Effect
<1>5. Below(1) \in Seq(Value) /\ Len(Below(1)) = Len(op) - 1
  BY <1>4, BelowIsStack
<1> DEFINE r == Unary(prog.code[ip], Operand(0))
<1>6. Operand(0) \in Value
  BY <1>4, OperandIsValue
<1>7. r \in Value \cup {Trap}
  BY <1>1, <1>6, OperatorAssumption
<1>8. CASE r = Trap
  BY <1>8, TrapKeeps DEF UnaryOp
<1>9. CASE r # Trap
  <2>1. r \in Value /\ Continue(ip + 1, Append(Below(1), r)) /\ UNCHANGED globals
    BY <1>7, <1>9 DEF UnaryOp
  <2> HIDE DEF r
  <2> DEFINE s == Append(Below(1), r)
  <2>2. s \in Seq(Value) /\ Len(s) = Len(op) - 1 + 1 /\ Continue(ip + 1, s)
    BY <1>4, <1>5, <2>1, AppendProperties, LenProperties
  <2> HIDE DEF s
  <2>3. QED
    BY <1>1, <1>2, <1>3, <2>1, <2>2, StackStep
<1>10. QED
  BY <1>8, <1>9

LEMMA BinaryOpKeeps == IInv /\ BinaryOp => IInv'
<1> SUFFICES ASSUME IInv, BinaryOp PROVE IInv'
  OBVIOUS
<1>1. phase = "running" /\ prog.code[ip] \in BinaryOps
  BY DEF BinaryOp, Fetch
<1>2. Effect(prog, fn_idx, ip, 2, 1)
  BY <1>1, AtInstruction DEF InstrValid
<1>3. NextInstr(prog.code, ip) = ip + 1
  BY <1>1, AtInstruction, InstructionLengths
<1>4. op \in Seq(Value) /\ 2 <= Len(op)
  BY <1>1, <1>2, AtInstruction DEF Effect
<1>5. Below(2) \in Seq(Value) /\ Len(Below(2)) = Len(op) - 2
  BY <1>4, BelowIsStack
<1> DEFINE r == Binary(prog.code[ip], Operand(1), Operand(0))
<1>6. Operand(0) \in Value /\ Operand(1) \in Value
  BY <1>4, OperandIsValue
<1>7. r \in Value \cup {Trap}
  BY <1>1, <1>6, OperatorAssumption
<1>8. CASE r = Trap
  BY <1>8, TrapKeeps DEF BinaryOp
<1>9. CASE r # Trap
  <2>1. r \in Value /\ Continue(ip + 1, Append(Below(2), r)) /\ UNCHANGED globals
    BY <1>7, <1>9 DEF BinaryOp
  <2> HIDE DEF r
  <2> DEFINE s == Append(Below(2), r)
  <2>2. s \in Seq(Value) /\ Len(s) = Len(op) - 2 + 1 /\ Continue(ip + 1, s)
    BY <1>4, <1>5, <2>1, AppendProperties, LenProperties
  <2> HIDE DEF s
  <2>3. QED
    BY <1>1, <1>2, <1>3, <2>1, <2>2, StackStep
<1>10. QED
  BY <1>8, <1>9

-----------------------------------------------------------------------------
\* Branches go where the offset behind their label says, with the operands
\* that are left.
LEMMA BranchStep ==
  ASSUME IInv, phase = "running", NEW slot \in Int, NEW n \in Nat,
         n <= prog.height[fn_idx][ip],
         MayGo(prog, fn_idx, OffsetTarget(prog, slot),
               prog.height[fn_idx][ip] - n),
         NEW s \in Seq(Value), Len(s) = Len(op) - n,
         Continue(slot + 1 + prog.code[slot], s), UNCHANGED globals
  PROVE  IInv'
<1> DEFINE k == prog.height[fn_idx][ip] - n
           target == slot + 1 + prog.code[slot]
<1>1. /\ prog.height[fn_idx][ip] \in Nat /\ op_ptr \in Nat /\ Len(op) \in Nat
      /\ op_ptr + prog.height[fn_idx][ip] <= Len(op)
      /\ prog.exact => op_ptr + prog.height[fn_idx][ip] = Len(op)
  BY AtInstruction
<1>2. k \in Int /\ op_ptr + k <= Len(s) /\ (prog.exact => op_ptr + k = Len(s))
  <2>1. k \in Int /\ op_ptr + k <= Len(s)
    BY <1>1
  <2>2. ASSUME prog.exact PROVE op_ptr + k = Len(s)
    <3> DEFINE h == prog.height[fn_idx][ip]
               len == Len(op)
    <3>1. op_ptr + h = len
      BY <1>1, <2>2, Zenon
    <3>2. h \in Nat /\ len \in Nat /\ op_ptr \in Nat /\ Len(s) = len - n
      BY <1>1
    <3> HIDE DEF h, len
    <3>3. op_ptr + (h - n) = Len(s)
      BY <3>1, <3>2
    <3>4. QED
      BY <3>3 DEF h
  <2>3. QED
    BY <2>1, <2>2
<1>3. MayGo(prog, fn_idx, target, k)
  BY DEF OffsetTarget
<1>4. target \in Int
  <2>1. FuncValid(prog, Value, fn_idx) /\ prog.code \in Seq(Int)
    BY AtInstruction DEF IInv, CurrentOK, Valid
  <2>2. QED
    BY <1>3, <2>1, LenProperties DEF FuncValid, MayGo
<1>5. DOMAIN globals' = DOMAIN prog.globals /\ \A g \in DOMAIN globals' : globals'[g] \in Value
  BY DEF IInv, TypeOK
<1> HIDE DEF k, target
<1>6. Continue(target, s)
  BY DEF target
<1>7. QED
  BY <1>2, <1>3, <1>4, <1>5, <1>6, ContinueKeeps

LEMMA BrKeeps == IInv /\ Br => IInv'
<1> SUFFICES ASSUME IInv, Br PROVE IInv'
  OBVIOUS
<1>1. phase = "running" /\ prog.code[ip] = WASM_OP_BR
  BY DEF Br, Fetch
<1>2. MayGo(prog, fn_idx, OffsetTarget(prog, ip + 1), prog.height[fn_idx][ip])
  BY <1>1, AtInstruction DEF InstrValid
<1>3. ip \in Int /\ prog.height[fn_idx][ip] \in Nat /\ op \in Seq(Value) /\ Len(op) \in Nat
  BY <1>1, AtInstruction
<1>4. Continue((ip + 1) + 1 + prog.code[ip + 1], op) /\ UNCHANGED globals
  BY <1>3 DEF Br, Imm
<1>5. QED
  BY <1>1, <1>2, <1>3, <1>4, BranchStep

LEMMA BrIfKeeps == IInv /\ BrIf => IInv'
<1> SUFFICES ASSUME IInv, BrIf PROVE IInv'
  OBVIOUS
<1>1. phase = "running" /\ prog.code[ip] = WASM_OP_BR_IF
  BY DEF BrIf, Fetch
<1>2. /\ Effect(prog, fn_idx, ip, 1, 0)
      /\ MayGo(prog, fn_idx, OffsetTarget(prog, ip + 1), prog.height[fn_idx][ip] - 1)
  BY <1>1, AtInstruction DEF InstrValid
<1>3. ip \in Int /\ NextInstr(prog.code, ip) = ip + 2
  BY <1>1, AtInstruction, InstructionLengths
<1>4. op \in Seq(Value) /\ Len(op) \in Nat /\ 1 <= prog.height[fn_idx][ip] /\ 1 <= Len(op)
  BY <1>1, <1>2, AtInstruction DEF Effect
<1>5. Below(1) \in Seq(Value) /\ Len(Below(1)) = Len(op) - 1
  BY <1>4, BelowIsStack
<1>6. CASE Operand(0) # 0
  <2>1. Continue((ip + 1) + 1 + prog.code[ip + 1], Below(1)) /\ UNCHANGED globals
    BY <1>3, <1>6 DEF BrIf, Imm
  <2>2. QED
    BY <1>1, <1>2, <1>3, <1>4, <1>5, <2>1, BranchStep
<1>7. CASE Operand(0) = 0
  <2>1. Continue(NextInstr(prog.code, ip), Below(1)) /\ UNCHANGED globals
    BY <1>3, <1>7 DEF BrIf
  <2>2. Len(Below(1)) = Len(op) - 1 + 0
    BY <1>4, <1>5, LenProperties
  <2> HIDE DEF Below
  <2>3. QED
    BY <1>1, <1>2, <1>5, <2>1, <2>2, StackStep
<1>8. QED
  BY <1>6, <1>7

LEMMA BrTableKeeps == IInv /\ BrTable => IInv'
<1> SUFFICES ASSUME IInv, BrTable PROVE IInv'
  OBVIOUS
<1>1. phase = "running" /\ prog.code[ip] = WASM_OP_BR_TABLE
  BY DEF BrTable, Fetch
<1>2. /\ prog.height[fn_idx][ip] >= 1
      /\ prog.code[ip + 1] \in Nat
      /\ \A i \in 0..prog.code[ip + 1] :
           MayGo(prog, fn_idx, OffsetTarget(prog, ip + 2 + i), prog.height[fn_idx][ip] - 1)
  BY <1>1, AtInstruction DEF InstrValid
<1>3. /\ ip \in Int /\ prog.height[fn_idx][ip] \in Nat
      /\ op \in Seq(Value) /\ Len(op) \in Nat /\ 1 <= Len(op)
  BY <1>1, <1>2, AtInstruction
<1>4. Below(1) \in Seq(Value) /\ Len(Below(1)) = Len(op) - 1
  BY <1>3, BelowIsStack
<1>5. Operand(0) \in Nat
  <2>1. Operand(0) \in Value
    BY <1>3, OperandIsValue
  <2>2. QED
    BY <2>1, ValueAssumption
<1>6. PICK i \in 0..prog.code[ip + 1] :
        /\ Continue((ip + 2 + i) + 1 + prog.code[ip + 2 + i], Below(1))
        /\ UNCHANGED globals
  BY <1>2, <1>5 DEF BrTable, Imm
<1>7. QED
  BY <1>1, <1>2, <1>3, <1>4, <1>6, BranchStep

-----------------------------------------------------------------------------
\* Entering the bottom frame: the arguments fill the parameters, or, for the
\* start function, more than its parameters.
LEMMA EnterBottomKeeps ==
  ASSUME IInv, NEW f, f \in DOMAIN prog.funcs, f >= prog.num_imports,
         prog.funcs[f].num_params <= Len(prog.args), EnterBottom(f)
  PROVE  IInv'
<1>1. Valid(prog, Value) /\ prog.args \in Seq(Value) /\ Len(prog.args) \in Nat
  BY ProgramAssumption, LenProperties DEF IInv, Valid
<1>2. /\ prog.funcs[f].num_params \in Nat /\ prog.funcs[f].num_locals \in Nat
      /\ FuncValid(prog, Value, f)
  BY <1>1 DEF Valid
<1>3. /\ prog.funcs[f].code_start \in DOMAIN prog.height[f]
      /\ prog.height[f][prog.funcs[f].code_start] = 0
      /\ prog.funcs[f].code_start \in Int
  <2>1. prog.funcs[f].code_start \in DOMAIN prog.code /\ prog.code \in Seq(Int)
    BY <1>1, <1>2 DEF FuncValid, Valid
  <2>2. QED
    BY <1>2, <2>1, LenProperties DEF FuncValid
<1>4. /\ op' \in Seq(Value) /\ Len(op') \in Nat
      /\ Len(op') = Len(prog.args) + prog.funcs[f].num_locals
  <2>1. op' = prog.args \o Zeros(prog.funcs[f].num_locals)
    BY DEF EnterBottom
  <2>2. QED
    BY <1>1, <1>2, <2>1, WithLocals
<1>5. TypeOK'
  BY <1>3, <1>4 DEF EnterBottom, IInv, TypeOK
<1>6. CurrentOK'
  BY <1>1, <1>2, <1>3, <1>4 DEF EnterBottom, CurrentOK, Slots
<1>7. CallersOK'
  BY DEF EnterBottom, CallersOK
<1>8. QED
  BY <1>5, <1>6, <1>7 DEF EnterBottom, IInv

LEMMA StartInitKeeps == IInv /\ StartInit => IInv'
<1> SUFFICES ASSUME IInv, StartInit PROVE IInv'
  OBVIOUS
<1>1. Valid(prog, Value) /\ prog.has_start
  BY ProgramAssumption DEF IInv, StartInit
<1>2. /\ prog.start_idx \in DOMAIN prog.funcs /\ prog.start_idx >= prog.num_imports
      /\ prog.funcs[prog.start_idx].num_params <= Len(prog.args)
  BY <1>1, LenProperties DEF Valid
<1>3. QED
  BY <1>2, EnterBottomKeeps DEF StartInit

LEMMA MainInitKeeps == IInv /\ MainInit => IInv'
<1> SUFFICES ASSUME IInv, MainInit PROVE IInv'
  OBVIOUS
<1>1. Valid(prog, Value)
  BY ProgramAssumption DEF IInv
<1>2. /\ prog.main_idx \in DOMAIN prog.funcs /\ prog.main_idx >= prog.num_imports
      /\ prog.funcs[prog.main_idx].num_params <= Len(prog.args)
  BY <1>1 DEF Valid, MainInit
<1>3. QED
  BY <1>2, EnterBottomKeeps DEF MainInit

LEMMA MainRejectKeeps == IInv /\ MainReject => IInv'
<1> SUFFICES ASSUME IInv, MainReject PROVE IInv'
  OBVIOUS
<1>1. prog.main_idx \in DOMAIN prog.funcs
  BY ProgramAssumption DEF IInv, Valid
<1>2. <<>> \in Seq(Value) /\ <<>> \in Seq(Context)
  BY EmptySeq
<1>3. QED
  BY <1>1, <1>2 DEF IInv, MainReject, TypeOK, Stopped

LEMMA OverrunKeeps == IInv /\ Overrun => IInv'
BY DEF IInv, Overrun, TypeOK, Stopped

-----------------------------------------------------------------------------
\* A call with k operands beyond op_ptr that the callee's type allows: what
\* lies below its arguments.
LEMMA CallOperands ==
  ASSUME IInv, phase = "running", NEW g \in DOMAIN prog.funcs,
         NEW stack \in Seq(Value), NEW k \in Nat, op_ptr + k <= Len(stack),
         prog.funcs[g].num_params <= k
  PROVE  /\ prog.funcs[g].num_params \in Nat
         /\ prog.funcs[g].num_results \in 0..1
         /\ prog.funcs[g].num_locals \in Nat
         /\ Len(stack) \in Nat /\ op_ptr \in Nat
         /\ op_ptr <= Len(stack) - prog.funcs[g].num_params
<1>1. /\ prog.funcs[g].num_params \in Nat
      /\ prog.funcs[g].num_results \in 0..1
      /\ prog.funcs[g].num_locals \in Nat
  BY ProgramAssumption DEF IInv, Valid
<1>2. Len(stack) \in Nat /\ op_ptr \in Nat
  BY LenProperties DEF IInv, TypeOK
<1>3. QED
  BY <1>1, <1>2

LEMMA CallImportKeeps ==
  ASSUME IInv, phase = "running", NEW g \in DOMAIN prog.funcs,
         NEW stack \in Seq(Value), NEW k \in Nat, op_ptr + k <= Len(stack),
         prog.exact => op_ptr + k = Len(stack),
         NEW ret \in Int, MayCall(prog, fn_idx, prog.funcs[g], ret, k),
         CallImport(g, stack, ret)
  PROVE  IInv'
<1> DEFINE np == prog.funcs[g].num_params
           nr == prog.funcs[g].num_results
           rest == SubSeq(stack, 1, Len(stack) - np)
<1>1. np <= k /\ MayGo(prog, fn_idx, ret, k - np + nr)
  BY DEF MayCall
<1>2. np \in Nat /\ nr \in 0..1 /\ Len(stack) \in Nat /\ op_ptr \in Nat
  BY <1>1, CallOperands
<1>3. np <= Len(stack)
  BY <1>1, <1>2
<1>4. rest \in Seq(Value) /\ Len(rest) = Len(stack) - np
  BY <1>2, <1>3, BelowProperties
<1>5. CASE DoTrap
  BY <1>5, TrapKeeps
<1>6. ASSUME NEW v \in Value,
             Continue(ret, IF nr # 0 THEN Append(rest, v) ELSE rest),
             UNCHANGED globals
      PROVE  IInv'
  <2> HIDE DEF rest
  <2> DEFINE s == IF nr # 0 THEN Append(rest, v) ELSE rest
  <2>1. s \in Seq(Value) /\ Len(s) = Len(stack) - np + nr
    <3>1. /\ Append(rest, v) \in Seq(Value)
          /\ Len(Append(rest, v)) = Len(stack) - np + 1
      BY <1>4, <1>6, AppendProperties, SMTT(60)
    <3> HIDE DEF np, nr
    <3>2. QED
      BY <1>2, <1>4, <3>1, SMTT(60)
  <2>2. Continue(ret, s)
    BY <1>6
  <2> HIDE DEF s, np, nr
  <2>3. /\ k - np + nr \in Int /\ op_ptr + (k - np + nr) <= Len(s)
        /\ prog.exact => op_ptr + (k - np + nr) = Len(s)
    BY <1>2, <2>1
  <2>4. DOMAIN globals' = DOMAIN prog.globals /\ \A x \in DOMAIN globals' : globals'[x] \in Value
    BY <1>6 DEF IInv, TypeOK
  <2>5. QED
    BY <1>1, <2>1, <2>2, <2>3, <2>4, ContinueKeeps
<1>7. QED
  BY <1>5, <1>6 DEF CallImport

LEMMA CallFuncKeeps ==
  ASSUME IInv, phase = "running", NEW g \in DOMAIN prog.funcs,
         NEW stack \in Seq(Value), NEW k \in Nat, op_ptr + k <= Len(stack),
         prog.exact => op_ptr + k = Len(stack),
         NEW ret \in Int, MayCall(prog, fn_idx, prog.funcs[g], ret, k),
         CallFunc(g, stack, ret)
  PROVE  IInv'
<1> DEFINE np == prog.funcs[g].num_params
           nr == prog.funcs[g].num_results
           nl == prog.funcs[g].num_locals
           ctx == [ret_addr |-> ret, fn_idx |-> fn_idx,
                   locals |-> locals, op_ptr |-> op_ptr]
<1>1. np <= k /\ MayGo(prog, fn_idx, ret, k - np + nr)
  BY DEF MayCall
<1>2. /\ np \in Nat /\ nr \in 0..1 /\ nl \in Nat /\ Len(stack) \in Nat
      /\ op_ptr \in Nat /\ op_ptr <= Len(stack) - np
  BY <1>1, CallOperands
<1>3. Valid(prog, Value) /\ g >= prog.num_imports /\ FuncValid(prog, Value, g)
  BY ProgramAssumption DEF IInv, Valid, CallFunc
<1>4. /\ prog.funcs[g].code_start \in DOMAIN prog.height[g]
      /\ prog.height[g][prog.funcs[g].code_start] = 0
      /\ prog.funcs[g].code_start \in Int
  <2>1. prog.funcs[g].code_start \in DOMAIN prog.code /\ prog.code \in Seq(Int)
    BY <1>3 DEF FuncValid, Valid
  <2>2. QED
    BY <1>3, <2>1, LenProperties DEF FuncValid
<1>5. op' \in Seq(Value) /\ Len(op') = Len(stack) + nl
  <2>1. op' = stack \o Zeros(nl)
    BY DEF CallFunc
  <2>2. QED
    BY <1>2, <2>1, WithLocals
<1>6. ctx \in Context
  <2>1. fn_idx \in Nat
    BY ProgramAssumption DEF IInv, CurrentOK, Valid
  <2>2. locals \in Nat /\ op_ptr \in Nat
    BY DEF IInv, TypeOK
  <2>3. QED
    BY <2>1, <2>2 DEF Context
<1>7. /\ frames \in Seq(Context) /\ frames' = Append(frames, ctx)
      /\ frames' \in Seq(Context) /\ Len(frames) \in Nat
      /\ Len(frames') = Len(frames) + 1
      /\ frames'[Len(frames) + 1] = ctx
      /\ \A j \in 1..Len(frames) : frames'[j] = frames[j]
  <2> HIDE DEF ctx
  <2>1. frames \in Seq(Context) /\ frames' = Append(frames, ctx)
    BY DEF IInv, TypeOK, CallFunc, ctx
  <2>2. QED
    BY <1>6, <2>1, AppendProperties, LenProperties
<1>8. TypeOK'
  <2>1. locals' \in Nat /\ op_ptr' \in Nat
    <3>1. locals' = Len(stack) - np /\ op_ptr' = Len(op')
      BY DEF CallFunc
    <3> HIDE DEF ctx, np, nr, nl
    <3>2. QED
      BY <1>2, <1>5, <3>1
  <2>2. /\ prog' = prog /\ phase' = phase /\ globals' = globals
        /\ return_result' = return_result /\ fn_idx' = g
        /\ ip' = prog.funcs[g].code_start
    BY DEF CallFunc
  <2> HIDE DEF ctx, np, nr, nl
  <2>3. QED
    BY <1>4, <1>5, <1>7, <2>1, <2>2 DEF IInv, TypeOK
<1>9. CurrentOK'
  <2>1. /\ prog' = prog /\ fn_idx' = g /\ ip' = prog.funcs[g].code_start
        /\ locals' = Len(stack) - np /\ op_ptr' = Len(op')
    BY DEF CallFunc
  <2>2. locals' + Slots(prog, g) <= op_ptr'
    BY <1>2, <1>5, <2>1 DEF Slots
  <2>3. QED
    BY <1>2, <1>3, <1>4, <1>5, <2>1, <2>2 DEF CurrentOK
<1>10. SuspendedOK(prog', ctx, locals', fn_idx') /\ prog' = prog
  <2>1. /\ prog.height[fn_idx][ret] \in Nat /\ prog.height[fn_idx][ret] <= k - np + nr
        /\ prog.exact => prog.height[fn_idx][ret] = k - np + nr
    BY <1>1, <1>3 DEF IInv, CurrentOK, Valid, FuncValid, MayGo
  <2>2. /\ op_ptr + prog.height[fn_idx][ret] <= Len(stack) - np + nr
        /\ prog.exact => op_ptr + prog.height[fn_idx][ret] = Len(stack) - np + nr
    <3> HIDE DEF np, nr
    <3>1. op_ptr + prog.height[fn_idx][ret] <= Len(stack) - np + nr
      BY <1>2, <2>1
    <3>2. ASSUME prog.exact
          PROVE  op_ptr + prog.height[fn_idx][ret] = Len(stack) - np + nr
      BY <1>2, <2>1, <3>2
    <3>3. QED
      BY <3>1, <3>2
  <2>3. QED
    BY <1>1, <1>2, <2>2 DEF IInv, CurrentOK, SuspendedOK, CallFunc, MayGo, Slots
<1>11. CallersOK'
  <2> SUFFICES ASSUME NEW j \in 1..(Len(frames) + 1)
               PROVE  IF j = Len(frames) + 1
                      THEN SuspendedOK(prog', frames'[j], locals', fn_idx')
                      ELSE SuspendedOK(prog', frames'[j], frames'[j + 1].locals,
                                       frames'[j + 1].fn_idx)
    BY <1>7 DEF CallersOK
  <2>1. CASE j = Len(frames) + 1
    BY <1>7, <1>10, <2>1
  <2>2. CASE j = Len(frames)
    BY <1>7, <1>10, <2>2 DEF IInv, CallersOK
  <2>3. CASE j < Len(frames)
    BY <1>7, <1>10, <2>3 DEF IInv, CallersOK
  <2>4. QED
    BY <1>7, <2>1, <2>2, <2>3
<1>12. QED
  BY <1>8, <1>9, <1>11 DEF IInv, CallFunc

LEMMA CallKeeps == IInv /\ Call => IInv'
<1> SUFFICES ASSUME IInv, Call PROVE IInv'
  OBVIOUS
<1>1. phase = "running" /\ prog.code[ip] = WASM_OP_CALL
  BY DEF Call, Fetch
<1>2. /\ prog.code[ip + 1] \in DOMAIN prog.funcs
      /\ MayCall(prog, fn_idx, prog.funcs[prog.code[ip + 1]], ip + 2, prog.height[fn_idx][ip])
  BY <1>1, AtInstruction DEF InstrValid
<1>3. /\ ip + 2 \in Int /\ prog.height[fn_idx][ip] \in Nat /\ op \in Seq(Value)
      /\ op_ptr + prog.height[fn_idx][ip] <= Len(op)
      /\ prog.exact => op_ptr + prog.height[fn_idx][ip] = Len(op)
  BY <1>1, AtInstruction
<1>4. QED
  BY <1>1, <1>2, <1>3, CallImportKeeps, CallFuncKeeps DEF Call, Imm

\* The callee of a call_indirect has the type the instruction names.
LEMMA IndirectCallee ==
  ASSUME IInv, phase = "running", prog.code[ip] = WASM_OP_CALL_INDIRECT,
         NEW g, g = prog.table[Operand(0)],
         Operand(0) \in DOMAIN prog.table, g # NullFunc,
         prog.funcs[g].sig_index = prog.code[ip + 1]
  PROVE  /\ g \in DOMAIN prog.funcs
         /\ MayCall(prog, fn_idx, prog.funcs[g], ip + 3, prog.height[fn_idx][ip] - 1)
<1> DEFINE t == prog.code[ip + 1]
<1>1. MayCall(prog, fn_idx, prog.sigs[t], ip + 3, prog.height[fn_idx][ip] - 1)
  BY AtInstruction DEF InstrValid
<1>2. g \in DOMAIN prog.funcs
  BY ProgramAssumption DEF IInv, Valid, NullFunc
<1>3. prog.sigs[t] = [num_params  |-> prog.funcs[g].num_params,
                      num_results |-> prog.funcs[g].num_results]
  <2>1. prog.sigs[prog.funcs[g].sig_index] =
          [num_params  |-> prog.funcs[g].num_params,
           num_results |-> prog.funcs[g].num_results]
    BY <1>2, ProgramAssumption DEF IInv, Valid
  <2>2. QED
    BY <2>1
<1>4. /\ prog.funcs[g].num_params = prog.sigs[t].num_params
      /\ prog.funcs[g].num_results = prog.sigs[t].num_results
  BY <1>3
<1>5. QED
  BY <1>1, <1>2, <1>4 DEF MayCall

LEMMA CallIndirectKeeps == IInv /\ CallIndirect => IInv'
<1> SUFFICES ASSUME IInv, CallIndirect PROVE IInv'
  OBVIOUS
<1> DEFINE g == prog.table[Operand(0)]
           t == prog.code[ip + 1]
           k == prog.height[fn_idx][ip] - 1
<1>1. phase = "running" /\ prog.code[ip] = WASM_OP_CALL_INDIRECT
  BY DEF CallIndirect, Fetch
<1>2. prog.height[fn_idx][ip] >= 1
  BY <1>1, AtInstruction DEF InstrValid
<1>3. /\ ip + 3 \in Int /\ prog.height[fn_idx][ip] \in Nat /\ op \in Seq(Value)
      /\ Len(op) \in Nat /\ op_ptr \in Nat
      /\ op_ptr + prog.height[fn_idx][ip] <= Len(op)
      /\ prog.exact => op_ptr + prog.height[fn_idx][ip] = Len(op)
  BY <1>1, AtInstruction
<1>4. /\ Below(1) \in Seq(Value) /\ Len(Below(1)) = Len(op) - 1
      /\ k \in Nat /\ op_ptr + k <= Len(Below(1))
      /\ prog.exact => op_ptr + k = Len(Below(1))
  <2>1. /\ 1 <= Len(op) /\ k \in Nat /\ op_ptr + k <= Len(op) - 1
        /\ prog.exact => op_ptr + k = Len(op) - 1
    <3>1. 1 <= Len(op) /\ k \in Nat /\ op_ptr + k <= Len(op) - 1
      BY <1>2, <1>3, PopArithmetic
    <3>2. ASSUME prog.exact PROVE op_ptr + k = Len(op) - 1
      <4> DEFINE h == prog.height[fn_idx][ip]
      <4>1. h \in Nat /\ op_ptr \in Nat /\ op_ptr + h = Len(op)
        BY <1>3, <3>2
      <4> HIDE DEF h
      <4>2. op_ptr + (h - 1) = Len(op) - 1
        BY <4>1
      <4>3. QED
        BY <4>2 DEF h
    <3>3. QED
      BY <3>1, <3>2
  <2>2. Below(1) \in Seq(Value) /\ Len(Below(1)) = Len(op) - 1
    BY <1>3, <2>1, BelowIsStack
  <2> HIDE DEF g, t, k
  <2>3. QED
    BY <2>1, <2>2
<1>5. CASE DoTrap
  BY <1>5, TrapKeeps
<1>6. CASE /\ Operand(0) \in DOMAIN prog.table
           /\ g # NullFunc
           /\ prog.funcs[g].sig_index = t
           /\ CallImport(g, Below(1), ip + 3) \/ CallFunc(g, Below(1), ip + 3)
  <2>1. /\ g \in DOMAIN prog.funcs
        /\ MayCall(prog, fn_idx, prog.funcs[g], ip + 3, k)
    BY <1>1, <1>6, IndirectCallee
  <2> HIDE DEF g, k
  <2>2. QED
    BY <1>1, <1>3, <1>4, <1>6, <2>1, CallImportKeeps, CallFuncKeeps
<1>7. QED
  BY <1>5, <1>6 DEF CallIndirect, Imm

-----------------------------------------------------------------------------
\* Returning drops the frame's values and leaves the result, if there is one,
\* to the caller, which was waiting for as much.
LEMMA ReturnValue ==
  ASSUME IInv, Return
  PROVE  /\ phase = "running"
         /\ op' \in Seq(Value) /\ Len(op') = locals + fn.num_results
         /\ fn.num_results \in 0..1 /\ locals \in Nat /\ locals <= Len(op)
         /\ \A i \in 1..locals : op'[i] = op[i]
         /\ return_result' \in Value \cup {Sentinel}
<1>1. phase = "running"
  BY DEF Return, Fetch
<1>2. /\ fn.num_results \in 0..1
      /\ fn.num_results <= prog.height[fn_idx][ip]
  BY <1>1, AtInstruction, ProgramAssumption
     DEF IInv, CurrentOK, Valid, InstrValid, Return, Fetch, fn
<1>3. /\ locals \in Nat /\ op_ptr \in Nat /\ op \in Seq(Value) /\ Len(op) \in Nat
      /\ prog.height[fn_idx][ip] \in Nat
      /\ locals <= op_ptr /\ op_ptr + prog.height[fn_idx][ip] <= Len(op)
  BY <1>1, AtInstruction
<1>4. locals <= Len(op)
  BY <1>3
<1> DEFINE callers == SubSeq(op, 1, locals)
<1>5. /\ callers \in Seq(Value) /\ Len(callers) = locals
      /\ \A i \in 1..locals : callers[i] = op[i]
  BY <1>3, <1>4, PrefixProperties
<1>6. CASE fn.num_results = 1
  <2>1. 0 < Len(op)
    BY <1>2, <1>3, <1>6
  <2>2. Operand(0) \in Value
    BY <1>3, <2>1, OperandIsValue
  <2>3. op' = Append(callers, Operand(0)) /\ return_result' = Operand(0)
    BY <1>6 DEF Return
  <2> HIDE DEF callers
  <2>4. /\ op' \in Seq(Value) /\ Len(op') = locals + 1
        /\ \A i \in 1..locals : op'[i] = op[i]
    BY <1>5, <2>2, <2>3, AppendProperties
  <2>5. QED
    BY <1>1, <1>2, <1>3, <1>4, <1>6, <2>2, <2>3, <2>4
<1>7. CASE fn.num_results # 1
  <2>1. op' = callers /\ return_result' = return_result
    BY <1>7 DEF Return
  <2>2. return_result \in Value \cup {Sentinel}
    BY DEF IInv, TypeOK
  <2> HIDE DEF callers
  <2>3. QED
    BY <1>1, <1>2, <1>3, <1>4, <1>5, <1>7, <2>1, <2>2
<1>8. QED
  BY <1>6, <1>7

LEMMA ReturnKeeps == IInv /\ Return => IInv'
<1> SUFFICES ASSUME IInv, Return PROVE IInv'
  OBVIOUS
<1>1. /\ phase = "running"
      /\ op' \in Seq(Value) /\ Len(op') = locals + fn.num_results
      /\ fn.num_results \in 0..1 /\ locals \in Nat
      /\ return_result' \in Value \cup {Sentinel}
  BY ReturnValue
<1>2. /\ frames \in Seq(Context) /\ Len(frames) \in Nat
      /\ (frames # <<>> => Len(frames) >= 1)
  BY LenProperties, EmptySeq DEF IInv, TypeOK
<1>3. CASE frames = <<>>
  BY <1>1, <1>3 DEF Return, IInv, TypeOK, Stopped
<1>4. CASE frames # <<>>
  <2> DEFINE n == Len(frames) - 1
             ctx == frames[Len(frames)]
  <2>1. /\ n \in Nat /\ n <= Len(frames)
        /\ ctx \in Context
    BY <1>2, <1>4, ElementOfSeq
  <2>2. /\ frames' \in Seq(Context) /\ Len(frames') = n
        /\ \A j \in 1..n : frames'[j] = frames[j]
    <3>1. frames' = SubSeq(frames, 1, n)
      BY <1>4 DEF Return
    <3> HIDE DEF n
    <3>2. QED
      BY <1>2, <2>1, <3>1, PrefixProperties
  <2>3. SuspendedOK(prog, ctx, locals, fn_idx)
    BY <1>1, <1>2, <1>4 DEF IInv, CallersOK
  <2>4. /\ ip' = ctx.ret_addr /\ fn_idx' = ctx.fn_idx /\ locals' = ctx.locals
        /\ op_ptr' = ctx.op_ptr /\ phase' = phase /\ prog' = prog
        /\ globals' = globals
    BY <1>4 DEF Return
  <2>5. TypeOK'
    BY <1>1, <2>1, <2>2, <2>3, <2>4 DEF IInv, TypeOK, Context, SuspendedOK
  <2>6. CurrentOK'
    BY <1>1, <2>3, <2>4 DEF CurrentOK, SuspendedOK, fn
  <2>7. CallersOK'
    <3> SUFFICES ASSUME NEW j \in 1..n
                 PROVE  IF j = n
                        THEN SuspendedOK(prog', frames'[j], locals', fn_idx')
                        ELSE SuspendedOK(prog', frames'[j], frames'[j + 1].locals,
                                         frames'[j + 1].fn_idx)
      BY <2>2 DEF CallersOK
    <3>1. SuspendedOK(prog, frames[j], frames[j + 1].locals, frames[j + 1].fn_idx)
      BY <1>1, <1>2 DEF IInv, CallersOK
    <3>2. CASE j = n
      BY <1>2, <2>2, <2>4, <3>1, <3>2
    <3>3. CASE j # n
      BY <2>1, <2>2, <2>4, <3>1, <3>3
    <3>4. QED
      BY <3>2, <3>3
  <2>8. QED
    BY <2>4, <2>5, <2>6, <2>7, <1>1 DEF IInv
<1>5. QED
  BY <1>3, <1>4

-----------------------------------------------------------------------------
LEMMA InitKeeps == Init => IInv
<1> SUFFICES ASSUME Init PROVE IInv
  OBVIOUS
<1>1. Valid(prog, Value)
  BY ProgramAssumption DEF Init
<1>2. <<>> \in Seq(Value) /\ <<>> \in Seq(Context)
  BY EmptySeq
<1>3. TypeOK
  BY <1>1, <1>2 DEF Init, Start, TypeOK, Valid
<1>4. QED
  BY <1>3 DEF Init, Start, IInv

\* One step per action.
LEMMA NextKeeps == IInv /\ [Next]_vars => IInv'
<1> SUFFICES ASSUME IInv, [Next]_vars PROVE IInv'
  OBVIOUS
<1>1. CASE StartInit \/ MainInit \/ MainReject
  BY <1>1, StartInitKeeps, MainInitKeeps, MainRejectKeeps
<1>2. CASE Unreachable
  BY <1>2, TrapKeeps DEF Unreachable
<1>3. CASE Nop \/ EnterBlock \/ EndBlock
  BY <1>3, NopKeeps, EnterBlockKeeps, EndBlockKeeps
<1>4. CASE Br \/ BrIf \/ BrTable
  BY <1>4, BrKeeps, BrIfKeeps, BrTableKeeps
<1>5. CASE Return \/ Call \/ CallIndirect
  BY <1>5, ReturnKeeps, CallKeeps, CallIndirectKeeps
<1>6. CASE Drop \/ Select \/ Const
  BY <1>6, DropKeeps, SelectKeeps, ConstKeeps
<1>7. CASE LocalGet \/ LocalSet \/ LocalTee \/ GlobalGet \/ GlobalSet
  BY <1>7, LocalGetKeeps, LocalSetKeeps, LocalTeeKeeps, GlobalGetKeeps,
     GlobalSetKeeps
<1>8. CASE Load \/ Store \/ UnaryOp \/ BinaryOp
  BY <1>8, LoadKeeps, StoreKeeps, UnaryOpKeeps, BinaryOpKeeps
<1>9. CASE Overrun
  BY <1>9, OverrunKeeps
<1>10. CASE UNCHANGED vars
  BY <1>10 DEF vars, IInv, TypeOK, CurrentOK, CallersOK
<1>11. QED
  BY <1>1, <1>2, <1>3, <1>4, <1>5, <1>6, <1>7, <1>8, <1>9, <1>10
     DEF Next, Step, Halted

LEMMA Invariance == Spec => []IInv
BY InitKeeps, NextKeeps, PTL DEF Spec

-----------------------------------------------------------------------------
\* Type correctness: the registers and both stacks of run() always hold what
\* their declarations say, whatever module runs.
THEOREM TypeCorrect == Spec => []TypeOK
<1>1. IInv => TypeOK
  BY DEF IInv
<1>2. QED
  BY Invariance, <1>1, PTL

LEMMA ControlStays == IInv => ControlInBody
<1> SUFFICES ASSUME IInv, phase = "running", NEW i \in 1..Depth
             PROVE  /\ FnAt(i) \in DOMAIN prog.funcs
                    /\ FnAt(i) >= prog.num_imports
                    /\ IpAt(i) \in DOMAIN prog.height[FnAt(i)]
  BY DEF ControlInBody
<1>1. Len(frames) \in Nat
  BY LenProperties DEF IInv, TypeOK
<1>2. CASE i = Depth
  BY <1>2 DEF IInv, CurrentOK, FnAt, IpAt
<1>3. CASE i # Depth
  BY <1>1, <1>3 DEF IInv, CallersOK, SuspendedOK, FnAt, IpAt, Depth
<1>4. QED
  BY <1>2, <1>3

\* No return address and no branch leads out of the body of its function.
THEOREM ControlContained == Spec => []ControlInBody
BY Invariance, ControlStays, PTL

LEMMA FramesStay == IInv => FramesNested
<1> SUFFICES ASSUME IInv, phase = "running", NEW i \in 1..Depth
             PROVE  /\ LocalsAt(i) + Slots(prog, FnAt(i)) <= OpPtrAt(i)
                    /\ OpPtrAt(i) <= TopAt(i)
  BY DEF FramesNested
<1>1. Len(frames) \in Nat
  BY LenProperties DEF IInv, TypeOK
<1>2. CASE i = Depth
  <2>1. /\ locals + Slots(prog, fn_idx) <= op_ptr
        /\ op_ptr \in Nat /\ Len(op) \in Nat /\ prog.height[fn_idx][ip] \in Nat
        /\ op_ptr + prog.height[fn_idx][ip] <= Len(op)
    BY AtInstruction
  <2>2. QED
    BY <1>2, <2>1 DEF FnAt, LocalsAt, OpPtrAt, TopAt
<1>3. CASE i # Depth
  BY <1>1, <1>3 DEF IInv, CallersOK, SuspendedOK, FnAt, LocalsAt, OpPtrAt,
                    TopAt, Depth
<1>4. QED
  BY <1>2, <1>3

\* No frame's pointers reach into another frame.
THEOREM FramesStayNested == Spec => []FramesNested
BY Invariance, FramesStay, PTL

LEMMA OperandsStay == IInv => OperandsSuffice
<1> SUFFICES ASSUME IInv, phase = "running"
             PROVE  /\ op_ptr + prog.height[fn_idx][ip] <= Len(op)
                    /\ \A i \in 1..(Depth - 1) :
                         OpPtrAt(i) + prog.height[FnAt(i)][IpAt(i)]
                           <= TopAt(i) + prog.funcs[FnAt(i + 1)].num_results
  BY DEF OperandsSuffice
<1>1. Len(frames) \in Nat
  BY LenProperties DEF IInv, TypeOK
<1>2. op_ptr + prog.height[fn_idx][ip] <= Len(op)
  BY AtInstruction
<1>3. ASSUME NEW i \in 1..(Depth - 1)
      PROVE  OpPtrAt(i) + prog.height[FnAt(i)][IpAt(i)]
               <= TopAt(i) + prog.funcs[FnAt(i + 1)].num_results
  BY <1>1 DEF IInv, CallersOK, SuspendedOK, FnAt, IpAt, LocalsAt, OpPtrAt,
              TopAt, Depth
<1>4. QED
  BY <1>2, <1>3

\* Every frame has the operands the validator counted, now or when it resumes,
\* although branches leave the operand stack as it is.
THEOREM OperandsAlwaysSuffice == Spec => []OperandsSuffice
BY Invariance, OperandsStay, PTL

LEMMA HeightsStay == IInv => HeightsExact
<1> SUFFICES ASSUME IInv, phase = "running", prog.exact
             PROVE  Len(op) = op_ptr + prog.height[fn_idx][ip]
  BY DEF HeightsExact
<1>1. QED
  BY AtInstruction

\* Where every branch is taken at the height of its label, the stack is never
\* higher than the validator counted: no loop leaves anything behind.
THEOREM HeightsStayExact == Spec => []HeightsExact
BY Invariance, HeightsStay, PTL

-----------------------------------------------------------------------------
\* s agrees with the operand array below the current frame's locals.
Untouched(s) ==
  /\ s \in Seq(Value)
  /\ locals <= Len(s)
  /\ \A i \in 1..locals : s[i] = op[i]

\* Each handler that pops finds its operands above op_ptr.
LEMMA EnoughOperands ==
  ASSUME IInv
  PROVE  /\ BrIf \/ BrTable \/ Drop \/ GlobalSet \/ LocalSet \/ LocalTee
              \/ Load \/ UnaryOp \/ CallIndirect
              => 1 <= prog.height[fn_idx][ip]
         /\ Store \/ BinaryOp => 2 <= prog.height[fn_idx][ip]
         /\ Select => 3 <= prog.height[fn_idx][ip]
<1>1. ASSUME Fetch({WASM_OP_BR_IF, WASM_OP_BR_TABLE, WASM_OP_DROP,
                    WASM_OP_GLOBAL_SET, WASM_OP_LOCAL_SET, WASM_OP_LOCAL_TEE,
                    WASM_OP_CALL_INDIRECT} \cup LoadOps \cup UnaryOps)
      PROVE  1 <= prog.height[fn_idx][ip]
  BY <1>1, AtInstruction DEF Fetch, InstrValid, Effect
<1>2. ASSUME Fetch(StoreOps \cup BinaryOps)
      PROVE  2 <= prog.height[fn_idx][ip]
  BY <1>2, AtInstruction DEF Fetch, InstrValid, Effect
<1>3. ASSUME Fetch({WASM_OP_SELECT})
      PROVE  3 <= prog.height[fn_idx][ip]
  BY <1>3, AtInstruction DEF Fetch, InstrValid, Effect
<1>4. QED
  BY <1>1, <1>2, <1>3 DEF Fetch, BrIf, BrTable, Drop, GlobalSet, LocalSet,
     LocalTee, Load, UnaryOp, CallIndirect, Store, BinaryOp, Select

\* Popping operands that are there leaves the callers' values alone, ...
LEMMA PopUntouched ==
  ASSUME IInv, phase = "running", NEW n \in Nat, n <= prog.height[fn_idx][ip]
  PROVE  Untouched(Below(n)) /\ Len(Below(n)) = Len(op) - n
<1>1. /\ locals \in Nat /\ op_ptr \in Nat /\ op \in Seq(Value) /\ Len(op) \in Nat
      /\ prog.height[fn_idx][ip] \in Nat
      /\ op_ptr + prog.height[fn_idx][ip] <= Len(op)
      /\ locals + Slots(prog, fn_idx) <= op_ptr /\ Slots(prog, fn_idx) \in Nat
  BY AtInstruction
<1>2. n <= Len(op) /\ locals <= Len(op) - n
  BY <1>1
<1>3. /\ Below(n) \in Seq(Value) /\ Len(Below(n)) = Len(op) - n
      /\ \A i \in 1..(Len(op) - n) : Below(n)[i] = op[i]
  BY <1>1, <1>2, BelowProperties DEF Below
<1>4. QED
  BY <1>1, <1>2, <1>3 DEF Untouched

\* ... and so do pushing
LEMMA PushUntouched ==
  ASSUME NEW s, Untouched(s), locals \in Nat, NEW v, Append(s, v) \in Seq(Value)
  PROVE  Untouched(Append(s, v))
<1>1. s \in Seq(Value) /\ Len(s) \in Nat /\ locals <= Len(s)
  BY LenProperties DEF Untouched
<1>2. /\ Len(Append(s, v)) = Len(s) + 1
      /\ \A i \in 1..Len(s) : Append(s, v)[i] = s[i]
  BY <1>1
<1>3. QED
  BY <1>1, <1>2 DEF Untouched

\* ... and doing nothing.
LEMMA SameUntouched ==
  ASSUME IInv, phase = "running"
  PROVE  Untouched(op)
<1>1. /\ locals \in Nat /\ op_ptr \in Nat /\ op \in Seq(Value) /\ Len(op) \in Nat
      /\ prog.height[fn_idx][ip] \in Nat
      /\ op_ptr + prog.height[fn_idx][ip] <= Len(op)
      /\ locals + Slots(prog, fn_idx) <= op_ptr /\ Slots(prog, fn_idx) \in Nat
  BY AtInstruction
<1>2. QED
  BY <1>1 DEF Untouched

\* A call takes its arguments above op_ptr and pushes above them.
LEMMA CallUntouched ==
  ASSUME IInv, phase = "running", NEW g \in DOMAIN prog.funcs,
         NEW stack, Untouched(stack), NEW k \in Nat, op_ptr + k <= Len(stack),
         NEW ret \in Int, MayCall(prog, fn_idx, prog.funcs[g], ret, k),
         op' \in Seq(Value),
         CallImport(g, stack, ret) \/ CallFunc(g, stack, ret)
  PROVE  Untouched(op')
<1> DEFINE np == prog.funcs[g].num_params
           nl == prog.funcs[g].num_locals
           rest == SubSeq(stack, 1, Len(stack) - np)
<1>1. stack \in Seq(Value) /\ np <= k
  BY DEF Untouched, MayCall
<1>2. /\ np \in Nat /\ nl \in Nat /\ Len(stack) \in Nat /\ op_ptr \in Nat
      /\ op_ptr <= Len(stack) - np
  BY <1>1, CallOperands
<1>3. locals \in Nat /\ locals <= op_ptr
  BY AtInstruction
<1>4. Untouched(rest)
  <2>1. /\ rest \in Seq(Value) /\ Len(rest) = Len(stack) - np
        /\ \A i \in 1..(Len(stack) - np) : rest[i] = stack[i]
    <3>1. np <= Len(stack)
      BY <1>1, <1>2
    <3>2. QED
      BY <1>1, <1>2, <3>1, BelowProperties
  <2> HIDE DEF np, rest
  <2>2. QED
    BY <1>2, <1>3, <2>1 DEF Untouched
<1>5. CASE DoTrap
  BY <1>5, SameUntouched DEF DoTrap
<1>6. ASSUME NEW v, op' = Append(rest, v) \/ op' = rest
      PROVE  Untouched(op')
  <2> HIDE DEF rest
  <2>1. QED
    BY <1>3, <1>4, <1>6, PushUntouched
<1>7. CASE op' = stack \o Zeros(nl)
  <2>1. Zeros(nl) \in Seq(Value) /\ Len(Zeros(nl)) = nl
    BY <1>2, ZerosProperties
  <2> HIDE DEF nl
  <2>2. /\ Len(op') = Len(stack) + nl
        /\ \A i \in 1..Len(stack) : op'[i] = stack[i]
    <3> DEFINE z == Zeros(nl)
    <3>1. z \in Seq(Value) /\ Len(z) = nl /\ op' = stack \o z
      BY <1>7, <2>1
    <3> HIDE DEF z
    <3>2. /\ Len(op') = Len(stack) + Len(z)
          /\ \A i \in 1..(Len(stack) + Len(z)) :
               op'[i] = IF i <= Len(stack) THEN stack[i] ELSE z[i - Len(stack)]
      BY <1>1, <3>1, ConcatProperties
    <3>3. QED
      BY <1>2, <3>1, <3>2
  <2>3. QED
    BY <1>2, <1>3, <2>2 DEF Untouched
<1>8. CASE CallImport(g, stack, ret)
  BY <1>5, <1>6, <1>8 DEF CallImport, Continue
<1>9. CASE CallFunc(g, stack, ret)
  BY <1>7, <1>9 DEF CallFunc
<1>10. QED
  BY <1>8, <1>9

\* The steps of a running program, by what they do to the operand array.
LEMMA StepUntouched ==
  ASSUME IInv, phase = "running", Next
  PROVE  Untouched(op')
<1>1. op' \in Seq(Value)
  BY NextKeeps DEF IInv, TypeOK
<1>2. /\ locals \in Nat /\ op_ptr \in Nat /\ op \in Seq(Value) /\ Len(op) \in Nat
      /\ prog.height[fn_idx][ip] \in Nat /\ ip \in Int
      /\ op_ptr + prog.height[fn_idx][ip] <= Len(op)
      /\ locals + Slots(prog, fn_idx) <= op_ptr /\ Slots(prog, fn_idx) \in Nat
  BY AtInstruction
<1>3. Untouched(op)
  BY SameUntouched
<1>4. \A n \in Nat : n <= prog.height[fn_idx][ip] =>
        Untouched(Below(n)) /\ Len(Below(n)) = Len(op) - n
  BY PopUntouched
<1>5. \A s, v : Untouched(s) /\ op' = Append(s, v) => Untouched(op')
  BY <1>1, <1>2, PushUntouched
<1>6. CASE DoTrap \/ Unreachable \/ Nop \/ EnterBlock \/ EndBlock \/ Br \/ Overrun
             \/ Halted
  BY <1>3, <1>6 DEF DoTrap, Unreachable, Nop, EnterBlock, EndBlock, Br, Overrun,
                    Halted, Continue, vars
<1>7. CASE BrIf \/ BrTable \/ Drop \/ GlobalSet
  <2>1. Untouched(Below(1))
    BY <1>4, <1>7, EnoughOperands
  <2>2. op' = Below(1)
    BY <1>7 DEF BrIf, BrTable, Drop, GlobalSet, Continue
  <2>3. QED
    BY <2>1, <2>2
<1>8. CASE Const \/ LocalGet \/ GlobalGet
  BY <1>3, <1>5, <1>8 DEF Const, LocalGet, GlobalGet, Continue
<1>9. CASE Select
  <2>1. Untouched(Below(3))
    BY <1>4, <1>9, EnoughOperands
  <2>2. QED
    BY <1>5, <1>9, <2>1 DEF Select, Continue
<1>10. CASE Load \/ UnaryOp
  <2>1. Untouched(Below(1))
    BY <1>4, <1>10, EnoughOperands
  <2>2. QED
    BY <1>3, <1>5, <1>10, <2>1 DEF Load, UnaryOp, Continue, DoTrap
<1>11. CASE Store \/ BinaryOp
  <2>1. Untouched(Below(2))
    BY <1>4, <1>11, EnoughOperands
  <2>2. QED
    BY <1>3, <1>5, <1>11, <2>1 DEF Store, BinaryOp, Continue, DoTrap
<1>12. CASE LocalSet \/ LocalTee
  <2>1. Imm(1) \in Nat
    BY <1>12, AtInstruction DEF LocalSet, LocalTee, Fetch, InstrValid, LocalOps, Imm
  <2>2. Untouched(Below(1))
    BY <1>4, <1>12, EnoughOperands
  <2>3. PICK s : /\ Untouched(s)
                 /\ op' = [s EXCEPT ![locals + Imm(1) + 1] = Operand(0)]
    BY <1>3, <1>12, <2>2 DEF LocalSet, LocalTee, Continue
  <2>4. /\ Len(s) \in Nat /\ DOMAIN s = 1..Len(s) /\ DOMAIN op' = 1..Len(op')
        /\ Len(op') \in Nat /\ locals <= Len(s) /\ \A i \in 1..locals : s[i] = op[i]
    BY <1>1, <2>3, LenProperties DEF Untouched
  <2>5. DOMAIN op' = DOMAIN s /\ \A i \in 1..locals : op'[i] = s[i]
    BY <1>2, <2>1, <2>3, <2>4
  <2>6. Len(op') = Len(s)
    BY <1>1, <2>3, <2>5, SameDomain DEF Untouched
  <2>7. QED
    BY <1>1, <2>4, <2>5, <2>6 DEF Untouched
<1>13. CASE Return
  BY <1>1, <1>2, <1>13, ReturnValue DEF Untouched
<1>14. CASE Call
  <2>1. prog.code[ip] = WASM_OP_CALL
    BY <1>14 DEF Call, Fetch
  <2>2. /\ prog.code[ip + 1] \in DOMAIN prog.funcs
        /\ MayCall(prog, fn_idx, prog.funcs[prog.code[ip + 1]], ip + 2,
                   prog.height[fn_idx][ip])
    BY <2>1, AtInstruction DEF InstrValid
  <2>3. CallImport(prog.code[ip + 1], op, ip + 2) \/ CallFunc(prog.code[ip + 1], op, ip + 2)
    BY <1>14 DEF Call, Imm
  <2>4. ip + 2 \in Int
    BY <1>2
  <2>5. QED
    BY <1>1, <1>2, <1>3, <2>2, <2>3, <2>4, CallUntouched
<1>15. CASE CallIndirect
  <2>1. Untouched(Below(1)) /\ Len(Below(1)) = Len(op) - 1
        /\ 1 <= prog.height[fn_idx][ip]
    BY <1>4, <1>15, EnoughOperands
  <2>2. CASE DoTrap
    BY <1>6, <2>2
  <2>3. ASSUME NEW g \in DOMAIN prog.funcs,
               MayCall(prog, fn_idx, prog.funcs[g], ip + 3, prog.height[fn_idx][ip] - 1),
               CallImport(g, Below(1), ip + 3) \/ CallFunc(g, Below(1), ip + 3)
        PROVE  Untouched(op')
    <3> DEFINE h == prog.height[fn_idx][ip]
               k == h - 1
    <3>1. /\ ip + 3 \in Int
          /\ h \in Nat /\ 1 <= h /\ op_ptr + h <= Len(op)
          /\ op_ptr \in Nat /\ Len(op) \in Nat /\ Len(Below(1)) = Len(op) - 1
      BY <1>2, <2>1
    <3>2. MayCall(prog, fn_idx, prog.funcs[g], ip + 3, k)
      BY <2>3
    <3> HIDE DEF h
    <3>3. k \in Nat /\ op_ptr + k <= Len(Below(1))
      BY <3>1
    <3> HIDE DEF k
    <3>4. QED
      BY <1>1, <1>15, <2>1, <2>3, <3>1, <3>2, <3>3, CallUntouched
  <2>4. QED
    <3>1. prog.code[ip] = WASM_OP_CALL_INDIRECT
      BY <1>15 DEF CallIndirect, Fetch
    <3>2. QED
      BY <1>15, <2>2, <2>3, <3>1, IndirectCallee DEF CallIndirect, Imm
<1>16. CASE StartInit \/ MainInit \/ MainReject
  BY <1>16 DEF StartInit, MainInit, MainReject
<1>17. QED
  BY <1>6, <1>7, <1>8, <1>9, <1>10, <1>11, <1>12, <1>13, <1>14, <1>15, <1>16
     DEF Next, Step

LEMMA CallersStay ==
  IInv /\ [Next]_vars =>
    [phase = "running" => SubSeq(op', 1, locals) = SubSeq(op, 1, locals)]_vars
<1> SUFFICES ASSUME IInv, Next, phase = "running"
             PROVE  SubSeq(op', 1, locals) = SubSeq(op, 1, locals)
  OBVIOUS
<1>1. Untouched(op) /\ Untouched(op') /\ locals \in Nat
  BY SameUntouched, StepUntouched, AtInstruction
<1>2. /\ SubSeq(op, 1, locals) \in Seq(Value)
      /\ Len(SubSeq(op, 1, locals)) = locals
      /\ \A i \in 1..locals : SubSeq(op, 1, locals)[i] = op[i]
  BY <1>1, PrefixProperties DEF Untouched
<1>3. /\ SubSeq(op', 1, locals) \in Seq(Value)
      /\ Len(SubSeq(op', 1, locals)) = locals
      /\ \A i \in 1..locals : SubSeq(op', 1, locals)[i] = op[i]
  BY <1>1, PrefixProperties DEF Untouched
<1>4. QED
  BY <1>2, <1>3, SeqEqual

\* A function, its callees and its return leave what its callers have on the
\* stack as it is.
THEOREM CallersStayUntouched == Spec => CallersUntouched
BY Invariance, CallersStay, PTL DEF Spec, CallersUntouched
=============================================================================
