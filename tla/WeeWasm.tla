------------------------------- MODULE WeeWasm -------------------------------
(***************************************************************************)
(* run() of weerun.c from the file to its result: the loader (Weedis) on   *)
(* the code section in memory, then the interpreter loop (Weerun) on what  *)
(* the loader left there.  The interpreter trusts it: nothing compares an  *)
(* offset, a body's bounds or a number of locals with anything.            *)
(*                                                                         *)
(* A module is given as Weerun has it, but with its code as the file has   *)
(* it: branches have labels.  The other sections and what instantiation    *)
(* makes of them (WeeSections, WeeInstance) are part of the module.        *)
(***************************************************************************)
EXTENDS WeeValid

CONSTANTS
  Modules,   \* the modules that may be run
  Value, Trap, Sentinel, Unary(_, _), Binary(_, _, _),
  OP_STACK_MAX, CALL_STACK_MAX   \* see Weerun

\* What Weerun assumes of its constants.
ASSUME LoopAssumption ==
  /\ Value \subseteq Nat /\ 0 \in Value
  /\ Trap \notin Value /\ Sentinel \notin Value
  /\ \A o \in UnaryOps : \A a \in Value : Unary(o, a) \in Value \cup {Trap}
  /\ \A o \in BinaryOps : \A a, b \in Value : Binary(o, a, b) \in Value \cup {Trap}
  /\ OP_STACK_MAX \in Nat /\ CALL_STACK_MAX \in Nat

VARIABLES
  module,    \* the module as it was in the file; never changes
  returned,  \* whether parse has returned
  ld_phase, file, code, ptr, i, replace_last, scope, static_ctr, dyn2static,
  static_blocks, code_start, code_end, num_locals,   \* see Weedis
  prog, phase, ip, fn_idx, op, locals, op_ptr, frames, globals,
  return_result                                      \* see Weerun

loaderVars == <<ld_phase, file, code, ptr, i, replace_last, scope, static_ctr,
                dyn2static, static_blocks, code_start, code_end, num_locals>>

loopVars == <<prog, phase, ip, fn_idx, op, locals, op_ptr, frames, globals,
              return_result>>

vars == <<module, returned, loaderVars, loopVars>>

Loader == INSTANCE Weedis WITH phase <- ld_phase, Images <- {m.code : m \in Modules}

\* The module with offsets in the place of its labels.
Linked(m) ==
  [m EXCEPT !.code = [a \in DOMAIN @ |-> IF a \in DOMAIN m.labels
                                        THEN m.labels[a].target - (a + 1) ELSE @[a]]]

Fields == {"code", "labels", "height", "exact", "funcs", "num_funcs", "num_imports", "sigs",
           "table", "globals", "args", "arg_types_match", "has_start", "main_idx", "start_idx"}

FuncInfo == [sig_index : Nat, num_params : Nat, num_results : Nat, num_locals : Nat,
             code_start : Nat, code_end : Nat]

\* What a module says of body k is what its code section says.
BodyAgrees(m, k) ==
  LET f      == m.funcs[m.num_imports + k]
      s      == Loader!CodeStart(m.code, k)
      e      == Loader!CodeEnd(m.code, k)
      target == Loader!Targets(m.code, s, e)
  IN /\ f.code_start = s
     /\ f.code_end = e
     /\ f.num_locals = Loader!LocalsOf(m.code, k)
     /\ \A a \in DOMAIN target : a \in DOMAIN m.labels /\ m.labels[a].target = target[a]

\* The files are those of validated modules, with a body for each function that
\* is not imported, and say what the modules do.
ASSUME ModulesAssumption ==
  \A m \in Modules :
    /\ m = [x \in Fields |-> m[x]]
    /\ Loader!WellFormed(m.code)
    /\ m.num_imports \in Nat /\ m.num_imports + m.code[1] = m.num_funcs
    /\ m.funcs \in [0..(m.num_funcs - 1) -> FuncInfo]
    /\ \A k \in 0..(m.code[1] - 1) : BodyAgrees(m, k)
    /\ DOMAIN m.labels \subseteq
         UNION {DOMAIN Loader!BodyTargets(m.code, k) : k \in 0..(m.code[1] - 1)}
    /\ Valid(Linked(m), Value)

Loop == INSTANCE Weerun WITH Programs <- {Linked(m) : m \in Modules}

\* The functions with a body, in the order of the code section.
BodyOf(f) == f - module.num_imports

\* What the decoders left in the wasm_module_t.
Decoded ==
  [module EXCEPT
     !.code = code,
     !.funcs = [f \in DOMAIN @ |->
                  IF f < module.num_imports THEN @[f]
                  ELSE [@[f] EXCEPT !.code_start = code_start[BodyOf(f)],
                                    !.code_end   = code_end[BodyOf(f)],
                                    !.num_locals = num_locals[BodyOf(f)]]]]

Parse ==
  /\ ~returned
  /\ Loader!Step
  /\ UNCHANGED <<module, returned, loopVars>>

\* parse returned: the interpreter is about to jump to start_init or main_init.
Instantiate ==
  /\ ~returned
  /\ ld_phase = "done"
  /\ returned' = TRUE
  /\ prog' = Decoded
  /\ UNCHANGED <<module, loaderVars, phase, ip, fn_idx, op, locals, op_ptr,
                 frames, globals, return_result>>

Interpret ==
  /\ returned
  /\ Loop!Step
  /\ UNCHANGED <<module, returned, loaderVars>>

Step == Parse \/ Instantiate \/ Interpret

Halted == returned /\ Loop!Halted /\ UNCHANGED vars

Next == Step \/ Halted

Init ==
  /\ module \in Modules
  /\ returned = FALSE
  /\ file = module.code /\ Loader!Start
  /\ prog = module /\ Loop!Start

\* One thread, from the first byte of the file to the result.
Spec == Init /\ [][Next]_vars /\ WF_vars(Step)
-----------------------------------------------------------------------------
\* The loader hands over what the interpreter takes for granted: each branch's
\* offset, added behind the label, leads to an instruction of its function with
\* the operands that are there; bodies begin and end where they are; every
\* local has its slot.
LoadedIsValid == returned /\ phase # "running" => Valid(prog, Value)

\* A module whose branches leave no operand behind: what a label does not carry
\* is below it.  Its heights are those of instructions, and its start function,
\* which is given main's arguments, is not main and gets none.
Structured(m) ==
  /\ m.exact
  /\ m.has_start => m.start_idx # m.main_idx /\ m.args = <<>>
  /\ \A k \in 0..(m.code[1] - 1) :
       LET height == m.height[m.num_imports + k]
           instrs == Loader!InstrStarts(m.code, Loader!CodeStart(m.code, k),
                                        Loader!CodeEnd(m.code, k))
       IN /\ DOMAIN height \subseteq instrs
          /\ \A a \in DOMAIN height : \A slot \in LabelSlots(m.code, a) :
               LET l == m.labels[slot]
               IN /\ l.target \in Nat /\ l.height \in Nat /\ l.arity \in Nat
                  /\ l.height + l.arity =
                       height[a] - (IF m.code[a] = WASM_OP_BR THEN 0 ELSE 1)

Wasm == INSTANCE WasmMachine WITH
  prog     <- module,
  phase    <- CASE phase = "start_init" -> "start"
                [] phase = "main_init" -> "main"
                [] phase = "overrun" -> "exhausted"
                [] OTHER -> phase,
  in_start <- Loop!InStart,
  act      <- Loop!Activations,
  result   <- return_result

\* From the labels of the file to the result: loader and interpreter together
\* run the module that is in the file, and come to an end when it does.
ImplementsWasm == Wasm!Spec
=============================================================================
