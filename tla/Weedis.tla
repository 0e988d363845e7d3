------------------------------- MODULE Weedis -------------------------------
(***************************************************************************)
(* The loader's code section: decode_code_section and decode_expr of       *)
(* weedis.c, which replace the label of every branch by the offset the     *)
(* interpreter adds to its instruction pointer.                            *)
(*                                                                         *)
(* decode_expr reads a body from its first to its last instruction and     *)
(* numbers the blocks as it meets them (static indexes); dyn2static_idxs   *)
(* maps the nesting depth to the number of the block that is open there.   *)
(* It runs twice over every body: the first run records where each block   *)
(* starts and ends in static_blocks, one table for all functions, and the  *)
(* second run, which numbers the blocks again, overwrites the labels.      *)
(*                                                                         *)
(* code is the code section of the file in memory, in slots (see WeeCode). *)
(* The text decode_expr prints when disassembling is left out.             *)
(***************************************************************************)
EXTENDS WeeLabels

CONSTANT Images   \* the code sections that may be loaded

\* The address behind local declarations, a number of (count, type) pairs.
LocalsEnd(c, p) == p + 1 + 2 * c[p]

\* Where in a section the bodies have their headers, and where the last ends: the
\* sizes say it, which nothing relies on, and so do the instructions.
Headers(c) ==
  LET at[k \in 0..c[1]] ==
        IF k = 0 THEN 2
        ELSE LET start == LocalsEnd(c, at[k - 1] + 1)
             IN CHOOSE e \in 1..(Len(c) + 1) : BodyOK(c, start, e)
  IN at

\* Where the instructions of body k start, and where they end.
CodeStart(c, k) == LocalsEnd(c, Headers(c)[k] + 1)
CodeEnd(c, k)   == Headers(c)[k + 1]

\* The sections of validated modules.
WellFormed(c) ==
  /\ c \in Seq(Int) /\ c # <<>> /\ c[1] \in Nat
  /\ \A k \in 0..(c[1] - 1) :
       LET decls == Headers(c)[k] + 1
           start == LocalsEnd(c, decls)
       IN /\ decls \in DOMAIN c /\ c[decls] \in Nat
          /\ \A j \in 1..c[decls] : c[decls + 2 * j - 1] \in Nat
          /\ \E e \in 1..(Len(c) + 1) : BodyOK(c, start, e)

ASSUME ImagesAssumption == \A c \in Images : WellFormed(c)

VARIABLES
  file,          \* the code section as it was in the file; never changes
  code,          \* the code section in memory, overwritten in place
  phase,         \* "section", "body", "expr", "expr_end", "done"
  ptr,           \* buf->ptr
  i,             \* the body decode_code_section is at, 0 the first
  replace_last,  \* whether decode_expr runs for the second time
  scope,         \* decode_expr: the number of open blocks
  static_ctr,    \* decode_expr: the number of blocks met
  dyn2static,    \* decode_expr: depth -> number of the block open there; it
                 \* is uninitialised where nothing was written
  static_blocks, \* block number -> [op, start_addr, end_addr]
  code_start,    \* body -> the address of its first instruction ...
  code_end,      \* ... and the one behind its last
  num_locals     \* body -> the locals it declares

vars == <<file, code, phase, ptr, i, replace_last, scope, static_ctr,
          dyn2static, static_blocks, code_start, code_end, num_locals>>

sectionVars == <<i, replace_last, code_start, code_end, num_locals>>

-----------------------------------------------------------------------------
\* f with f[x] set to y, also where f was not defined.
Set(f, x, y) == [z \in DOMAIN f \cup {x} |-> IF z = x THEN y ELSE f[z]]

NoBlock == [op |-> 0, start_addr |-> 0, end_addr |-> 0]

\* static_blocks is a static array: entries nothing was written to are zero.
BlockAt(n) == IF n \in DOMAIN static_blocks THEN static_blocks[n] ELSE NoBlock

\* STATIC_BR_START_BLOCK, for a block whose body starts at start.  The
\* end_addr is left as the last function that used the entry set it.
StartBlock(n, op, start) ==
  static_blocks' = Set(static_blocks, n,
                       [BlockAt(n) EXCEPT !.op = op, !.start_addr = start])

\* Mutant: the second run goes on numbering where the first stopped.
MutEnterExpr(start) ==
  /\ phase' = "expr"
  /\ ptr' = start
  /\ StartBlock(0, WASM_OP_BLOCK, start)
  /\ dyn2static' = [d \in {0} |-> 0]
  /\ static_ctr' = IF phase = "expr_end" THEN static_ctr ELSE 1
  /\ scope' = 1

\* The call of decode_expr at start: the function body is block 0.
EnterExpr(start) ==
  /\ phase' = "expr"
  /\ ptr' = start
  /\ StartBlock(0, WASM_OP_BLOCK, start)
  /\ dyn2static' = [d \in {0} |-> 0]
  /\ static_ctr' = 1
  /\ scope' = 1

\* The header of the section: the number of bodies.
StartSection ==
  /\ phase = "section"
  /\ i' = 0
  /\ ptr' = ptr + 1
  /\ phase' = IF code[ptr] = 0 THEN "done" ELSE "body"
  /\ UNCHANGED <<file, code, replace_last, scope, static_ctr, dyn2static,
                 static_blocks, code_start, code_end, num_locals>>

\* The locals the declarations at p declare.
DeclaredLocals(c, p) ==
  LET sum[k \in 0..c[p]] == IF k = 0 THEN 0 ELSE sum[k - 1] + c[p + 2 * k - 1]
  IN sum[c[p]]

\* Mutant: the declarations are counted, not the locals they declare.
MutStartBody ==
  /\ phase = "body"
  /\ LET start == LocalsEnd(code, ptr + 1)
     IN /\ code_start' = Set(code_start, i, start)
        /\ EnterExpr(start)
  /\ num_locals' = Set(num_locals, i, code[ptr + 1])
  /\ replace_last' = FALSE
  /\ UNCHANGED <<file, code, i, code_end>>

\* The header of a body (its size, which nothing relies on) and its locals; then
\* the first run.
StartBody ==
  /\ phase = "body"
  /\ LET start == LocalsEnd(code, ptr + 1)
     IN /\ code_start' = Set(code_start, i, start)
        /\ EnterExpr(start)
  /\ num_locals' = Set(num_locals, i, DeclaredLocals(code, ptr + 1))
  /\ replace_last' = FALSE
  /\ UNCHANGED <<file, code, i, code_end>>

Decode(opcodes) == phase = "expr" /\ code[ptr] \in opcodes

\* Mutant: the block just met is not counted.
MutDecodeBlock ==
  /\ Decode(BlockOps)
  /\ ptr' = ptr + 2
  /\ StartBlock(static_ctr, code[ptr], ptr + 2)
  /\ dyn2static' = Set(dyn2static, scope, static_ctr)
  /\ UNCHANGED static_ctr
  /\ scope' = scope + 1
  /\ UNCHANGED <<file, code, phase, sectionVars>>

\* SCOPE_BEGIN_INSN: the block starts behind its block type.
DecodeBlock ==
  /\ Decode(BlockOps)
  /\ ptr' = ptr + 2
  /\ StartBlock(static_ctr, code[ptr], ptr + 2)
  /\ dyn2static' = Set(dyn2static, scope, static_ctr)
  /\ static_ctr' = static_ctr + 1
  /\ scope' = scope + 1
  /\ UNCHANGED <<file, code, phase, sectionVars>>

\* SCOPE_COM_DEC: the innermost open block ends at the address of its `end'.
DecodeEnd ==
  /\ Decode({WASM_OP_END})
  /\ ptr' = ptr + 1
  /\ scope' = scope - 1
  /\ LET n == dyn2static[scope - 1]
     IN static_blocks' = Set(static_blocks, n,
                             [BlockAt(n) EXCEPT !.end_addr = ptr])
  /\ phase' = IF scope = 1 THEN "expr_end" ELSE phase
  /\ UNCHANGED <<file, code, static_ctr, dyn2static, sectionVars>>

\* Where a branch to label idx goes.
Target(idx) ==
  LET block == BlockAt(dyn2static[scope - idx - 1])
  IN IF block.op = WASM_OP_LOOP THEN block.start_addr ELSE block.end_addr

\* Mutant: the offset counts from the label instead of from behind it.
MutReplaceAtLabel(slots) ==
  code' = IF replace_last
          THEN [a \in DOMAIN code |->
                  IF a \in slots THEN Target(code[a]) - a ELSE code[a]]
          ELSE code

\* Mutant: the offset is written behind the label.
MutReplaceBehind(slots) ==
  code' = IF replace_last
          THEN [a \in DOMAIN code |->
                  IF a - 1 \in slots THEN Target(code[a - 1]) - a ELSE code[a]]
          ELSE code

\* BR_REPLACE_OFFSET on the label in each of the slots: in the second run it
\* becomes the offset from the slot behind it to the target.
ReplaceOffsets(slots) ==
  code' = IF replace_last
          THEN [a \in DOMAIN code |->
                  IF a \in slots THEN Target(code[a]) - (a + 1) ELSE code[a]]
          ELSE code

DecodeBr ==
  /\ Decode({WASM_OP_BR, WASM_OP_BR_IF})
  /\ ptr' = ptr + 2
  /\ ReplaceOffsets({ptr + 1})
  /\ UNCHANGED <<file, phase, scope, static_ctr, dyn2static, static_blocks,
                 sectionVars>>

\* Mutant: every entry of the table is skipped as a pair.
MutDecodeBrTable ==
  /\ Decode({WASM_OP_BR_TABLE})
  /\ LET num_elems == code[ptr + 1]
     IN /\ ptr' = ptr + 2 + 2 * (num_elems + 1)
        /\ ReplaceOffsets((ptr + 2)..(ptr + 2 + num_elems))
  /\ UNCHANGED <<file, phase, scope, static_ctr, dyn2static, static_blocks,
                 sectionVars>>

\* The entries of the table, then the default label.
DecodeBrTable ==
  /\ Decode({WASM_OP_BR_TABLE})
  /\ LET num_elems == code[ptr + 1]
     IN /\ ptr' = ptr + 2 + num_elems + 1
        /\ ReplaceOffsets((ptr + 2)..(ptr + 2 + num_elems))
  /\ UNCHANGED <<file, phase, scope, static_ctr, dyn2static, static_blocks,
                 sectionVars>>

\* Every other instruction is skipped with its immediates.
DecodeOther ==
  /\ phase = "expr"
  /\ code[ptr] \notin BlockOps \cup {WASM_OP_END, WASM_OP_BR, WASM_OP_BR_IF,
                                     WASM_OP_BR_TABLE}
  /\ ptr' = NextInstr(code, ptr)
  /\ UNCHANGED <<file, code, phase, scope, static_ctr, dyn2static,
                 static_blocks, sectionVars>>

\* Mutant: the second run does not know that it is the second.
MutReplacePass ==
  /\ phase = "expr_end"
  /\ ~replace_last
  /\ code_end' = Set(code_end, i, ptr)
  /\ replace_last' = FALSE
  /\ EnterExpr(code_start[i])
  /\ UNCHANGED <<file, code, i, code_start, num_locals>>

\* decode_expr returned from its first run: run it again from code_start.
ReplacePass ==
  /\ phase = "expr_end"
  /\ ~replace_last
  /\ code_end' = Set(code_end, i, ptr)
  /\ replace_last' = TRUE
  /\ EnterExpr(code_start[i])
  /\ UNCHANGED <<file, code, i, code_start, num_locals>>

\* decode_expr returned from its second run: on to the next body.
NextBody ==
  /\ phase = "expr_end"
  /\ replace_last
  /\ i' = i + 1
  /\ phase' = IF i + 1 = file[1] THEN "done" ELSE "body"
  /\ UNCHANGED <<file, code, ptr, replace_last, scope, static_ctr, dyn2static,
                 static_blocks, code_start, code_end, num_locals>>

-----------------------------------------------------------------------------
\* Before decode_code_section, with the section in memory.
Start ==
  /\ code = file
  /\ phase = "section"
  /\ ptr = 1
  /\ i = 0
  /\ replace_last = FALSE
  /\ scope = 0
  /\ static_ctr = 0
  /\ dyn2static = <<>>
  /\ static_blocks = <<>>
  /\ code_start = <<>>
  /\ code_end = <<>>
  /\ num_locals = <<>>

Init == file \in Images /\ Start

Step ==
  \/ StartSection \/ StartBody
  \/ DecodeBlock \/ DecodeEnd \/ DecodeBr \/ DecodeBrTable \/ DecodeOther
  \/ ReplacePass \/ NextBody

Loaded == phase = "done" /\ UNCHANGED vars

Next == Step \/ Loaded

\* Loading is a sequential computation.
Spec == Init /\ [][Next]_vars /\ WF_vars(Step)
-----------------------------------------------------------------------------
\* The targets of the labels of body k, by the slots the labels are in.
BodyTargets(c, k) == Targets(c, CodeStart(c, k), CodeEnd(c, k))

\* The locals it declares.
LocalsOf(c, k) == DeclaredLocals(c, Headers(c)[k] + 1)

\* The registers of the loader; addresses stay inside the section, or one
\* behind it.
TypeOK ==
  /\ phase \in {"section", "body", "expr", "expr_end", "done"}
  /\ DOMAIN code = DOMAIN file
  /\ \A a \in DOMAIN code : code[a] \in Int
  /\ ptr \in 1..(Len(file) + 1)
  /\ i \in 0..file[1]
  /\ replace_last \in BOOLEAN
  /\ scope \in Nat /\ static_ctr \in Nat
  /\ DOMAIN dyn2static \subseteq Nat
  /\ DOMAIN static_blocks \subseteq Nat
  /\ DOMAIN code_end \subseteq DOMAIN code_start
  /\ DOMAIN code_start \subseteq 0..(file[1] - 1)
  /\ \A f \in DOMAIN num_locals : num_locals[f] \in Nat

\* dyn2static_idxs is read only where this run wrote it: every open block has
\* a number, larger than those of the blocks around it and already counted.
OpenBlocksNumbered ==
  phase = "expr" =>
    /\ 0..(scope - 1) \subseteq DOMAIN dyn2static
    /\ \A d \in 1..(scope - 1) : dyn2static[d - 1] < dyn2static[d]
    /\ scope >= 1 => dyn2static[0] = 0 /\ dyn2static[scope - 1] < static_ctr

\* After loading, every branch of every function leads to the target of its
\* label, whatever blocks the functions before it left in static_blocks: the
\* offset the interpreter adds when its pointer is behind the label.
BranchesLand ==
  phase = "done" =>
    \A f \in DOMAIN code_start :
      LET target == Targets(file, code_start[f], code_end[f])
      IN \A a \in DOMAIN target : (a + 1) + code[a] = target[a]

\* The loader writes to branch labels of the body it is at and to nothing else
\* of the code, and to each of them once.
LabelsReplacedOnce ==
  [][\A a \in DOMAIN code : code'[a] # code[a] =>
       /\ code[a] = file[a]
       /\ \E p \in InstrStarts(file, code_start[i], code_end[i]) :
            a \in LabelSlots(file, p)]_vars

\* The second run numbers the blocks as the first did, although it reads code
\* that it is overwriting: it finds in static_blocks what it would record.
SecondRunAgrees ==
  [][replace_last' => static_blocks' = static_blocks]_vars

\* Loading well-bracketed bodies ends.
Loads == <>(phase = "done")
=============================================================================
