----------------------------- MODULE WeeSections -----------------------------
(***************************************************************************)
(* The section loader (disassemble and decode_sections of weedis.c): the   *)
(* bytes of a module become a wasm_module_t, one section after another.    *)
(*                                                                         *)
(* A number is one byte here: the longer forms of LEB128 are the matter of *)
(* module Leb, the instructions of a body that of module Weedis.  Nothing  *)
(* in a decoder stops at the first error: an error is a line on stderr,    *)
(* and what keeps the loader from taking the middle of a section for the   *)
(* head of the next is the comparison of where a decoder stopped with      *)
(* where the section ends.  Every section of a file here lies within it.   *)
(***************************************************************************)
EXTENDS Integers, Sequences

CONSTANTS
  Files,  \* the files: [bytes, ast, supported, bad], see MCWeeSections
  Junk    \* a field of malloc's memory that no decoder wrote

VARIABLES
  file,    \* the file; never changes
  ptr,     \* buf->ptr, an index into the bytes
  module,  \* the wasm_module_t
  errors,  \* what has been reported on stderr
  phase,   \* "header", "sections", "end"; then "loaded", or "hangs"
  result   \* of parse

vars == <<file, ptr, module, errors, phase, result>>

-----------------------------------------------------------------------------
bytes  == file.bytes
bufend == Len(bytes) + 1

WASM_KIND_FUNC    == 96
WASM_IE_DESC_FUNC == 0
WASM_OP_I32_CONST == 65
WASM_OP_END       == 11

\* What a reader returns: a value, where it left the pointer, what it reported.
Read(val, next, errs) == [val |-> val, next |-> next, errs |-> errs]

\* read_u32leb and read_u8 at p, in a buffer that ends at end.
U32(p, end) == IF p < end THEN Read(bytes[p], p + 1, {}) ELSE Read(0, p, {})
U8(p, end)  == IF p < end THEN Read(bytes[p], p + 1, {}) ELSE Read(0, p, {"u8 out of bounds"})

\* read_string.
Str(p, end) ==
  LET sz == U32(p, end)
  IN IF sz.next + sz.val > end
     THEN Read(Junk, sz.next, {"string out of bounds"})
     ELSE Read(SubSeq(bytes, sz.next, sz.next + sz.val - 1), sz.next + sz.val, {})

\* n entries, each read by Entry(p, end) where the one before it stopped.  A
\* type that is not one of functions ends its whole section.
Many(n, p, end, Entry(_, _)) ==
  LET read[k \in 0..n] ==
        IF k = 0 THEN Read(<<>>, p, {})
        ELSE LET before == read[k - 1]
                 e      == Entry(before.next, end)
             IN IF "not a function type" \in before.errs THEN before
                ELSE Read(Append(before.val, e.val), e.next, before.errs \cup e.errs)
  IN read[n]

\* A vector: the number of its entries and the entries.
Vector(p, end, Entry(_, _)) ==
  LET n == U32(p, end) IN Many(n.val, n.next, end, Entry)

\* Mutant: every instruction but f64.const has a number.
MutNextInstruction(p, end) ==
  CASE bytes[p] # 68 /\ p + 2 <= end -> p + 2
    [] bytes[p] = 68 /\ p + 9 <= end -> p + 9
    [] OTHER                         -> p + 1

\* An instruction with one number, one with a double, or one without immediates;
\* the bodies here have no others.  An immediate that does not fit is not skipped,
\* and read_u64 reports it.
NextInstruction(p, end) ==
  CASE bytes[p] \in {WASM_OP_I32_CONST, 35} /\ p + 2 <= end -> p + 2
    [] bytes[p] = 68 /\ p + 9 <= end                        -> p + 9
    [] OTHER                                                -> p + 1

\* decode_expr: on until the end of the block it began in.  At the end of the
\* buffer it reads zeros for ever.
Expr(p, end) ==
  LET stop[q \in p..end] ==
        IF q >= end THEN Read(Junk, end, {"hangs"})
        ELSE IF bytes[q] = WASM_OP_END
             THEN Read([start |-> p, end |-> q + 1], q + 1, {})
             ELSE LET rest == stop[NextInstruction(q, end)]
                  IN [rest EXCEPT !.errs = @ \cup {e \in {"u64 out of bounds"} :
                                                    bytes[q] = 68 /\ q + 9 > end}]
  IN stop[p]

\* read_limits.
Limits(p, end) ==
  LET flag == U8(p, end)
      min  == U32(flag.next, end)
      max  == U32(min.next, end)
  IN IF flag.val # 0
     THEN Read([initial |-> min.val, has_max |-> flag.val, max |-> max.val], max.next, flag.errs)
     ELSE Read([initial |-> min.val, has_max |-> 0, max |-> Junk], min.next, flag.errs)

\* decode_flag_and_i32_const_off_expr: each step is checked and reported, none
\* is undone.
Offset(p, end) ==
  LET flag == U32(p, end)
      opc  == U8(flag.next, end)
      off  == U32(opc.next, end)
      last == U8(off.next, end)
  IN Read(off.val, last.next,
          opc.errs \cup last.errs
            \cup {e \in {"flag"} : flag.val # 0}
            \cup {e \in {"not i32.const"} : opc.val # WASM_OP_I32_CONST}
            \cup {e \in {"no end"} : last.val # WASM_OP_END})

-----------------------------------------------------------------------------
\* The entry of each section.
Sig(p, end) ==
  LET kind    == U8(p, end)
      params  == Vector(kind.next, end, U8)
      results == Vector(params.next, end, U8)
  IN IF kind.val # WASM_KIND_FUNC
     THEN Read(Junk, kind.next, {"not a function type"})
     ELSE Read([params |-> params.val, results |-> results.val], results.next,
               params.errs \cup results.errs)

\* Only functions can be imported: the index of anything else is not read, and
\* what describes it is left to the next reader.
Import(p, end) ==
  LET mod  == Str(p, end)
      name == Str(mod.next, end)
      kind == U8(name.next, end)
      idx  == U32(kind.next, end)
      func == kind.val = WASM_IE_DESC_FUNC
  IN Read([mod |-> mod.val, name |-> name.val, kind |-> kind.val,
           index |-> IF func THEN idx.val ELSE Junk],
          IF func THEN idx.next ELSE kind.next,
          mod.errs \cup name.errs \cup kind.errs \cup {e \in {"invalid index type"} : ~func})

Table(p, end) ==
  LET type   == U8(p, end)
      limits == Limits(type.next, end)
  IN Read(limits.val, limits.next, type.errs \cup limits.errs)

Global(p, end) ==
  LET type    == U8(p, end)
      mutable == U8(type.next, end)
      init    == Expr(mutable.next, end)
  IN Read([type |-> type.val, mutable |-> mutable.val, init |-> init.val], init.next,
          type.errs \cup mutable.errs \cup init.errs)

Export(p, end) ==
  LET name == Str(p, end)
      kind == U8(name.next, end)
      idx  == U32(kind.next, end)
  IN Read([name |-> name.val, kind |-> kind.val, index |-> idx.val], idx.next,
          name.errs \cup kind.errs)

Elem(p, end) ==
  LET off  == Offset(p, end)
      idxs == Vector(off.next, end, U32)
  IN Read([offset |-> off.val, func_indexes |-> idxs.val], idxs.next, off.errs)

\* The bytes of a segment stay in the file; they are read one by one to be
\* printed, not beyond the section.
Data(p, end) ==
  LET off  == Offset(p, end)
      sz   == U32(off.next, end)
      stop == sz.next + sz.val
  IN Read([offset |-> off.val, start |-> sz.next, end |-> stop],
          IF stop <= end THEN stop ELSE end,
          off.errs \cup {e \in {"u8 out of bounds"} : stop > end})

Local(p, end) ==
  LET num  == U32(p, end)
      type == U8(num.next, end)
  IN Read([count |-> num.val, type |-> type.val], type.next, type.errs)

\* decode_locals and decode_expr; the size of a body is read and not used.
Body(p, end) ==
  LET size   == U32(p, end)
      locals == Vector(size.next, end, Local)
      code   == Expr(locals.next, end)
  IN Read([local_decl |-> locals.val, code |-> code.val], code.next,
          locals.errs \cup code.errs)
-----------------------------------------------------------------------------
\* What a section decoder leaves: the module, where it stopped, what it reported.
Decoded(m, r) == [module |-> m, next |-> r.next, errs |-> r.errs]

TypeSection(p, end) ==
  LET sigs == Vector(p, end, Sig)
  IN Decoded(IF "not a function type" \in sigs.errs THEN module
             ELSE [module EXCEPT !.sigs = sigs.val], sigs)

ImportSection(p, end) ==
  LET imports == Vector(p, end, Import)
  IN Decoded([module EXCEPT !.imports = imports.val], imports)

Func(index) == [sig_index |-> index, local_decl |-> Junk, code |-> Junk]

\* The functions of the module are numbered after the imported ones.
FunctionSection(p, end) ==
  LET idxs     == Vector(p, end, U32)
      imported == [k \in 1..Len(module.imports) |-> Func(module.imports[k].index)]
      own      == [k \in 1..Len(idxs.val) |-> Func(idxs.val[k])]
  IN Decoded([module EXCEPT !.funcs = imported \o own], idxs)

TableSection(p, end) ==
  LET tables == Vector(p, end, Table)
  IN Decoded([module EXCEPT !.tables = tables.val], tables)

\* The limits of one memory are read, however many there are.
MemorySection(p, end) ==
  LET n      == U32(p, end)
      limits == Limits(n.next, end)
  IN [module |-> [module EXCEPT !.num_mems = n.val, !.mem_limits = limits.val],
      next |-> limits.next,
      errs |-> limits.errs \cup {e \in {"not one memory"} : n.val # 1}]

GlobalSection(p, end) ==
  LET globals == Vector(p, end, Global)
  IN Decoded([module EXCEPT !.globals = globals.val], globals)

ExportSection(p, end) ==
  LET exports == Vector(p, end, Export)
  IN Decoded([module EXCEPT !.exports = exports.val], exports)

StartSection(p, end) ==
  LET idx == U32(p, end)
  IN Decoded([module EXCEPT !.has_start = TRUE, !.start_idx = idx.val], idx)

ElementSection(p, end) ==
  LET elems == Vector(p, end, Elem)
  IN Decoded([module EXCEPT !.elems = elems.val], elems)

\* The bodies belong to the functions behind the imported ones.
CodeSection(p, end) ==
  LET bodies == Vector(p, end, Body)
      own(f) == f - Len(module.imports)
  IN Decoded([module EXCEPT !.funcs =
                [f \in DOMAIN module.funcs |->
                   IF own(f) \in DOMAIN bodies.val
                   THEN [module.funcs[f] EXCEPT !.local_decl = bodies.val[own(f)].local_decl,
                                                !.code = bodies.val[own(f)].code]
                   ELSE module.funcs[f]]], bodies)

DataSection(p, end) ==
  LET data == Vector(p, end, Data)
  IN Decoded([module EXCEPT !.data = data.val], data)

\* Mutant: only the name of a custom section is read.
MutCustomSection(p, end) ==
  [module |-> module, next |-> Str(p, end).next, errs |-> Str(p, end).errs]

\* Whatever is behind the name of a custom section is skipped.
CustomSection(p, end) ==
  [module |-> module, next |-> end, errs |-> Str(p, end).errs]

UnknownSection(p, end) == [module |-> module, next |-> p, errs |-> {"unknown section"}]

\* The switch of decode_sections.
Decode(id, p, end) ==
  CASE id = 0  -> CustomSection(p, end)
    [] id = 1  -> TypeSection(p, end)
    [] id = 2  -> ImportSection(p, end)
    [] id = 3  -> FunctionSection(p, end)
    [] id = 4  -> TableSection(p, end)
    [] id = 5  -> MemorySection(p, end)
    [] id = 6  -> GlobalSection(p, end)
    [] id = 7  -> ExportSection(p, end)
    [] id = 8  -> StartSection(p, end)
    [] id = 9  -> ElementSection(p, end)
    [] id = 10 -> CodeSection(p, end)
    [] id = 11 -> DataSection(p, end)
    [] OTHER   -> UnknownSection(p, end)

-----------------------------------------------------------------------------
NoModule ==
  [sigs |-> <<>>, imports |-> <<>>, funcs |-> <<>>, tables |-> <<>>,
   num_mems |-> 0, mem_limits |-> [initial |-> 0, has_max |-> 0, max |-> 0],
   globals |-> <<>>, exports |-> <<>>, has_start |-> FALSE, start_idx |-> 0,
   elems |-> <<>>, data |-> <<>>]

Init ==
  /\ file \in Files
  /\ ptr = 1
  /\ module = NoModule
  /\ errors = {}
  /\ phase = "header"
  /\ result = Junk

\* disassemble: magic and version are read and not looked at.
Header ==
  /\ phase = "header"
  /\ IF bytes = <<>>
     THEN phase' = "loaded" /\ result' = 0 /\ UNCHANGED ptr
     ELSE ptr' = ptr + 8 /\ phase' = "sections" /\ UNCHANGED result
  /\ UNCHANGED <<file, module, errors>>

\* Mutant: the loader goes on wherever a decoder stopped.
MutAligned(next, end) == TRUE

Aligned(next, end) == next = end

\* One turn of the loop of decode_sections.
Section ==
  /\ phase = "sections"
  /\ ptr < bufend
  /\ LET id   == U8(ptr, bufend)
         len  == U32(id.next, bufend)
         end  == len.next + len.val
         d    == Decode(id.val, len.next, end)
     IN IF "hangs" \in d.errs
        THEN phase' = "hangs" /\ UNCHANGED <<ptr, module, errors>>
        ELSE /\ module' = d.module
             /\ IF Aligned(d.next, end)
                THEN /\ ptr' = d.next
                     /\ errors' = errors \cup d.errs
                     /\ UNCHANGED phase
                ELSE /\ ptr' = len.next
                     /\ errors' = errors \cup d.errs \cup {"section not aligned"}
                     /\ phase' = "end"
  /\ UNCHANGED <<file, result>>

\* The end of disassemble, and parse, which returns 0.
Finish ==
  /\ \/ phase = "sections" /\ ptr >= bufend
     \/ phase = "end"
  /\ phase' = "loaded"
  /\ errors' = errors \cup {e \in {"unaligned with EOF"} : ptr # bufend}
  /\ result' = 0
  /\ UNCHANGED <<file, ptr, module>>

Next == Header \/ Section \/ Finish

\* Loading is a sequential computation.
Spec == Init /\ [][Next]_vars /\ WF_vars(Next)
=============================================================================
