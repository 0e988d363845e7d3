------------------------------- MODULE Weeify -------------------------------
(***************************************************************************)
(* weeify: the pass over a binary module that gives every branch label the *)
(* four bytes its offset will need, and refuses what its table of opcodes  *)
(* does not let pass.                                                      *)
(*                                                                         *)
(* It reads the input once, from front to back, and writes the output as   *)
(* it goes.  A length is known only when what it measures has been         *)
(* written, so five bytes are reserved for it and patched later by seeking *)
(* back; lengths nest: the section's is open while each body's is.         *)
(*                                                                         *)
(* Bytes are integers.  Opcodes, section codes and raw bytes are those of  *)
(* the program; LEB128 fields have the Group and Width of module Leb.      *)
(* write() writes all it is given.                                         *)
(***************************************************************************)
EXTENDS WeeCode, Leb, SequencesExt

CONSTANTS
  Files,      \* the input files: records [bytes, module, truncated]: the
              \* bytes of a module (see Encode), or the first of them
  OldOutputs, \* what the output file may hold already
  F64Bytes    \* the bytes of an f64, 8 in the program

ASSUME WeeifyAssumption == F64Bytes \in Nat

ASSUME FilesAssumption == /\ \A f \in Files : f.bytes \in Seq(Nat)
                          /\ OldOutputs \subseteq Seq(Nat)

VARIABLES
  file,         \* the input file; never changes
  out,          \* the bytes of the output file
  pos,          \* its offset: the number of bytes before the next write
  phase,        \* where weeify is; "exit" when main has returned
  ptr,          \* the read pointer
  section_end,  \* the end of the section at hand ...
  before,       \* ... and where its length was reserved
  bodies,       \* the bodies of the code section still to come
  body_end,     \* the end of the body at hand ...
  body_before,  \* ... and where its length was reserved
  dropped,      \* the first error of transform_body, which nobody looks at
  result,       \* what weeify returned
  exit_code     \* what main returned

inputVars == <<ptr, section_end, bodies, body_end>>
vars == <<file, out, pos, phase, inputVars, before, body_before, dropped,
          result, exit_code>>

bytes == file.bytes
end   == Len(bytes) + 1

WASM_SECT_CODE == 10
Header == <<0, 97, 115, 109, 1, 0, 0, 0>>   \* WASM_MAGIC, WASM_VERSION

-----------------------------------------------------------------------------
\* opcode_imm_table: the opcodes with an entry that lets them pass.  else, whose
\* entry is among the illegal ones, has its -1 in place of the kind of immediate.
LegalOps ==
  0..3 \cup {5} \cup 11..17 \cup 26..27 \cup 32..38 \cup {40} \cup 43..47 \cup {54}
    \cup 57..59 \cup {65} \cup 68..79 \cup 97..120 \cup 160..163 \cup 170..171
    \cup 183..186 \cup 192..193

\* Those with an entry that makes them illegal: if, try, i64 and f32
\* instructions, references, memory.grow.  The rest has no entry.
IllegalOps ==
  {4, 24, 25, 28, 41, 42, 55, 56, 66, 67} \cup 6..9 \cup 18..21 \cup 48..53
    \cup 60..64 \cup 80..96 \cup 121..159 \cup 164..169 \cup 172..182
    \cup 187..191 \cup 194..196 \cup 208..214

LabelOps == {WASM_OP_BR, WASM_OP_BR_IF}
IndexOps == LocalOps \cup GlobalOps \cup {WASM_OP_CALL, 37, 38}

\* The code of the only legal block type, void: -64 in one byte.
VoidType == -(Base \div 2)

-----------------------------------------------------------------------------
\* The file with data written at offset p.
Written(p, data) ==
  SubSeq(out, 1, p) \o data \o SubSeq(out, p + Len(data) + 1, Len(out))

Emit(data) == out' = Written(pos, data) /\ pos' = pos + Len(data)

\* Mutant: the reserved bytes are counted.
MutEmitPatchedLength(p) == out' = Written(p, EmitLeb5(pos - p)) /\ UNCHANGED pos

\* Mutant: the length is written behind the place reserved for it.
MutPatchBehind(p) ==
  out' = Written(p + MaxLen, EmitLeb5(pos - p - MaxLen)) /\ UNCHANGED pos

\* emit_patched_length: what was written since the reservation, at its place.
EmitPatchedLength(p) ==
  out' = Written(p, EmitLeb5(pos - p - MaxLen)) /\ UNCHANGED pos

Read(p, limit)  == ReadLeb(bytes, p, limit, FALSE)
From(p, q)      == SubSeq(bytes, p, q - 1)
Return(r)       == phase' = "returned" /\ result' = r

-----------------------------------------------------------------------------
\* The magic word and the version, which are copied.
CheckHeader ==
  /\ phase = "header"
  /\ IF end <= 4 \/ From(1, 5) # From(1, 1) \o SubSeq(Header, 1, 4)
     THEN Return(-1) /\ UNCHANGED <<out, pos, ptr>>
     ELSE IF end <= 8 \/ From(5, 9) # SubSeq(Header, 5, 8)
     THEN Return(-2) /\ ptr' = 5 /\ UNCHANGED <<out, pos>>
     ELSE /\ Emit(Header)
          /\ ptr' = 9
          /\ phase' = "section"
          /\ UNCHANGED result
  /\ UNCHANGED <<file, section_end, before, bodies, body_end, body_before,
                 dropped, exit_code>>

\* The header of a section, and all of it unless it is the code section.
NextSection ==
  /\ phase = "section"
  /\ ptr < end
  /\ LET len  == Read(ptr + 1, end)
         stop == len.ptr + len.val
     IN CASE stop > end ->
               /\ Return(-4)
               /\ ptr' = len.ptr
               /\ UNCHANGED <<out, pos, section_end, before, bodies>>
          [] stop <= end /\ bytes[ptr] # WASM_SECT_CODE ->
               /\ Emit(From(ptr, stop))
               /\ ptr' = stop
               /\ UNCHANGED <<phase, result, section_end, before, bodies>>
          [] OTHER ->
               \* transform_code_section, up to its loop
               LET count == Read(len.ptr, stop)
               IN /\ Emit(<<WASM_SECT_CODE>> \o EmitLeb5(0) \o EmitLeb(count.val))
                  /\ before' = pos + 1
                  /\ bodies' = count.val
                  /\ section_end' = stop
                  /\ ptr' = count.ptr
                  /\ phase' = "code"
                  /\ UNCHANGED result
  /\ UNCHANGED <<file, body_end, body_before, dropped, exit_code>>

\* The address behind n local declarations, (count, type) pairs, at p.
LocalsEnd(p, n, limit) ==
  LET decl[k \in 0..n] ==
        IF k = 0 THEN p
        ELSE ReadLeb(bytes, Read(decl[k - 1], limit).ptr, limit, TRUE).ptr
  IN decl[n]

\* transform_body, up to its loop: the locals are copied.
NextBody ==
  /\ phase = "code"
  /\ bodies > 0
  /\ LET len    == Read(ptr, section_end)
         limit  == len.ptr + len.val
         count  == Read(len.ptr, limit)
         start  == LocalsEnd(count.ptr, count.val, limit)
     IN /\ Emit(EmitLeb5(0) \o From(len.ptr, start))
        /\ body_before' = pos
        /\ body_end' = limit
        /\ ptr' = start
  /\ bodies' = bodies - 1
  /\ phase' = "body"
  /\ UNCHANGED <<file, section_end, before, dropped, result, exit_code>>

\* Mutant: one byte behind the body is skipped with it.
MutLeaveBody ==
  /\ ptr' = body_end + 1
  /\ phase' = "code"

\* transform_body returned: the code section goes on behind the body, whether
\* transform_body succeeded or not.
LeaveBody ==
  /\ ptr' = body_end
  /\ phase' = "code"

-----------------------------------------------------------------------------
AtOpcode(opcodes) == phase = "body" /\ ptr < body_end /\ bytes[ptr] \in opcodes

bodyVars == <<file, section_end, before, bodies, body_end, body_before,
              dropped, result, exit_code>>

\* Mutant: the table of call_indirect is not looked at.
MutVerdict ==
  LET op == bytes[ptr]
      p  == ptr + 1
  IN CASE op \notin LegalOps \cup IllegalOps -> -3
       [] op \in IllegalOps -> -4
       [] op \in BlockOps /\ ReadLeb(bytes, p, body_end, TRUE).val # VoidType -> -5
       [] op = WASM_OP_F64_CONST /\ p + F64Bytes > body_end -> -6
       [] OTHER -> 0

\* What transform_bytecode returns for the instruction at ptr.
Verdict ==
  LET op == bytes[ptr]
      p  == ptr + 1
  IN CASE op \notin LegalOps \cup IllegalOps -> -3
       [] op \in IllegalOps -> -4
       [] op \in BlockOps /\ ReadLeb(bytes, p, body_end, TRUE).val # VoidType -> -5
       [] /\ op = WASM_OP_CALL_INDIRECT
          /\ Read(Read(p, body_end).ptr, body_end).val # 0 -> -2
       [] op = WASM_OP_F64_CONST /\ p + F64Bytes > body_end -> -6
       [] OTHER -> 0

\* A message, and the rest of the body is dropped with the error.  Its length
\* stays as it was reserved.
Refuse ==
  /\ phase = "body" /\ ptr < body_end
  /\ Verdict # 0
  /\ dropped' = IF dropped = 0 THEN Verdict ELSE dropped
  /\ LeaveBody
  /\ UNCHANGED <<file, out, pos, section_end, before, bodies, body_end,
                 body_before, result, exit_code>>

\* br, br_if: the label becomes one of four bytes.
TransformLabel ==
  /\ AtOpcode(LabelOps)
  /\ LET imm == Read(ptr + 1, body_end)
     IN Emit(<<bytes[ptr]>> \o EmitLeb4(imm.val)) /\ ptr' = imm.ptr
  /\ UNCHANGED <<phase, bodyVars>>

\* br_table: so does its count, and every label up to the default one, as long
\* as the body lasts.
TransformLabels ==
  /\ AtOpcode({WASM_OP_BR_TABLE})
  /\ LET count == Read(ptr + 1, body_end)
         at[i \in 0..(count.val + 1)] ==   \* where the i-th label starts
           IF i = 0 THEN count.ptr ELSE Read(at[i - 1], body_end).ptr
         given == {i \in 0..count.val : at[i] < body_end}
         label(i) == EmitLeb4(Read(at[i - 1], body_end).val)
         n == Cardinality(given)
     IN /\ Emit(<<bytes[ptr]>> \o EmitLeb4(count.val)
                  \o FlattenSeq([i \in 1..n |-> label(i)]))
        /\ ptr' = at[n]
  /\ UNCHANGED <<phase, bodyVars>>

\* The address behind the immediates of the instruction at ptr, which is
\* copied as it is.
ImmediateEnd ==
  LET p == ptr + 1
  IN CASE bytes[ptr] \in IndexOps -> Read(p, body_end).ptr
       [] bytes[ptr] \in LoadOps \cup StoreOps ->   \* read_u8, and the offset
            Read(IF p < body_end THEN p + 1 ELSE p, body_end).ptr
       [] bytes[ptr] \in BlockOps \cup {WASM_OP_I32_CONST} ->
            ReadLeb(bytes, p, body_end, TRUE).ptr
       [] bytes[ptr] = WASM_OP_CALL_INDIRECT ->
            Read(Read(p, body_end).ptr, body_end).ptr
       [] bytes[ptr] = WASM_OP_F64_CONST -> p + F64Bytes
       [] OTHER -> p

TransformOther ==
  /\ AtOpcode(LegalOps \ (LabelOps \cup {WASM_OP_BR_TABLE}))
  /\ Verdict = 0
  /\ Emit(From(ptr, ImmediateEnd))
  /\ ptr' = ImmediateEnd
  /\ UNCHANGED <<phase, bodyVars>>

EndBody ==
  /\ phase = "body"
  /\ ptr >= body_end
  /\ EmitPatchedLength(body_before)
  /\ LeaveBody
  /\ UNCHANGED bodyVars

\* Mutant: the section is left with its last body still counted.
MutEndCode ==
  /\ phase = "code"
  /\ bodies = 0
  /\ EmitPatchedLength(before)
  /\ ptr' = section_end
  /\ phase' = "code"
  /\ UNCHANGED bodyVars

\* The length of the section, with every body in it.
EndCode ==
  /\ phase = "code"
  /\ bodies = 0
  /\ EmitPatchedLength(before)
  /\ ptr' = section_end
  /\ phase' = "section"
  /\ UNCHANGED bodyVars

EndModule ==
  /\ phase = "section"
  /\ ptr >= end
  /\ Return(0)
  /\ UNCHANGED <<file, out, pos, inputVars, before, body_before, dropped,
                 exit_code>>

\* main closes the output, whatever weeify returned.
Exit ==
  /\ phase = "returned"
  /\ phase' = "exit"
  /\ exit_code' = 0
  /\ UNCHANGED <<file, out, pos, inputVars, before, body_before, dropped,
                 result>>

-----------------------------------------------------------------------------
\* The output file is opened for writing and created if need be; what it
\* holds is left in it.
Init ==
  /\ file \in Files
  /\ out \in OldOutputs
  /\ pos = 0 /\ ptr = 1
  /\ phase = "header"
  /\ section_end = 0 /\ before = 0 /\ bodies = 0
  /\ body_end = 0 /\ body_before = 0
  /\ dropped = 0 /\ result = 0 /\ exit_code = -1

Step ==
  \/ CheckHeader \/ NextSection \/ NextBody
  \/ Refuse \/ TransformLabel \/ TransformLabels \/ TransformOther
  \/ EndBody \/ EndCode \/ EndModule \/ Exit

Done == phase = "exit" /\ UNCHANGED vars

Next == Step \/ Done

\* One process that is not interrupted.
Spec == Init /\ [][Next]_vars /\ WF_vars(Step)
-----------------------------------------------------------------------------
\* The reference: the bytes of a module, with the labels of its branches and
\* the lengths in its code section in the forms given.  A module is a sequence
\* of sections: [id, raw], all the bytes of it, or [id = 10, bodies].  A body
\* has local declarations [n, type] and instructions [op, labels, raw, odd]: raw
\* is the bytes of the immediates that are no labels; an odd instruction has a
\* block type that is not void or a table that is not the first, which
\* Wee-O-Wasm has not.
Forms == {"leb", "leb4", "leb5"}

Form(form, v) ==
  CASE form = "leb" -> EmitLeb(v)
    [] form = "leb4" -> EmitPadded(v, MaxLen - 1)
    [] form = "leb5" -> EmitPadded(v, MaxLen)

Sized(form, data) == Form(form, Len(data)) \o data

InstrBytes(j, labels) ==
  <<j.op>>
    \o (IF j.op = WASM_OP_BR_TABLE THEN Form(labels, Len(j.labels) - 1) ELSE <<>>)
    \o FlattenSeq([k \in 1..Len(j.labels) |-> Form(labels, j.labels[k])])
    \o j.raw

LocalsBytes(ds) ==
  EmitLeb(Len(ds)) \o FlattenSeq([k \in 1..Len(ds) |-> EmitLeb(ds[k].n) \o <<ds[k].type>>])

BodyData(b, labels) ==
  LocalsBytes(b.locals) \o FlattenSeq([k \in 1..Len(b.code) |-> InstrBytes(b.code[k], labels)])

CodeData(s, lengths, labels) ==
  EmitLeb(Len(s.bodies))
    \o FlattenSeq([k \in 1..Len(s.bodies) |-> Sized(lengths, BodyData(s.bodies[k], labels))])

SectionBytes(s, lengths, labels) ==
  IF s.id = WASM_SECT_CODE
  THEN <<s.id>> \o Sized(lengths, CodeData(s, lengths, labels))
  ELSE s.raw

Encode(module, lengths, labels) ==
  Header \o FlattenSeq([k \in 1..Len(module) |-> SectionBytes(module[k], lengths, labels)])

-----------------------------------------------------------------------------
\* What the binary format says of a module.

Numbers == 0..(2^Width - 1)
Indices == 0..(Base^(MaxLen - 1) - 1)   \* labels and tables: four bytes at most

Sequence(s) == s \in Seq(ToSet(s))

\* The bytes of one number: all but the last say that more follow.
IsLeb(s, signed) ==
  /\ s \in Seq(0..(2 * Base - 1)) /\ Len(s) \in 1..MaxLen
  /\ \A k \in 1..Len(s) : More(s[k]) <=> k < Len(s)
  /\ Len(s) = MaxLen => UpperLegal(s[MaxLen], signed)

WellFormedInstr(j) ==
  /\ j.op \in Nat /\ j.labels \in Seq(Indices) /\ j.raw \in Seq(Nat)
  /\ j.op \in LabelOps => Len(j.labels) = 1
  /\ j.op = WASM_OP_BR_TABLE => Len(j.labels) - 1 \in Indices
  /\ j.op \notin LabelOps \cup {WASM_OP_BR_TABLE} => j.labels = <<>>
  /\ j.op \in IndexOps => IsLeb(j.raw, FALSE)
  /\ j.op \in LoadOps \cup StoreOps => j.raw # <<>> /\ IsLeb(Tail(j.raw), FALSE)
  /\ j.op = WASM_OP_I32_CONST => IsLeb(j.raw, TRUE)
  /\ j.op = WASM_OP_F64_CONST => Len(j.raw) = F64Bytes
  /\ j.op \in BlockOps => \E b \in 0..(Base - 1) :
       j.raw = <<b>> /\ (j.odd <=> b # VoidType + Base)
  /\ j.op = WASM_OP_CALL_INDIRECT =>
       \E n \in 1..Len(j.raw), form \in Forms, table \in Indices :
         /\ IsLeb(SubSeq(j.raw, 1, n), FALSE)
         /\ SubSeq(j.raw, n + 1, Len(j.raw)) = Form(form, table)
         /\ j.odd <=> table # 0
  /\ j.op \in LegalOps \ (IndexOps \cup LoadOps \cup StoreOps \cup ConstOps \cup BlockOps
                             \cup {WASM_OP_CALL_INDIRECT}) => j.raw = <<>>
  /\ j.op \notin BlockOps \cup {WASM_OP_CALL_INDIRECT} => ~j.odd

WellFormedBody(b) ==
  /\ b.locals \in Seq([n : Numbers, type : 0..(Base - 1)]) /\ Len(b.locals) \in Numbers
  /\ Sequence(b.code) /\ \A j \in ToSet(b.code) : WellFormedInstr(j)

WellFormedSection(s) ==
  IF s.id = WASM_SECT_CODE
  THEN /\ Sequence(s.bodies) /\ Len(s.bodies) \in Numbers
       /\ \A b \in ToSet(s.bodies) : WellFormedBody(b)
  ELSE /\ s.id \in Nat /\ s.raw \in Seq(Nat)
       /\ \E n \in 1..Len(s.raw), form \in Forms \ {"leb4"} :
            /\ s.raw = <<s.id>> \o Sized(form, SubSeq(s.raw, n + 1, Len(s.raw)))
            /\ Len(s.raw) - n \in Numbers

\* f holds the bytes of its module, or the first of them if it is cut short.
\* Lengths are numbers.
Encoded(f, lengths, labels) ==
  LET whole == Encode(f.module, lengths, labels)
  IN /\ \A s \in {t \in ToSet(f.module) : t.id = WASM_SECT_CODE} :
          /\ Len(CodeData(s, lengths, labels)) \in Numbers
          /\ \A b \in ToSet(s.bodies) : Len(BodyData(b, labels)) \in Numbers
     /\ \/ f.bytes = whole
        \/ f.truncated /\ f.bytes = SubSeq(whole, 1, Len(f.bytes)) /\ Len(f.bytes) <= Len(whole)

ASSUME ModulesAssumption ==
  /\ \A s \in UNION {ToSet(f.module) : f \in Files} : WellFormedSection(s)
  /\ \A f \in Files :
       /\ Sequence(f.module) /\ f.truncated \in BOOLEAN
       /\ \E lengths \in Forms \ {"leb4"}, labels \in Forms : Encoded(f, lengths, labels)

-----------------------------------------------------------------------------
Instructions ==
  UNION {UNION {ToSet(b.code) : b \in ToSet(s.bodies)} :
           s \in {t \in ToSet(file.module) : t.id = WASM_SECT_CODE}}

\* What the table and the immediates make transform_bytecode refuse.
Refused(j) == j.op \notin LegalOps \/ j.odd

\* Whether the file is a whole module of instructions that are not refused.
Acceptable ==
  /\ ~file.truncated
  /\ \A j \in Instructions : ~Refused(j)

Padded == Encode(file.module, "leb5", "leb4")

\* The registers stay where they belong.
TypeOK ==
  /\ phase \in {"header", "section", "code", "body", "returned", "exit"}
  /\ pos \in 0..Len(out)
  /\ ptr \in 1..end /\ section_end \in 0..end /\ body_end \in 0..end
  /\ bodies \in Nat
  /\ before \in 0..pos /\ body_before \in 0..pos
  /\ dropped \in -6..0 /\ result \in -4..0 /\ exit_code \in {-1, 0}

\* Of a module it does not refuse, whatever form its labels and lengths have, weeify
\* writes the same module with four-byte labels and with lengths that are
\* right; of its own output it writes a copy.
OutputIsPadded ==
  phase = "exit" /\ Acceptable => SubSeq(out, 1, pos) = Padded

\* Bytes once written stay, except those of a length that was reserved: a
\* patch does not reach into the code behind or before it.
PatchesOnlyLengths ==
  [][\A k \in 1..pos : out'[k] # out[k] =>
       \E p \in {before, body_before} : k \in (p + 1)..(p + MaxLen)]_vars

\* The opcodes run() has a handler for: target_jump_table of weewasm.h.  It jumps
\* through that table whatever the opcode is.
JumpTable == Opcodes \cup {4, 5, 37, 38, 185, 186}

\* The opcodes of illegal.h.  (It has else, table.get and table.set, which weewasm.h
\* has as well.)
IllegalHeader ==
  4..9 \cup 18..21 \cup 24..25 \cup {28} \cup 37..38 \cup 41..42 \cup 48..53
    \cup 55..56 \cup 60..64 \cup 66..67 \cup 80..96 \cup 121..159 \cup 164..169
    \cup 172..182 \cup 187..191 \cup 194..196 \cup 208..214

\* weeify is all that stands between the validator and the jump table: a module that
\* got through whole has only opcodes that run() can jump to, void blocks and calls
\* through the one table; a body is given up only for what another table of the
\* repository calls illegal, or run() does not know, or for such an immediate.
RefusesRightly ==
  phase = "exit" /\ ~file.truncated =>
    /\ dropped = 0 => \A j \in Instructions : j.op \in JumpTable /\ ~j.odd
    /\ dropped # 0 =>
         \E j \in Instructions : j.op \in IllegalHeader \/ j.op \notin JumpTable \/ j.odd

\* The "illegal bytecodes" of opcode_imm_table: the entries under that comment.
IllegalBytecodes == IllegalHeader \ 37..38

\* What the table lists as illegal does not get through.
IllegalBytecodesRefused ==
  phase = "exit" /\ ~file.truncated /\ dropped = 0 =>
    \A j \in Instructions : j.op \notin IllegalBytecodes

\* Every pass over a file ends.
Terminates == <>(phase = "exit")
=============================================================================
