------------------------------ MODULE WasmBinary ------------------------------
(***************************************************************************)
(* The binary format of WebAssembly, as far as Wee-O-Wasm has it: the      *)
(* bytes of a module that is given by what it declares.  A number is one   *)
(* byte, a signed one two's complement in seven bits.                      *)
(*                                                                         *)
(* A module declares types, imports (functions), funcs, tables, mems,      *)
(* globals, exports, starts (none or one), elems and data.                 *)
(***************************************************************************)
EXTENDS Integers, Sequences, SequencesExt

\* The concatenated encodings of the elements of a sequence, behind their number.
Vec(s, Enc(_)) == <<Len(s)>> \o FlattenSeq([k \in 1..Len(s) |-> Enc(s[k])])

Byte(b)   == <<b>>
Name(s)   == Vec(s, Byte)
Signed(n) == IF n < 0 THEN n + 128 ELSE n

ConstExpr(v)  == <<65, Signed(v), 11>>
LimitsEnc(l)  == IF l.has_max = 0 THEN <<0, l.initial>> ELSE <<1, l.initial, l.max>>

TypeEnc(t)    == <<96>> \o Vec(t.params, Byte) \o Vec(t.results, Byte)
ImportEnc(i)  == Name(i.mod) \o Name(i.name) \o <<0, i.type>>
FuncEnc(f)    == <<f.type>>
TableEnc(l)   == <<112>> \o LimitsEnc(l)
GlobalEnc(g)  == <<g.type, g.mutable>> \o g.init
ExportEnc(e)  == Name(e.name) \o <<e.kind, e.index>>
ElemEnc(e)    == <<0>> \o ConstExpr(e.offset) \o Vec(e.funcs, Byte)
DataEnc(d)    == <<0>> \o ConstExpr(d.offset) \o Vec(d.bytes, Byte)
LocalEnc(l)   == <<l.count, l.type>>
BodyEnc(f)    == LET b == Vec(f.locals, LocalEnc) \o f.code IN <<Len(b)>> \o b

SectionEnc(id, payload) == <<id, Len(payload)>> \o payload

\* A section that would be empty is left out.
Optional(id, s, Enc(_)) == IF s = <<>> THEN <<>> ELSE SectionEnc(id, Vec(s, Enc))

SectionsOf(m) ==
  << Optional(1, m.types, TypeEnc),     Optional(2, m.imports, ImportEnc),
     Optional(3, m.funcs, FuncEnc),     Optional(4, m.tables, TableEnc),
     Optional(5, m.mems, LimitsEnc),    Optional(6, m.globals, GlobalEnc),
     Optional(7, m.exports, ExportEnc),
     IF m.starts = <<>> THEN <<>> ELSE SectionEnc(8, m.starts),
     Optional(9, m.elems, ElemEnc),     Optional(10, m.funcs, BodyEnc),
     Optional(11, m.data, DataEnc) >>

Preamble == <<0, 97, 115, 109, 1, 0, 0, 0>>

\* The module, with the bytes of extra[k] before section k, and behind the last
\* for k = 12.
EncodeWith(m, extra) ==
  Preamble \o FlattenSeq([k \in 1..11 |-> extra[k] \o SectionsOf(m)[k]]) \o extra[12]
=============================================================================
