----------------------------- MODULE WasmInstance -----------------------------
(***************************************************************************)
(* A WebAssembly instance: what its memory, table and globals hold after   *)
(* instantiation, and what an access to them yields.                       *)
(*                                                                         *)
(* Instantiation is one step: the segments are all inside, and the memory  *)
(* and the table hold them over zeros and nulls.  A module with a segment  *)
(* that is not inside has no instance in WebAssembly, and nothing is said  *)
(* of what becomes of it but that it is an overrun.  An address is a       *)
(* number without bound: the sum of an i32 and an offset.                  *)
(***************************************************************************)
EXTENDS Integers, Sequences

CONSTANTS
  Modules,     \* the modules that may be instantiated
  PageSize, ByteMod, U32,  \* bytes of a page, values of a byte and of an i32
  Accesses,    \* the accesses a program may make: [op, n, addr, off, val]
  Lookups,     \* the calls through the table: [idx, type]
  Null         \* an empty entry of the table

VARIABLES module, phase, mem, table, globals, out

vars == <<module, phase, mem, table, globals, out>>

\* s with the elements of t from position p (counted from 0) on.
Overlay(s, p, t) ==
  [k \in DOMAIN s |-> IF k \in (p + 1)..(p + Len(t)) THEN t[k - p] ELSE s[k]]

\* s with all segments laid over it, a later one over an earlier.
Filled(s, segments) ==
  LET after[k \in 0..Len(segments)] ==
        IF k = 0 THEN s ELSE Overlay(after[k - 1], segments[k].offset, segments[k].items)
  IN after[Len(segments)]

\* Each segment that holds anything is inside.  (WebAssembly asks the same of
\* an empty one; this specification gives its module an instance.)
FitAll(size, segments) ==
  \A k \in DOMAIN segments :
    segments[k].items = <<>> \/ segments[k].offset + Len(segments[k].items) <= size

\* The number whose digits, the low one first, are the bytes of s.
Number(s) ==
  LET sum[k \in 0..Len(s)] ==
        IF k = 0 THEN 0 ELSE sum[k - 1] + s[k] * ByteMod^(k - 1)
  IN sum[Len(s)]

Bytes(v, n) == [k \in 1..n |-> (v \div ByteMod^(k - 1)) % ByteMod]

Init ==
  /\ module \in Modules
  /\ phase = "start"
  /\ mem = <<>> /\ table = <<>> /\ globals = <<>>
  /\ out = Null

Fail ==
  /\ phase' = "trapped"
  /\ UNCHANGED <<module, mem, table, globals, out>>

Instantiate ==
  /\ phase = "start"
  /\ FitAll(module.pages * PageSize, module.data)
  /\ FitAll(module.table_size, module.elems)
  /\ mem' = Filled([k \in 1..(module.pages * PageSize) |-> 0], module.data)
  /\ table' = Filled([k \in 1..module.table_size |-> Null], module.elems)
  /\ globals' = module.globals
  /\ phase' = "ready"
  /\ UNCHANGED <<module, out>>

Overrun ==
  /\ phase = "start"
  /\ \/ ~FitAll(module.pages * PageSize, module.data)
     \/ ~FitAll(module.table_size, module.elems)
  /\ phase' = "overrun"
  /\ UNCHANGED <<module, mem, table, globals, out>>

\* The value of a load of n bytes: sign-extended to the width of an i32.
Loaded(op, s) ==
  LET v == Number(s) IN
  IF op = "load_s" /\ v >= ByteMod^Len(s) \div 2 THEN v + U32 - ByteMod^Len(s) ELSE v

Load(a) ==
  /\ phase = "ready"
  /\ a.op \in {"load_s", "load_u"}
  /\ IF a.addr + a.off + a.n > Len(mem) THEN Fail
     ELSE /\ out' = Loaded(a.op, SubSeq(mem, a.addr + a.off + 1, a.addr + a.off + a.n))
          /\ UNCHANGED <<module, phase, mem, table, globals>>

Store(a) ==
  /\ phase = "ready"
  /\ a.op = "store"
  /\ IF a.addr + a.off + a.n > Len(mem) THEN Fail
     ELSE /\ mem' = Overlay(mem, a.addr + a.off, Bytes(a.val, a.n))
          /\ UNCHANGED <<module, phase, table, globals, out>>

\* call_indirect: the function in the table, if it is there and its type is
\* equal to the one named, whatever the index of either.
Lookup(l) ==
  /\ phase = "ready"
  /\ IF \/ l.idx >= Len(table)
        \/ table[l.idx + 1] = Null
        \/ module.types[module.sigs[table[l.idx + 1]]] # module.types[l.type]
     THEN Fail
     ELSE /\ out' = table[l.idx + 1]
          /\ UNCHANGED <<module, phase, mem, table, globals>>

Next ==
  \/ Instantiate \/ Overrun
  \/ \E a \in Accesses : Load(a) \/ Store(a)
  \/ \E l \in Lookups : Lookup(l)

Spec == Init /\ [][Next]_vars /\ WF_vars(Instantiate \/ Overrun)
=============================================================================
