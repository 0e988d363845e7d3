----------------------------- MODULE WeeInstance -----------------------------
(***************************************************************************)
(* Instantiation (module_instantiate of weerun.c) and the accesses of the  *)
(* running program to what it makes: linear memory, table and globals.     *)
(*                                                                         *)
(* The numbers of a module are 32-bit: products and sums of them wrap at   *)
(* U32.  Pointers are not: a sum of a pointer and two 32-bit numbers does  *)
(* not.  No segment is compared with the size of what it is copied into; a *)
(* copy that leaves it is undefined behaviour, of which nothing is said    *)
(* but that it happened (phase "overrun").                                 *)
(***************************************************************************)
EXTENDS Integers, Sequences

CONSTANTS
  Modules,   \* the modules, as the loader leaves them (wasm_module_t)
  PageSize,  \* PAGE_SIZE
  ByteMod,   \* the values of a byte, 256 ...
  U32,       \* ... and of a 32-bit number
  Fresh,     \* what a byte that malloc returned may hold
  Accesses,  \* the accesses a program may make: [op, n, addr, off, val]
  Lookups,   \* the calls through the table: [idx, type]
  Null,      \* NULL
  DeadBeef   \* wasm_i32_value(0xDEADBEEF)

\* Byte k of a number, the low one being byte 1.
ByteOf(v, k) == (v \div ByteMod^(k - 1)) % ByteMod

ASSUME InstanceAssumption ==
  /\ PageSize \in Nat \ {0} /\ U32 \in Nat \ {0} /\ ByteMod \in Nat \ {0, 1}
  /\ Fresh # {} /\ Fresh \subseteq 0..(ByteMod - 1)

\* Segments lie at numbers and hold bytes, or functions of the module.
ASSUME ModulesAssumption ==
  \A m \in Modules :
    /\ m.pages \in 0..(U32 - 1) /\ m.table_size \in Nat
    /\ m.data \in Seq([offset : Nat, items : Seq(0..(ByteMod - 1))])
    /\ m.elems \in Seq([offset : Nat, items : Seq(DOMAIN m.sigs)])

\* The last conjunct is arithmetic, of powers that the provers know nothing of.
ASSUME AccessesAssumption ==
  \A a \in Accesses :
    /\ a.n \in Nat \ {0} /\ a.addr \in 0..(U32 - 1) /\ a.off \in 0..(U32 - 1)
    /\ \A k \in 1..a.n : ByteOf(a.val, k) \in 0..(ByteMod - 1)

ASSUME LookupsAssumption == \A l \in Lookups : l.idx \in Nat

VARIABLES
  module,   \* the module; never changes
  phase,    \* the function of module_instantiate that comes next, "ready"
            \* while the program runs, or how it ended
  i,        \* the segment that comes next
  mem,      \* inst->mem up to inst->mem_end
  table,    \* inst->table up to inst->table_end
  globals,  \* inst->globals
  main_idx, \* inst->main_idx
  out       \* what the last access or lookup yielded

vars == <<module, phase, i, mem, table, globals, main_idx, out>>

-----------------------------------------------------------------------------
num_pages == IF module.pages # 0 THEN module.pages ELSE 1

\* memory_instantiate.  The size is a 32-bit product; the bytes are malloc's,
\* in the model all of them the same.
MemoryInstantiate ==
  /\ phase = "memory"
  /\ \E b \in Fresh : mem' = [k \in 1..((PageSize * num_pages) % U32) |-> b]
  /\ phase' = "data"
  /\ i' = 1
  /\ UNCHANGED <<module, table, globals, main_idx, out>>

Overrun ==
  /\ phase' = "overrun"
  /\ UNCHANGED <<module, i, mem, table, globals, main_idx, out>>

\* memcpy of items to offset p of array s, if it stays inside.
Copied(s, p, items) ==
  [k \in DOMAIN s |-> IF k \in (p + 1)..(p + Len(items)) THEN items[k - p] ELSE s[k]]

\* Nothing to copy is copied anywhere.
Inside(s, p, items) == items = <<>> \/ p + Len(items) <= Len(s)

\* data_instantiate, one segment.
DataInstantiate ==
  /\ phase = "data"
  /\ i <= Len(module.data)
  /\ LET data == module.data[i]
     IN IF Inside(mem, data.offset, data.items)
        THEN /\ mem' = Copied(mem, data.offset, data.items)
             /\ i' = i + 1
             /\ UNCHANGED <<module, phase, table, globals, main_idx, out>>
        ELSE Overrun

\* decode_const: anything but a constant is reported and taken for a number.
DecodeConst(expr) == IF expr.op = "const" THEN expr.val ELSE DeadBeef

\* globals_instantiate.
GlobalsInstantiate ==
  /\ phase = "data"
  /\ i > Len(module.data)
  /\ globals' = [g \in DOMAIN module.globals |-> DecodeConst(module.globals[g])]
  /\ phase' = "table"
  /\ UNCHANGED <<module, i, mem, table, main_idx, out>>

\* Mutant: the table is not cleared.
MutTableInstantiate ==
  /\ phase = "table"
  /\ table' = [k \in 1..module.table_size |-> DeadBeef]
  /\ phase' = IF module.num_tables # 0 THEN "elems" ELSE "startup"
  /\ i' = 1
  /\ UNCHANGED <<module, mem, globals, main_idx, out>>

\* table_instantiate, up to the segments: the table is cleared.  Without a
\* table the segments are not looked at.
TableInstantiate ==
  /\ phase = "table"
  /\ table' = [k \in 1..module.table_size |-> Null]
  /\ phase' = IF module.num_tables # 0 THEN "elems" ELSE "startup"
  /\ i' = 1
  /\ UNCHANGED <<module, mem, globals, main_idx, out>>

\* One element segment.
ElemsInstantiate ==
  /\ phase = "elems"
  /\ i <= Len(module.elems)
  /\ LET elem == module.elems[i]
     IN IF Inside(table, elem.offset, elem.items)
        THEN /\ table' = Copied(table, elem.offset, elem.items)
             /\ i' = i + 1
             /\ UNCHANGED <<module, phase, mem, globals, main_idx, out>>
        ELSE Overrun

ElemsDone ==
  /\ phase = "elems"
  /\ i > Len(module.elems)
  /\ phase' = "startup"
  /\ UNCHANGED <<module, i, mem, table, globals, main_idx, out>>

\* startup_instantiate: the last function exported as "main"; without one the
\* process ends.
Mains == {e \in DOMAIN module.exports :
            module.exports[e].name = "main" /\ module.exports[e].kind = "func"}

StartupInstantiate ==
  /\ phase = "startup"
  /\ IF Mains = {}
     THEN phase' = "exited" /\ UNCHANGED main_idx
     ELSE /\ phase' = "ready"
          /\ \E e \in Mains : /\ \A d \in Mains : d <= e
                              /\ main_idx' = module.exports[e].index
  /\ UNCHANGED <<module, i, mem, table, globals, out>>

-----------------------------------------------------------------------------
\* Mutant: the address is compared, the size of the access is not.
MutFits(a) == a.addr + a.off < Len(mem)

\* Mutant: the sum of address and offset wraps before it is compared.
MutFitsWrapped(a) == ((a.addr + a.off) % U32) + a.n <= Len(mem)

\* GET_ADDR: the bound is computed with pointers, the address with numbers.
Fits(a)  == a.addr + a.off + a.n <= Len(mem)
maddr(a) == (a.addr + a.off) % U32

\* The byte at an address; one outside reads as some byte, here 0.
ByteAt(p) == IF p < Len(mem) THEN mem[p + 1] ELSE 0

DoTrap ==
  /\ phase' = "trapped"
  /\ UNCHANGED <<module, i, mem, table, globals, main_idx, out>>

\* The value of the n bytes at p, the low one first.
Word(p, n) ==
  LET sum[k \in 0..n] ==
        IF k = 0 THEN 0 ELSE sum[k - 1] + ByteAt(p + k - 1) * ByteMod^(k - 1)
  IN sum[n]

\* A signed load: the value as a 32-bit number.
Extended(op, v, n) ==
  IF op = "load_s" /\ v >= ByteMod^n \div 2 THEN v + U32 - ByteMod^n ELSE v

\* LOAD_I32_OP and LOAD_F64_OP.
Load(a) ==
  /\ phase = "ready"
  /\ a.op \in {"load_s", "load_u"}
  /\ IF Fits(a)
     THEN /\ out' = Extended(a.op, Word(maddr(a), a.n), a.n)
          /\ UNCHANGED <<module, phase, i, mem, table, globals, main_idx>>
     ELSE DoTrap

\* STORE_I32_OP and STORE_F64_OP: the low bytes of the value.
Store(a) ==
  /\ phase = "ready"
  /\ a.op = "store"
  /\ IF Fits(a)
     THEN /\ mem' = Copied(mem, maddr(a), [k \in 1..a.n |-> ByteOf(a.val, k)])
          /\ UNCHANGED <<module, phase, i, table, globals, main_idx, out>>
     ELSE DoTrap

\* call_indirect, which a valid module has only with a table: the entry must be
\* there and must have been declared with the type index that the instruction
\* names.
LookupTraps(l) ==
  \/ l.idx >= Len(table)
  \/ table[l.idx + 1] = Null
  \/ module.sigs[table[l.idx + 1]] # l.type

Lookup(l) ==
  /\ phase = "ready"
  /\ module.num_tables # 0
  /\ IF LookupTraps(l)
     THEN DoTrap
     ELSE /\ out' = table[l.idx + 1]
                  /\ UNCHANGED <<module, phase, i, mem, table, globals, main_idx>>

-----------------------------------------------------------------------------
Init ==
  /\ module \in Modules
  /\ phase = "memory"
  /\ i = 0
  /\ mem = <<>> /\ table = <<>> /\ globals = <<>>
  /\ main_idx = 0
  /\ out = Null

Instantiate ==
  \/ MemoryInstantiate \/ DataInstantiate \/ GlobalsInstantiate
  \/ TableInstantiate \/ ElemsInstantiate \/ ElemsDone \/ StartupInstantiate

Access == \/ \E a \in Accesses : Load(a) \/ Store(a)
          \/ \E l \in Lookups : Lookup(l)

Next == Instantiate \/ Access

\* Instantiation is a sequential computation; a program may make any accesses,
\* or none.
Spec == Init /\ [][Next]_vars /\ WF_vars(Instantiate)
-----------------------------------------------------------------------------
Ended == {"trapped", "exited", "overrun"}

TypeOK ==
  /\ phase \in {"memory", "data", "table", "elems", "startup", "ready"} \cup Ended
  /\ i \in Nat
  /\ Len(mem) \in 0..(U32 - 1)
  /\ \A k \in DOMAIN mem : mem[k] \in 0..(ByteMod - 1)
  /\ \A k \in DOMAIN table : table[k] \in DOMAIN module.sigs \cup {Null}

\* No load or store leaves the memory: whatever the address and the offset,
\* the bytes at the wrapped address are inside when the pointers compared were
\* (GET_ADDR computes the one with 32 bits, the other with 64).
AccessInside ==
  \A a \in Accesses : Fits(a) => \A p \in maddr(a)..(maddr(a) + a.n - 1) : p < Len(mem)

\* Memory, table and globals are there.
Made == phase \in {"ready", "trapped", "exited"}

Wasm == INSTANCE WasmInstance WITH
  phase   <- CASE phase \in {"ready", "exited"} -> "ready"
               [] phase \in {"trapped", "overrun"} -> phase
               [] OTHER -> "start",
  mem     <- IF Made THEN mem ELSE <<>>,
  table   <- IF Made THEN table ELSE <<>>,
  globals <- IF Made
             THEN [g \in DOMAIN globals |-> [op |-> "const", val |-> globals[g]]]
             ELSE <<>>

\* A module that is instantiated as WebAssembly says: its memory has the size
\* declared, its globals start with constants, and types are told apart by
\* their indices.  (For the others see the README.)
Regular(m) ==
  /\ m.pages # 0 /\ PageSize * m.pages < U32
  /\ m.globals = [g \in DOMAIN m.globals |-> [op |-> "const", val |-> m.globals[g].val]]
  /\ m.num_tables = 0 => m.elems = <<>>
  /\ \A f \in DOMAIN m.sigs : \A l \in Lookups :
       m.types[m.sigs[f]] = m.types[l.type] => m.sigs[f] = l.type

\* Instantiating in steps and accessing at 32 bits is what WebAssembly defines,
\* for the modules whose segments fit; a copy leaves the memory or the table
\* for no other module, and for none whose segments beyond it are empty.  What
\* an overrun does is undefined, and not what WebAssembly does there: refuse
\* the module.
ImplementsWasm == Wasm!Spec
=============================================================================
