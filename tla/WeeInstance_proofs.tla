-------------------------- MODULE WeeInstance_proofs --------------------------
(***************************************************************************)
(* Proofs about instantiation and memory accesses, for every set of        *)
(* modules and accesses, every page size and every width of numbers.       *)
(***************************************************************************)
EXTENDS WeeInstance, TLAPS, WellFoundedInduction

Byte  == 0..(ByteMod - 1)
Entry == DOMAIN module.sigs \cup {Null}

\* The inductive invariant: memory and table are sequences, the memory is
\* smaller than the 32-bit numbers, and segments are counted.
IInv ==
  /\ module \in Modules
  /\ phase \in {"memory", "data", "table", "elems", "startup", "ready"} \cup Ended
  /\ i \in Nat
  /\ phase \in {"data", "elems"} => i \in Nat \ {0}
  /\ mem \in Seq(Byte)
  /\ Len(mem) < U32
  /\ table \in Seq(Entry)

-----------------------------------------------------------------------------
\* What the proofs use of a module.
LEMMA ModuleIs ==
  ASSUME NEW m \in Modules
  PROVE  /\ m.pages \in Nat /\ m.table_size \in Nat
         /\ m.data \in Seq([offset : Nat, items : Seq(Byte)])
         /\ m.elems \in Seq([offset : Nat, items : Seq(DOMAIN m.sigs)])
         /\ Len(m.data) \in Nat /\ Len(m.elems) \in Nat
         /\ \A k \in 1..Len(m.data) : /\ m.data[k].offset \in Nat
                                      /\ m.data[k].items \in Seq(Byte)
         /\ \A k \in 1..Len(m.elems) : /\ m.elems[k].offset \in Nat
                                       /\ m.elems[k].items \in Seq(DOMAIN m.sigs)
<1> DEFINE D == [offset : Nat, items : Seq(Byte)]
           E == [offset : Nat, items : Seq(DOMAIN m.sigs)]
<1>1. m.pages \in 0..(U32 - 1) /\ m.table_size \in Nat /\ m.data \in Seq(D) /\ m.elems \in Seq(E)
  BY ModulesAssumption, Zenon DEF Byte
<1>2. m.pages \in Nat
  BY <1>1, InstanceAssumption
<1>3. \A d \in D : d.offset \in Nat /\ d.items \in Seq(Byte)
  OBVIOUS
<1>4. \A e \in E : e.offset \in Nat /\ e.items \in Seq(DOMAIN m.sigs)
  OBVIOUS
<1> HIDE DEF D, E
<1>5. \A k \in 1..Len(m.data) : m.data[k] \in D
  BY <1>1
<1>6. \A k \in 1..Len(m.elems) : m.elems[k] \in E
  BY <1>1
<1> QED
  BY <1>1, <1>2, <1>3, <1>4, <1>5, <1>6 DEF D, E

\* Copying a sequence to a place inside another yields a sequence of the same
\* length over the same set.
LEMMA CopiedType ==
  ASSUME NEW S, NEW s \in Seq(S), NEW t \in Seq(S), NEW p \in Nat
  PROVE  Copied(s, p, t) \in Seq(S) /\ Len(Copied(s, p, t)) = Len(s)
<1> DEFINE c == [k \in 1..Len(s) |->
                   IF k \in (p + 1)..(p + Len(t)) THEN t[k - p] ELSE s[k]]
<1>1. c = Copied(s, p, t)
  BY DEF Copied
<1>2. Len(s) \in Nat /\ Len(t) \in Nat
  OBVIOUS
<1>3. \A k \in 1..Len(s) : c[k] \in S
  <2> SUFFICES ASSUME NEW k \in 1..Len(s) PROVE c[k] \in S
    OBVIOUS
  <2>1. CASE k \in (p + 1)..(p + Len(t))
    <3>1. k - p \in 1..Len(t)
      BY <2>1, <1>2
    <3>2. t[k - p] \in S
      BY <3>1
    <3> QED
      BY <2>1, <3>2
  <2>2. CASE k \notin (p + 1)..(p + Len(t))
    BY <2>2
  <2> QED
    BY <2>1, <2>2
<1>4. c \in [1..Len(s) -> S]
  BY <1>3
<1>5. c \in Seq(S) /\ Len(c) = Len(s)
  BY <1>4, <1>2
<1> QED
  BY <1>1, <1>5

\* The wrapped sum of an address and an offset is the sum itself when an
\* access at the sum fits a memory smaller than the 32-bit numbers.
LEMMA FittingAddress ==
  ASSUME IInv, NEW a \in Accesses, Fits(a)
  PROVE  maddr(a) = a.addr + a.off /\ maddr(a) \in Nat /\ maddr(a) + a.n <= Len(mem)
<1>1. Len(mem) \in Nat /\ Len(mem) < U32
  BY DEF IInv
<1>2. a.addr \in Nat /\ a.off \in Nat /\ a.n \in Nat \ {0} /\ U32 \in Nat \ {0}
  BY InstanceAssumption, AccessesAssumption
<1>3. a.addr + a.off + a.n <= Len(mem)
  BY DEF Fits
<1>4. a.addr + a.off \in 0..(U32 - 1)
  BY <1>1, <1>2, <1>3
<1>5. (a.addr + a.off) % U32 = a.addr + a.off
  BY <1>2, <1>4
<1>6. maddr(a) = a.addr + a.off
  BY <1>5 DEF maddr
<1> QED
  BY <1>2, <1>3, <1>4, <1>6

\* Hence no access that passes the comparison leaves the memory.
LEMMA InsideFromIInv == IInv => AccessInside
<1> SUFFICES ASSUME IInv, NEW a \in Accesses, Fits(a),
                    NEW p \in maddr(a)..(maddr(a) + a.n - 1)
             PROVE  p < Len(mem)
  BY DEF AccessInside
<1>1. maddr(a) \in Nat /\ maddr(a) + a.n <= Len(mem)
  BY FittingAddress
<1>2. a.n \in Nat /\ Len(mem) \in Nat
  BY AccessesAssumption DEF IInv
<1> QED
  BY <1>1, <1>2

LEMMA TypeFromIInv == IInv => TypeOK
<1> SUFFICES ASSUME IInv PROVE TypeOK
  OBVIOUS
<1>1. U32 \in Nat /\ Len(mem) \in Nat
  BY InstanceAssumption DEF IInv
<1>2. Len(mem) \in 0..(U32 - 1)
  BY <1>1 DEF IInv
<1>3. \A k \in DOMAIN mem : mem[k] \in 0..(ByteMod - 1)
  <2>1. mem \in Seq(Byte)
    BY DEF IInv
  <2>2. \A k \in DOMAIN mem : mem[k] \in Byte
    BY <2>1
  <2> QED
    BY <2>2 DEF Byte
<1>4. \A k \in DOMAIN table : table[k] \in DOMAIN module.sigs \cup {Null}
  <2>1. table \in Seq(Entry)
    BY DEF IInv
  <2>2. \A k \in DOMAIN table : table[k] \in Entry
    BY <2>1
  <2> QED
    BY <2>2 DEF Entry
<1> QED
  BY <1>2, <1>3, <1>4 DEF IInv, TypeOK

-----------------------------------------------------------------------------
LEMMA InitIInv == Init => IInv
<1> SUFFICES ASSUME Init PROVE IInv
  OBVIOUS
<1>1. mem \in Seq(Byte) /\ Len(mem) = 0 /\ table \in Seq(Entry)
  BY DEF Init
<1> QED
  BY <1>1, InstanceAssumption DEF Init, IInv, Ended

\* malloc's bytes, as many as the 32-bit product says.
LEMMA MemoryIInv ==
  ASSUME IInv, MemoryInstantiate PROVE IInv'
<1> DEFINE size == (PageSize * num_pages) % U32
<1>1. PICK b \in Fresh : mem' = [k \in 1..size |-> b]
  BY DEF MemoryInstantiate
<1>2. size \in Nat /\ size < U32
  <2>1. num_pages \in Nat
    BY ModuleIs DEF IInv, num_pages
  <2>2. PageSize * num_pages \in Nat
    BY <2>1, InstanceAssumption
  <2> HIDE DEF num_pages
  <2> QED
    BY <2>2, InstanceAssumption
<1>3. b \in Byte
  BY InstanceAssumption DEF Byte
<1> HIDE DEF size
<1>4. mem' \in Seq(Byte) /\ Len(mem') = size
  BY <1>1, <1>2, <1>3
<1>5. module' = module /\ table' = table /\ phase' = "data" /\ i' = 1
  BY DEF MemoryInstantiate
<1> QED
  BY <1>2, <1>4, <1>5 DEF IInv, Byte, Entry, Ended

\* A copied segment leaves the memory as long as it was.
LEMMA DataIInv ==
  ASSUME IInv, DataInstantiate PROVE IInv'
<1>1. i \in 1..Len(module.data)
  BY DEF IInv, DataInstantiate
<1>2. module.data[i].offset \in Nat /\ module.data[i].items \in Seq(Byte)
  BY <1>1, ModuleIs DEF IInv
<1>3. CASE Inside(mem, module.data[i].offset, module.data[i].items)
  <2>1. mem' = Copied(mem, module.data[i].offset, module.data[i].items)
    BY <1>3 DEF DataInstantiate
  <2>2. mem' \in Seq(Byte) /\ Len(mem') = Len(mem)
    BY <1>2, <2>1, CopiedType DEF IInv
  <2>3. module' = module /\ table' = table /\ phase' = phase /\ i' = i + 1
    BY <1>3 DEF DataInstantiate
  <2> QED
    BY <2>2, <2>3 DEF IInv, Byte, Entry, Ended
<1>4. CASE ~Inside(mem, module.data[i].offset, module.data[i].items)
  BY <1>4 DEF DataInstantiate, Overrun, IInv, Byte, Entry, Ended
<1> QED
  BY <1>3, <1>4

LEMMA TableIInv ==
  ASSUME IInv, TableInstantiate PROVE IInv'
<1>1. module.table_size \in Nat
  BY ModuleIs DEF IInv
<1>2. table' \in Seq(Entry)
  BY <1>1 DEF TableInstantiate, Entry
<1>3. module' = module /\ mem' = mem /\ phase' \in {"elems", "startup"} /\ i' = 1
  BY DEF TableInstantiate
<1> QED
  BY <1>2, <1>3 DEF IInv, Byte, Entry, Ended

LEMMA ElemsIInv ==
  ASSUME IInv, ElemsInstantiate PROVE IInv'
<1>1. i \in 1..Len(module.elems)
  BY DEF IInv, ElemsInstantiate
<1>2. module.elems[i].offset \in Nat /\ module.elems[i].items \in Seq(DOMAIN module.sigs)
  BY <1>1, ModuleIs DEF IInv
<1>3. module.elems[i].items \in Seq(Entry)
  BY <1>2 DEF Entry
<1>4. CASE Inside(table, module.elems[i].offset, module.elems[i].items)
  <2>1. table' = Copied(table, module.elems[i].offset, module.elems[i].items)
    BY <1>4 DEF ElemsInstantiate
  <2>2. table' \in Seq(Entry)
    BY <1>2, <1>3, <2>1, CopiedType DEF IInv
  <2>3. module' = module /\ mem' = mem /\ phase' = phase /\ i' = i + 1
    BY <1>4 DEF ElemsInstantiate
  <2> QED
    BY <2>2, <2>3 DEF IInv, Byte, Entry, Ended
<1>5. CASE ~Inside(table, module.elems[i].offset, module.elems[i].items)
  BY <1>5 DEF ElemsInstantiate, Overrun, IInv, Byte, Entry, Ended
<1> QED
  BY <1>4, <1>5

\* A store writes bytes at an address inside.
LEMMA StoreIInv ==
  ASSUME IInv, NEW a \in Accesses, Store(a) PROVE IInv'
<1>1. CASE Fits(a)
  <2> DEFINE bytes == [k \in 1..a.n |-> ByteOf(a.val, k)]
  <2>1. maddr(a) \in Nat
    BY <1>1, FittingAddress
  <2>2. bytes \in Seq(Byte)
    <3>1. a.n \in Nat /\ \A k \in 1..a.n : ByteOf(a.val, k) \in Byte
      BY AccessesAssumption DEF Byte
    <3> QED
      BY <3>1
  <2>3. mem' = Copied(mem, maddr(a), bytes)
    BY <1>1 DEF Store
  <2> HIDE DEF bytes
  <2>4. mem' \in Seq(Byte) /\ Len(mem') = Len(mem)
    BY <2>1, <2>2, <2>3, CopiedType DEF IInv
  <2>5. module' = module /\ table' = table /\ phase' = phase /\ i' = i
    BY <1>1 DEF Store
  <2> QED
    BY <2>4, <2>5 DEF IInv, Byte, Entry, Ended
<1>2. CASE ~Fits(a)
  BY <1>2 DEF Store, DoTrap, IInv, Byte, Entry, Ended
<1> QED
  BY <1>1, <1>2

LEMMA NextIInv == IInv /\ [Next]_vars => IInv'
<1> SUFFICES ASSUME IInv, [Next]_vars PROVE IInv'
  OBVIOUS
<1>1. CASE MemoryInstantiate
  BY <1>1, MemoryIInv
<1>2. CASE DataInstantiate
  BY <1>2, DataIInv
<1>3. CASE GlobalsInstantiate
  BY <1>3 DEF GlobalsInstantiate, IInv, Byte, Entry, Ended
<1>4. CASE TableInstantiate
  BY <1>4, TableIInv
<1>5. CASE ElemsInstantiate
  BY <1>5, ElemsIInv
<1>6. CASE ElemsDone
  BY <1>6 DEF ElemsDone, IInv, Byte, Entry, Ended
<1>7. CASE StartupInstantiate
  BY <1>7 DEF StartupInstantiate, IInv, Byte, Entry, Ended
<1>8. ASSUME NEW a \in Accesses, Load(a) PROVE IInv'
  BY <1>8 DEF Load, DoTrap, IInv, Byte, Entry, Ended
<1>9. ASSUME NEW a \in Accesses, Store(a) PROVE IInv'
  BY <1>9, StoreIInv
<1>10. ASSUME NEW l \in Lookups, Lookup(l) PROVE IInv'
  BY <1>10 DEF Lookup, DoTrap, IInv, Byte, Entry, Ended
<1>11. CASE UNCHANGED vars
  BY <1>11 DEF vars, IInv, Byte, Entry, Ended
<1> QED
  BY <1>1, <1>2, <1>3, <1>4, <1>5, <1>6, <1>7, <1>8, <1>9, <1>10, <1>11
     DEF Next, Instantiate, Access

-----------------------------------------------------------------------------
\* Type correctness: the memory is smaller than the 32-bit numbers and holds
\* bytes, and the table holds functions of the module or NULL.
THEOREM TypeCorrect == Spec => []TypeOK
<1>1. Init => IInv
  BY InitIInv
<1>2. IInv /\ [Next]_vars => IInv'
  BY NextIInv
<1>3. IInv => TypeOK
  BY TypeFromIInv
<1> QED
  BY <1>1, <1>2, <1>3, PTL DEF Spec

\* The comparison of GET_ADDR keeps every load and store inside the memory,
\* although the address it compares and the one it uses are computed with
\* different widths, for every module, address, offset and size.
THEOREM AccessesInside == Spec => []AccessInside
<1>1. Init => IInv
  BY InitIInv
<1>2. IInv /\ [Next]_vars => IInv'
  BY NextIInv
<1>3. IInv => AccessInside
  BY InsideFromIInv
<1> QED
  BY <1>1, <1>2, <1>3, PTL DEF Spec

-----------------------------------------------------------------------------
(***************************************************************************)
(* The refinement: the steps of instantiation up to the last are stutters, *)
(* and the last makes the instance WebAssembly makes in one step, or one   *)
(* of the copies leaves what it is copied into, and there is none.         *)
(***************************************************************************)
LEMMA Least ==
  ASSUME NEW M \in SUBSET Nat, M # {}
  PROVE  \E n \in M : \A m \in M : n <= m
<1>1. IsWellFoundedOn(OpToRel(<, Nat), Nat)
  BY NatLessThanWellFounded
<1>2. PICK n \in M : \A m \in M : ~ (<<m, n>> \in OpToRel(<, Nat))
  BY <1>1, WFMin
<1>3. \A m \in M : ~ (m < n)
  BY <1>2 DEF OpToRel
<1> QED
  BY <1>3

\* Induction up to N: a set with 0 that has k if it has k - 1 has N.
LEMMA UpTo ==
  ASSUME NEW N \in Nat, NEW T, 0 \in T, \A k \in 1..N : k - 1 \in T => k \in T
  PROVE  N \in T
<1> DEFINE M == (0..N) \ T
<1> SUFFICES ASSUME M # {} PROVE FALSE
  OBVIOUS
<1>1. M \in SUBSET Nat
  OBVIOUS
<1> HIDE DEF M
<1>2. PICK n \in M : \A m \in M : n <= m
  BY <1>1, Least
<1> USE DEF M
<1>3. n \in 1..N
  OBVIOUS
<1>4. n - 1 \in T
  BY <1>2, <1>3
<1> QED
  BY <1>3, <1>4

\* What s holds after each of the segments has been laid over it.
Laid(s, segments) ==
  CHOOSE at : at = [k \in 0..Len(segments) |->
                      IF k = 0 THEN s
                      ELSE Copied(at[k - 1], segments[k].offset, segments[k].items)]

LEMMA LaidIs ==
  ASSUME NEW s, NEW segments, Len(segments) \in Nat
  PROVE  /\ Laid(s, segments)[0] = s
         /\ \A k \in 1..Len(segments) :
              Laid(s, segments)[k] =
                Copied(Laid(s, segments)[k - 1], segments[k].offset, segments[k].items)
         /\ Wasm!Filled(s, segments) = Laid(s, segments)[Len(segments)]
<1> DEFINE N == Len(segments)
           On(k, t) == Copied(t, segments[k].offset, segments[k].items)
           Good(at, k) == at = [j \in 0..k |-> IF j = 0 THEN s ELSE On(j, at[j - 1])]
           T == {k \in 0..N : \E at : Good(at, k)}
<1>1. N \in Nat
  OBVIOUS
<1>2. Laid(s, segments) = CHOOSE at : Good(at, N)
  BY DEF Laid
<1>3. Wasm!Filled(s, segments) = Laid(s, segments)[N]
  BY DEF Wasm!Filled, Laid, Wasm!Overlay, Copied
<1> HIDE DEF N, On
<1>4. 0 \in T
  <2> DEFINE at == [j \in 0..0 |-> s]
  <2>1. Good(at, 0)
    OBVIOUS
  <2> HIDE DEF at, Good
  <2> QED
    BY <1>1, <2>1
<1>5. ASSUME NEW k \in 1..N, k - 1 \in T PROVE k \in T
  <2>1. PICK r : Good(r, k - 1)
    BY <1>5
  <2> DEFINE at == [j \in 0..k |-> IF j = k THEN On(k, r[k - 1]) ELSE r[j]]
  <2>2. \A j \in 0..(k - 1) : r[j] = IF j = 0 THEN s ELSE On(j, r[j - 1])
    BY <2>1
  <2>3. ASSUME NEW j \in 0..k PROVE at[j] = IF j = 0 THEN s ELSE On(j, at[j - 1])
    <3>1. CASE j = k
      BY <3>1
    <3>2. CASE j # k
      BY <2>2, <3>2
    <3> QED
      BY <3>1, <3>2
  <2>4. at = [j \in 0..k |-> at[j]]
    OBVIOUS
  <2> HIDE DEF at
  <2>5. Good(at, k)
    BY <2>3, <2>4
  <2> QED
    BY <1>1, <2>5
<1> HIDE DEF Good
<1>6. N \in T
  <2> HIDE DEF T
  <2> QED
    BY <1>1, <1>4, <1>5, UpTo
<1>7. Good(Laid(s, segments), N)
  BY <1>2, <1>6
<1> QED
  BY <1>1, <1>3, <1>7 DEF Good, N, On

LEMMA LaidStep ==
  ASSUME NEW s, NEW segments, Len(segments) \in Nat, NEW k \in 1..Len(segments)
  PROVE  Laid(s, segments)[k] =
           Copied(Laid(s, segments)[k - 1], segments[k].offset, segments[k].items)
BY LaidIs

-----------------------------------------------------------------------------
\* The memory and the table before a segment has been copied.
Zeros(m) == [k \in 1..(m.pages * PageSize) |-> 0]
Nulls(m) == [k \in 1..m.table_size |-> Null]

\* The first n segments fit.
FirstFit(size, segments, n) ==
  \A k \in 1..n :
    segments[k].items = <<>> \/ segments[k].offset + Len(segments[k].items) <= size

\* Memory and table hold the segments that have been copied, in their order.
Filling(s, size, now, segments) ==
  /\ i \in 1..(Len(segments) + 1)
  /\ now = Laid(s, segments)[i - 1]
  /\ Len(now) = size
  /\ FirstFit(size, segments, i - 1)

MemoryMade ==
  /\ mem = Wasm!Filled(Zeros(module), module.data)
  /\ Wasm!FitAll(module.pages * PageSize, module.data)
  /\ [g \in DOMAIN globals |-> [op |-> "const", val |-> globals[g]]] = module.globals

TableMade ==
  /\ table = Wasm!Filled(Nulls(module), module.elems)
  /\ Wasm!FitAll(module.table_size, module.elems)

RInv ==
  /\ phase = "data" => Filling(Zeros(module), module.pages * PageSize, mem, module.data)
  /\ phase \in {"table", "elems", "startup"} => MemoryMade
  /\ phase = "elems" => Filling(Nulls(module), module.table_size, table, module.elems)
  /\ phase = "startup" => TableMade

\* A segment that fits is laid over the others; one that does not overruns; and
\* behind the last all are there.
LEMMA FillingStep ==
  ASSUME NEW S, NEW s, NEW size \in Nat, NEW now \in Seq(S),
         NEW segments \in Seq([offset : Nat, items : Seq(S)]), i \in Nat,
         Filling(s, size, now, segments)
  PROVE  /\ i <= Len(segments) /\ Inside(now, segments[i].offset, segments[i].items) =>
              /\ i + 1 \in 1..(Len(segments) + 1)
              /\ Copied(now, segments[i].offset, segments[i].items)
                   = Laid(s, segments)[(i + 1) - 1]
              /\ Len(Copied(now, segments[i].offset, segments[i].items)) = size
              /\ FirstFit(size, segments, (i + 1) - 1)
         /\ i <= Len(segments) /\ ~Inside(now, segments[i].offset, segments[i].items) =>
              ~Wasm!FitAll(size, segments)
         /\ i > Len(segments) =>
              /\ now = Wasm!Filled(s, segments)
              /\ Wasm!FitAll(size, segments)
<1>1. PICK n \in Nat : n = Len(segments) /\ DOMAIN segments = 1..n
  OBVIOUS
<1>2. i \in 1..(n + 1) /\ now = Laid(s, segments)[i - 1] /\ Len(now) = size
  BY <1>1 DEF Filling
<1>3. \A k \in 1..(i - 1) :
        segments[k].items = <<>> \/ segments[k].offset + Len(segments[k].items) <= size
  BY DEF Filling, FirstFit
<1>4. ASSUME i <= n
      PROVE  LET seg == segments[i] IN
             /\ Inside(now, seg.offset, seg.items) =>
                   /\ i + 1 \in 1..(n + 1)
                   /\ Copied(now, seg.offset, seg.items) = Laid(s, segments)[(i + 1) - 1]
                   /\ Len(Copied(now, seg.offset, seg.items)) = size
                   /\ FirstFit(size, segments, (i + 1) - 1)
             /\ ~Inside(now, seg.offset, seg.items) => ~Wasm!FitAll(size, segments)
  <2> DEFINE seg == segments[i]
  <2>1. i \in 1..n
    BY <1>2, <1>4
  <2>2. seg.offset \in Nat /\ seg.items \in Seq(S)
    <3> DEFINE D == [offset : Nat, items : Seq(S)]
    <3>1. \A d \in D : d.offset \in Nat /\ d.items \in Seq(S)
      OBVIOUS
    <3>2. segments \in Seq(D)
      OBVIOUS
    <3> HIDE DEF D
    <3>3. segments[i] \in D
      BY <1>1, <2>1, <3>2
    <3> QED
      BY <3>1, <3>3
  <2>3. Laid(s, segments)[i] = Copied(now, seg.offset, seg.items)
    <3>1. Len(segments) \in Nat /\ i \in 1..Len(segments)
      BY <1>1, <2>1
    <3>2. Laid(s, segments)[i] = Copied(Laid(s, segments)[i - 1], seg.offset, seg.items)
      BY <3>1, LaidStep
    <3> QED
      BY <1>2, <3>2
  <2>4. Len(Copied(now, seg.offset, seg.items)) = size
    BY <1>2, <2>2, CopiedType
  <2>5. (i + 1) - 1 = i /\ i + 1 \in 1..(n + 1)
    BY <2>1
  <2> HIDE DEF seg
  <2>6. ASSUME Inside(now, seg.offset, seg.items) PROVE FirstFit(size, segments, i)
    <3>1. seg.items = <<>> \/ seg.offset + Len(seg.items) <= size
      BY <1>2, <2>6 DEF Inside
    <3>2. \A k \in 1..i : k \in 1..(i - 1) \/ k = i
      BY <2>1
    <3> QED
      BY <1>3, <3>1, <3>2 DEF FirstFit, seg
  <2>7. ASSUME ~Inside(now, seg.offset, seg.items) PROVE ~Wasm!FitAll(size, segments)
    BY <1>1, <1>2, <2>1, <2>7 DEF Inside, Wasm!FitAll, seg
  <2> QED
    BY <2>3, <2>4, <2>5, <2>6, <2>7 DEF seg
<1>5. ASSUME i > n
      PROVE  now = Wasm!Filled(s, segments) /\ Wasm!FitAll(size, segments)
  <2>1. i - 1 = n
    BY <1>2, <1>5
  <2>2. now = Wasm!Filled(s, segments)
    BY <1>1, <1>2, <2>1, LaidIs
  <2>3. Wasm!FitAll(size, segments)
    BY <1>1, <1>3, <2>1 DEF Wasm!FitAll
  <2> QED
    BY <2>2, <2>3
<1> QED
  BY <1>1, <1>4, <1>5

\* Before a segment has been copied.
LEMMA FillingStart ==
  ASSUME NEW s, NEW segments, Len(segments) \in Nat
  PROVE  /\ 1 \in 1..(Len(segments) + 1)
         /\ s = Laid(s, segments)[1 - 1]
         /\ \A size : FirstFit(size, segments, 1 - 1)
<1>1. 1 - 1 = 0 /\ 1 \in 1..(Len(segments) + 1)
  OBVIOUS
<1>2. s = Laid(s, segments)[0]
  BY LaidIs
<1>3. \A size : FirstFit(size, segments, 0)
  BY DEF FirstFit
<1> QED
  BY <1>1, <1>2, <1>3

\* The size of the memory is no number that wraps.
LEMMA RegularMemory ==
  ASSUME NEW m \in Modules, Regular(m)
  PROVE  /\ m.pages * PageSize \in Nat /\ m.pages # 0
         /\ (PageSize * m.pages) % U32 = m.pages * PageSize
         /\ Zeros(m) \in Seq(Byte) /\ Len(Zeros(m)) = m.pages * PageSize
<1>1. /\ m.pages \in Nat /\ PageSize \in Nat /\ U32 \in Nat \ {0} /\ m.pages # 0
      /\ PageSize * m.pages < U32 /\ ByteMod \in Nat \ {0, 1}
  BY ModuleIs, InstanceAssumption DEF Regular
<1>2. PICK z \in Nat : z = m.pages * PageSize /\ z = PageSize * m.pages
  BY <1>1
<1>3. z % U32 = z
  BY <1>1, <1>2
<1>4. Zeros(m) = [k \in 1..z |-> 0] /\ 0 \in Byte
  BY <1>1, <1>2 DEF Zeros, Byte
<1>5. Zeros(m) \in Seq(Byte) /\ Len(Zeros(m)) = z
  BY <1>2, <1>4
<1> QED
  BY <1>1, <1>2, <1>3, <1>5

\* The steps keep what is filled and what is made.
LEMMA RInvStart ==
  ASSUME IInv, Fresh = {0}, Regular(module), MemoryInstantiate
  PROVE  RInv'
<1>1. module \in Modules
  BY DEF IInv
<1>2. /\ module.pages # 0 /\ (PageSize * module.pages) % U32 = module.pages * PageSize
      /\ Len(Zeros(module)) = module.pages * PageSize
  BY <1>1, RegularMemory
<1>3. mem' = Zeros(module)
  BY <1>2 DEF MemoryInstantiate, Zeros, num_pages
<1>4. phase' = "data" /\ i' = 1 /\ module' = module
  BY DEF MemoryInstantiate
<1>5. Len(module.data) \in Nat
  BY <1>1, ModuleIs
<1>6. Filling(Zeros(module), module.pages * PageSize, mem, module.data)'
  BY <1>2, <1>3, <1>4, <1>5, FillingStart DEF Filling
<1> QED
  BY <1>4, <1>6 DEF RInv

LEMMA RInvData ==
  ASSUME IInv, RInv, Regular(module), DataInstantiate
  PROVE  RInv'
<1>1. /\ phase = "data" /\ i \in Nat /\ i <= Len(module.data) /\ mem \in Seq(Byte)
      /\ module \in Modules
  BY DEF DataInstantiate, IInv
<1>2. /\ module.data \in Seq([offset : Nat, items : Seq(Byte)])
      /\ module.pages * PageSize \in Nat
  BY <1>1, ModuleIs, RegularMemory
<1>3. Filling(Zeros(module), module.pages * PageSize, mem, module.data)
  BY <1>1 DEF RInv
<1>4. CASE Inside(mem, module.data[i].offset, module.data[i].items)
  <2>1. /\ mem' = Copied(mem, module.data[i].offset, module.data[i].items)
        /\ i' = i + 1 /\ phase' = "data" /\ module' = module
    BY <1>1, <1>4 DEF DataInstantiate
  <2> DEFINE now == Copied(mem, module.data[i].offset, module.data[i].items)
  <2>2. /\ i + 1 \in 1..(Len(module.data) + 1)
        /\ now = Laid(Zeros(module), module.data)[(i + 1) - 1]
        /\ Len(now) = module.pages * PageSize
        /\ FirstFit(module.pages * PageSize, module.data, (i + 1) - 1)
    BY <1>1, <1>2, <1>3, <1>4, FillingStep
  <2>3. Filling(Zeros(module), module.pages * PageSize, mem, module.data)'
    BY <2>1, <2>2 DEF Filling
  <2> QED
    BY <2>1, <2>3 DEF RInv
<1>5. CASE ~Inside(mem, module.data[i].offset, module.data[i].items)
  BY <1>5 DEF DataInstantiate, Overrun, RInv
<1> QED
  BY <1>4, <1>5

LEMMA RInvGlobals ==
  ASSUME IInv, RInv, Regular(module), GlobalsInstantiate
  PROVE  RInv'
<1>1. /\ phase = "data" /\ i \in Nat /\ i > Len(module.data) /\ mem \in Seq(Byte)
      /\ module \in Modules
  BY DEF GlobalsInstantiate, IInv
<1>2. /\ module.data \in Seq([offset : Nat, items : Seq(Byte)])
      /\ module.pages * PageSize \in Nat
  BY <1>1, ModuleIs, RegularMemory
<1>3. Filling(Zeros(module), module.pages * PageSize, mem, module.data)
  BY <1>1 DEF RInv
<1>4. /\ mem = Wasm!Filled(Zeros(module), module.data)
      /\ Wasm!FitAll(module.pages * PageSize, module.data)
  BY <1>1, <1>2, <1>3, FillingStep
<1>5. /\ globals' = [g \in DOMAIN module.globals |-> DecodeConst(module.globals[g])]
      /\ phase' = "table" /\ module' = module /\ mem' = mem
  BY DEF GlobalsInstantiate
<1>6. [g \in DOMAIN globals' |-> [op |-> "const", val |-> globals'[g]]] = module.globals
  <2> DEFINE D == DOMAIN module.globals
             G == module.globals
  <2>1. G = [g \in D |-> [op |-> "const", val |-> G[g].val]]
    BY DEF Regular
  <2> HIDE DEF D, G
  <2>2. \A g \in D : G[g].op = "const"
    BY <2>1
  <2>3. globals' = [g \in D |-> G[g].val]
    BY <1>5, <2>2 DEF DecodeConst, D, G
  <2>4. [g \in DOMAIN globals' |-> [op |-> "const", val |-> globals'[g]]]
          = [g \in D |-> [op |-> "const", val |-> G[g].val]]
    BY <2>3
  <2> QED
    BY <2>1, <2>4 DEF G
<1>7. MemoryMade'
  BY <1>4, <1>5, <1>6 DEF MemoryMade
<1> QED
  BY <1>5, <1>7 DEF RInv

LEMMA RInvTable ==
  ASSUME IInv, RInv, Regular(module), TableInstantiate
  PROVE  RInv'
<1>1. module \in Modules /\ MemoryMade
  BY DEF TableInstantiate, IInv, RInv
<1>2. /\ table' = Nulls(module) /\ i' = 1 /\ module' = module /\ mem' = mem
      /\ globals' = globals
      /\ phase' = IF module.num_tables # 0 THEN "elems" ELSE "startup"
  BY DEF TableInstantiate, Nulls
<1>3. MemoryMade'
  BY <1>1, <1>2 DEF MemoryMade
<1>4. Len(module.elems) \in Nat /\ module.table_size \in Nat
  BY <1>1, ModuleIs
<1>5. Len(Nulls(module)) = module.table_size
  BY <1>4 DEF Nulls
<1>6. CASE module.num_tables # 0
  <2>1. Filling(Nulls(module), module.table_size, table, module.elems)'
    BY <1>2, <1>4, <1>5, FillingStart DEF Filling
  <2> QED
    BY <1>2, <1>3, <1>6, <2>1 DEF RInv
<1>7. CASE module.num_tables = 0
  <2>1. module.elems = <<>>
    BY <1>7 DEF Regular
  <2>2. Len(module.elems) = 0 /\ DOMAIN module.elems = {}
    BY <2>1
  <2>3. Wasm!Filled(Nulls(module), module.elems) = Nulls(module)
    BY <1>4, <2>2, LaidIs
  <2>4. Wasm!FitAll(module.table_size, module.elems)
    BY <2>2 DEF Wasm!FitAll
  <2>5. TableMade'
    BY <1>2, <2>3, <2>4 DEF TableMade
  <2> QED
    BY <1>2, <1>3, <1>7, <2>5 DEF RInv
<1> QED
  BY <1>6, <1>7

LEMMA ElemsAreEntries ==
  ASSUME NEW m \in Modules, m = module
  PROVE  m.elems \in Seq([offset : Nat, items : Seq(Entry)])
<1> DEFINE D == DOMAIN m.sigs
           A == [offset : Nat, items : Seq(D)]
           B == [offset : Nat, items : Seq(Entry)]
<1>1. m.elems \in Seq(A)
  BY ModuleIs
<1>2. Seq(D) \subseteq Seq(Entry)
  BY DEF Entry
<1> HIDE DEF D
<1>3. A \subseteq B
  BY <1>2
<1> HIDE DEF A, B
<1>4. m.elems \in Seq(B)
  BY <1>1, <1>3
<1> QED
  BY <1>4 DEF B

LEMMA RInvElems ==
  ASSUME IInv, RInv, ElemsInstantiate
  PROVE  RInv'
<1>1. /\ phase = "elems" /\ i \in Nat /\ i <= Len(module.elems) /\ table \in Seq(Entry)
      /\ module \in Modules /\ MemoryMade
  BY DEF ElemsInstantiate, IInv, RInv
<1>2. /\ module.elems \in Seq([offset : Nat, items : Seq(Entry)])
      /\ module.table_size \in Nat
  BY <1>1, ElemsAreEntries, ModuleIs
<1>3. Filling(Nulls(module), module.table_size, table, module.elems)
  BY <1>1 DEF RInv
<1>4. CASE Inside(table, module.elems[i].offset, module.elems[i].items)
  <2>1. /\ table' = Copied(table, module.elems[i].offset, module.elems[i].items)
        /\ i' = i + 1 /\ phase' = "elems" /\ module' = module /\ mem' = mem
        /\ globals' = globals
    BY <1>1, <1>4 DEF ElemsInstantiate
  <2> DEFINE now == Copied(table, module.elems[i].offset, module.elems[i].items)
  <2>2. /\ i + 1 \in 1..(Len(module.elems) + 1)
        /\ now = Laid(Nulls(module), module.elems)[(i + 1) - 1]
        /\ Len(now) = module.table_size
        /\ FirstFit(module.table_size, module.elems, (i + 1) - 1)
    BY <1>1, <1>2, <1>3, <1>4, FillingStep
  <2>3. Filling(Nulls(module), module.table_size, table, module.elems)'
    BY <2>1, <2>2 DEF Filling
  <2>4. MemoryMade'
    BY <1>1, <2>1 DEF MemoryMade
  <2> QED
    BY <2>1, <2>3, <2>4 DEF RInv
<1>5. CASE ~Inside(table, module.elems[i].offset, module.elems[i].items)
  BY <1>5 DEF ElemsInstantiate, Overrun, RInv
<1> QED
  BY <1>4, <1>5

LEMMA RInvDone ==
  ASSUME IInv, RInv, ElemsDone
  PROVE  RInv'
<1>1. /\ phase = "elems" /\ i \in Nat /\ i > Len(module.elems) /\ table \in Seq(Entry)
      /\ module \in Modules /\ MemoryMade
  BY DEF ElemsDone, IInv, RInv
<1>2. /\ module.elems \in Seq([offset : Nat, items : Seq(Entry)])
      /\ module.table_size \in Nat
  BY <1>1, ElemsAreEntries, ModuleIs
<1>3. Filling(Nulls(module), module.table_size, table, module.elems)
  BY <1>1 DEF RInv
<1>4. TableMade
  BY <1>1, <1>2, <1>3, FillingStep DEF TableMade
<1>5. phase' = "startup" /\ UNCHANGED <<module, mem, table, globals>>
  BY DEF ElemsDone
<1>6. TableMade' /\ MemoryMade'
  BY <1>1, <1>4, <1>5 DEF TableMade, MemoryMade
<1> QED
  BY <1>5, <1>6 DEF RInv

LEMMA NextRInv ==
  ASSUME IInv, RInv, Fresh = {0}, Regular(module), [Next]_vars
  PROVE  RInv'
<1>1. CASE StartupInstantiate
  BY <1>1 DEF StartupInstantiate, RInv
<1>2. CASE Access
  BY <1>2 DEF Access, Load, Store, Lookup, DoTrap, RInv
<1>3. CASE UNCHANGED vars
  BY <1>3 DEF vars, RInv, Filling, MemoryMade, TableMade
<1> QED
  BY <1>1, <1>2, <1>3, RInvStart, RInvData, RInvGlobals, RInvTable, RInvElems, RInvDone
     DEF Next, Instantiate

-----------------------------------------------------------------------------
\* Nothing is there before the last step: WebAssembly has not started.
Starting == {"memory", "data", "table", "elems", "startup"}

LEMMA StutterStep ==
  ASSUME phase \in Starting, phase' \in Starting, module' = module, out' = out
  PROVE  UNCHANGED Wasm!vars
BY DEF Starting, Wasm!vars, Made

LEMMA OverrunStep ==
  ASSUME phase \in Starting, Overrun,
         \/ ~Wasm!FitAll(module.pages * PageSize, module.data)
         \/ ~Wasm!FitAll(module.table_size, module.elems)
  PROVE  Wasm!Overrun
BY DEF Starting, Overrun, Wasm!Overrun, Made

LEMMA StartupStep ==
  ASSUME RInv, StartupInstantiate
  PROVE  Wasm!Instantiate
<1>1. /\ phase = "startup" /\ phase' \in {"ready", "exited"}
      /\ UNCHANGED <<module, mem, table, globals, out>>
  BY DEF StartupInstantiate
<1>2. MemoryMade /\ TableMade
  BY <1>1 DEF RInv
<1> QED
  BY <1>1, <1>2 DEF MemoryMade, TableMade, Zeros, Nulls, Wasm!Instantiate, Made

LEMMA TrapStep ==
  ASSUME phase = "ready", DoTrap
  PROVE  Wasm!Fail
BY DEF DoTrap, Wasm!Fail, Made

-----------------------------------------------------------------------------
\* The bytes at an address are those of the memory from there on.
LEMMA WordIs ==
  ASSUME IInv, NEW p \in Nat, NEW n \in Nat, p + n <= Len(mem)
  PROVE  /\ Word(p, n) = Wasm!Number(SubSeq(mem, p + 1, p + n))
         /\ Len(SubSeq(mem, p + 1, p + n)) = n
<1> DEFINE s == SubSeq(mem, p + 1, p + n)
           A(f) == f = [k \in 0..n |-> IF k = 0 THEN 0
                          ELSE f[k - 1] + ByteAt(p + k - 1) * ByteMod^(k - 1)]
           B(f) == f = [k \in 0..n |-> IF k = 0 THEN 0
                          ELSE f[k - 1] + s[k] * ByteMod^(k - 1)]
<1>1. mem \in Seq(Byte)
  BY DEF IInv
<1>2. Len(s) = n /\ \A k \in 1..n : s[k] = mem[p + k]
  BY <1>1
<1>3. \A k \in 1..n : s[k] = ByteAt(p + k - 1)
  <2> TAKE k \in 1..n
  <2>1. p + k - 1 < Len(mem) /\ (p + k - 1) + 1 = p + k
    BY <1>1
  <2> QED
    BY <1>2, <2>1 DEF ByteAt
<1> HIDE DEF s
<1>4. ASSUME NEW f PROVE A(f) <=> B(f)
  <2>1. \A k \in 0..n : k = 0 \/ s[k] = ByteAt(p + k - 1)
    BY <1>3
  <2>2. [k \in 0..n |-> IF k = 0 THEN 0 ELSE f[k - 1] + ByteAt(p + k - 1) * ByteMod^(k - 1)]
          = [k \in 0..n |-> IF k = 0 THEN 0 ELSE f[k - 1] + s[k] * ByteMod^(k - 1)]
    BY <2>1
  <2> QED
    BY <2>2
<1>5. Word(p, n) = (CHOOSE f : A(f))[n]
  BY DEF Word
<1>6. Wasm!Number(s) = (CHOOSE f : B(f))[n]
  BY <1>2 DEF Wasm!Number
<1> HIDE DEF A, B
<1>7. (CHOOSE f : A(f)) = (CHOOSE f : B(f))
  BY <1>4, Zenon
<1> QED
  BY <1>2, <1>5, <1>6, <1>7 DEF s

LEMMA LoadStep ==
  ASSUME IInv, NEW a \in Accesses, Load(a)
  PROVE  Wasm!Load(a)
<1>1. phase = "ready" /\ a.op \in {"load_s", "load_u"}
  BY DEF Load
<1>2. CASE Fits(a)
  <2>1. /\ out' = Extended(a.op, Word(maddr(a), a.n), a.n)
        /\ UNCHANGED <<module, phase, mem, table, globals>>
    BY <1>2 DEF Load
  <2>2. maddr(a) = a.addr + a.off /\ maddr(a) \in Nat /\ maddr(a) + a.n <= Len(mem)
        /\ a.n \in Nat
    BY <1>2, FittingAddress, AccessesAssumption
  <2> DEFINE s == SubSeq(mem, a.addr + a.off + 1, a.addr + a.off + a.n)
  <2>3. Word(maddr(a), a.n) = Wasm!Number(s) /\ Len(s) = a.n
    BY <2>2, WordIs
  <2>4. out' = Wasm!Loaded(a.op, s)
    BY <2>1, <2>3 DEF Extended, Wasm!Loaded
  <2>5. ~(a.addr + a.off + a.n > Len(mem))
    BY <2>2, <1>2 DEF Fits, IInv
  <2> QED
    BY <1>1, <2>1, <2>4, <2>5 DEF Wasm!Load, Made
<1>3. CASE ~Fits(a)
  <2>1. a.addr + a.off + a.n > Len(mem)
    BY <1>3, AccessesAssumption, InstanceAssumption DEF Fits, IInv
  <2>2. Wasm!Fail
    BY <1>1, <1>3, TrapStep DEF Load
  <2> QED
    BY <1>1, <2>1, <2>2 DEF Wasm!Load, Made
<1> QED
  BY <1>2, <1>3

LEMMA StoreStep ==
  ASSUME IInv, NEW a \in Accesses, Store(a)
  PROVE  Wasm!Store(a)
<1>1. phase = "ready" /\ a.op = "store"
  BY DEF Store
<1>2. CASE Fits(a)
  <2>1. /\ mem' = Copied(mem, maddr(a), [k \in 1..a.n |-> ByteOf(a.val, k)])
        /\ UNCHANGED <<module, phase, table, globals, out>>
    BY <1>2 DEF Store
  <2>2. maddr(a) = a.addr + a.off
    BY <1>2, FittingAddress
  <2>3. mem' = Wasm!Overlay(mem, a.addr + a.off, Wasm!Bytes(a.val, a.n))
    BY <2>1, <2>2 DEF Copied, Wasm!Overlay, Wasm!Bytes, ByteOf
  <2>4. ~(a.addr + a.off + a.n > Len(mem))
    BY <1>2, AccessesAssumption, InstanceAssumption DEF Fits, IInv
  <2> QED
    BY <1>1, <2>1, <2>3, <2>4 DEF Wasm!Store, Made
<1>3. CASE ~Fits(a)
  <2>1. a.addr + a.off + a.n > Len(mem)
    BY <1>3, AccessesAssumption, InstanceAssumption DEF Fits, IInv
  <2>2. Wasm!Fail
    BY <1>1, <1>3, TrapStep DEF Store
  <2> QED
    BY <1>1, <2>1, <2>2 DEF Wasm!Store, Made
<1> QED
  BY <1>2, <1>3

\* Equal types have equal indices, so that the type index is as good as the
\* type.
LEMMA LookupStep ==
  ASSUME IInv, Regular(module), NEW l \in Lookups, Lookup(l)
  PROVE  Wasm!Lookup(l)
<1>1. phase = "ready" /\ l.idx \in Nat
  BY LookupsAssumption DEF Lookup
<1>2. LookupTraps(l) <=>
        \/ l.idx >= Len(table)
        \/ table[l.idx + 1] = Null
        \/ module.types[module.sigs[table[l.idx + 1]]] # module.types[l.type]
  <2>1. CASE l.idx >= Len(table) \/ table[l.idx + 1] = Null
    BY <2>1 DEF LookupTraps
  <2>2. CASE l.idx < Len(table) /\ table[l.idx + 1] # Null
    <3>1. table \in Seq(Entry) /\ l.idx + 1 \in 1..Len(table)
      BY <1>1, <2>2 DEF IInv
    <3>2. table[l.idx + 1] \in DOMAIN module.sigs
      <4>1. table[l.idx + 1] \in Entry
        BY <3>1
      <4> QED
        BY <2>2, <4>1 DEF Entry
    <3>3. module.sigs[table[l.idx + 1]] = l.type <=>
            module.types[module.sigs[table[l.idx + 1]]] = module.types[l.type]
      BY <3>2 DEF Regular
    <3> QED
      BY <2>2, <3>1, <3>3 DEF LookupTraps
  <2> QED
    BY <1>1, <2>1, <2>2 DEF IInv
<1>3. CASE LookupTraps(l)
  <2>1. Wasm!Fail
    BY <1>1, <1>3, TrapStep DEF Lookup
  <2> QED
    BY <1>1, <1>2, <1>3, <2>1 DEF Wasm!Lookup, Made
<1>4. CASE ~LookupTraps(l)
  <2>1. out' = table[l.idx + 1] /\ UNCHANGED <<module, phase, mem, table, globals>>
    BY <1>4 DEF Lookup
  <2> QED
    BY <1>1, <1>2, <1>4, <2>1 DEF Wasm!Lookup, Made
<1> QED
  BY <1>3, <1>4

-----------------------------------------------------------------------------
LEMMA CopyStep ==
  ASSUME IInv, RInv, Regular(module), DataInstantiate \/ ElemsInstantiate
  PROVE  [Wasm!Next]_(Wasm!vars)
<1>1. CASE DataInstantiate
  <2>1. /\ phase = "data" /\ i \in Nat /\ i <= Len(module.data) /\ mem \in Seq(Byte)
        /\ module \in Modules
    BY <1>1 DEF DataInstantiate, IInv
  <2>2. /\ module.data \in Seq([offset : Nat, items : Seq(Byte)])
        /\ module.pages * PageSize \in Nat
    BY <2>1, ModuleIs, RegularMemory
  <2>3. Filling(Zeros(module), module.pages * PageSize, mem, module.data)
    BY <2>1 DEF RInv
  <2>4. CASE Inside(mem, module.data[i].offset, module.data[i].items)
    <3>1. phase' = phase /\ module' = module /\ out' = out
      BY <1>1, <2>4 DEF DataInstantiate
    <3> QED
      BY <2>1, <3>1, StutterStep DEF Starting
  <2>5. CASE ~Inside(mem, module.data[i].offset, module.data[i].items)
    <3>1. ~Wasm!FitAll(module.pages * PageSize, module.data)
      BY <2>1, <2>2, <2>3, <2>5, FillingStep
    <3>2. Overrun
      BY <1>1, <2>5 DEF DataInstantiate
    <3> QED
      BY <2>1, <3>1, <3>2, OverrunStep DEF Starting, Wasm!Next
  <2> QED
    BY <2>4, <2>5
<1>2. CASE ElemsInstantiate
  <2>1. /\ phase = "elems" /\ i \in Nat /\ i <= Len(module.elems) /\ table \in Seq(Entry)
        /\ module \in Modules
    BY <1>2 DEF ElemsInstantiate, IInv
  <2>2. /\ module.elems \in Seq([offset : Nat, items : Seq(Entry)])
        /\ module.table_size \in Nat
    BY <2>1, ElemsAreEntries, ModuleIs
  <2>3. Filling(Nulls(module), module.table_size, table, module.elems)
    BY <2>1 DEF RInv
  <2>4. CASE Inside(table, module.elems[i].offset, module.elems[i].items)
    <3>1. phase' = phase /\ module' = module /\ out' = out
      BY <1>2, <2>4 DEF ElemsInstantiate
    <3> QED
      BY <2>1, <3>1, StutterStep DEF Starting
  <2>5. CASE ~Inside(table, module.elems[i].offset, module.elems[i].items)
    <3>1. ~Wasm!FitAll(module.table_size, module.elems)
      BY <2>1, <2>2, <2>3, <2>5, FillingStep
    <3>2. Overrun
      BY <1>2, <2>5 DEF ElemsInstantiate
    <3> QED
      BY <2>1, <3>1, <3>2, OverrunStep DEF Starting, Wasm!Next
  <2> QED
    BY <2>4, <2>5
<1> QED
  BY <1>1, <1>2

\* Every step is one of WebAssembly's, or none.
LEMMA WasmStep ==
  ASSUME IInv, RInv, Regular(module), [Next]_vars
  PROVE  [Wasm!Next]_(Wasm!vars)
<1>1. CASE DataInstantiate \/ ElemsInstantiate
  BY <1>1, CopyStep
<1>2. CASE MemoryInstantiate \/ GlobalsInstantiate \/ TableInstantiate \/ ElemsDone
  <2>1. phase \in Starting /\ phase' \in Starting /\ module' = module /\ out' = out
    BY <1>2 DEF MemoryInstantiate, GlobalsInstantiate, TableInstantiate, ElemsDone, Starting
  <2> QED
    BY <2>1, StutterStep
<1>3. CASE StartupInstantiate
  BY <1>3, StartupStep DEF Wasm!Next
<1>4. ASSUME NEW a \in Accesses, Load(a) \/ Store(a) PROVE Wasm!Next
  BY <1>4, LoadStep, StoreStep DEF Wasm!Next
<1>5. ASSUME NEW l \in Lookups, Lookup(l) PROVE Wasm!Next
  BY <1>5, LookupStep DEF Wasm!Next
<1>6. CASE UNCHANGED vars
  BY <1>6 DEF vars, Wasm!vars, Made
<1> QED
  BY <1>1, <1>2, <1>3, <1>4, <1>5, <1>6 DEF Next, Instantiate, Access

\* Instantiating a regular module in steps, into memory that malloc cleared,
\* and accessing it at 32 bits is what WebAssembly defines: memory, table and
\* globals are those of one step, no copy leaves them when the segments that
\* hold anything fit, and loads, stores and lookups yield the same or trap.
\* Nothing is said of a module with a segment that does not fit, which
\* WebAssembly refuses: its copies overrun, and that is undefined.
THEOREM InstancesImplement ==
  ASSUME Fresh = {0}, \A m \in Modules : Regular(m)
  PROVE  Spec => Wasm!Init /\ [][Wasm!Next]_(Wasm!vars)
<1>1. Init => Wasm!Init /\ RInv
  BY DEF Init, Wasm!Init, Made, RInv
<1>2. IInv => Regular(module)
  BY DEF IInv
<1>3. IInv /\ RInv /\ [Next]_vars => RInv'
  BY <1>2, NextRInv
<1>4. IInv /\ RInv /\ [Next]_vars => [Wasm!Next]_(Wasm!vars)
  BY <1>2, WasmStep
<1> QED
  BY <1>1, <1>3, <1>4, InitIInv, NextIInv, PTL DEF Spec

=============================================================================
