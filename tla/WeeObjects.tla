------------------------------ MODULE WeeObjects ------------------------------
(***************************************************************************)
(* The objects weerun's imports work on: native.c and the chained hash     *)
(* table of object.c.  One action per native function; call_indirect and   *)
(* call reach them through invoke_native_function, with any values the     *)
(* program has.                                                            *)
(*                                                                         *)
(* A reference is an index into heap, 0 is the null reference: the program *)
(* gets references from the natives only, and nothing is ever freed.  A    *)
(* chain is the sequence of its entries from the head on.                  *)
(*                                                                         *)
(* Abstracted: the mixing of hash_object (Hash), and the bits of a double  *)
(* (F64, with the equality of C, F64Eq).                                   *)
(***************************************************************************)
EXTENDS Naturals, Sequences, FiniteSets

CONSTANTS
  I32, F64,      \* the payloads that are boxed
  F64Eq(_, _),   \* == of two doubles
  Hash(_, _),    \* Hash(type, payload), payload the reference of an OBJECT
  INITIAL_CAP,   \* the buckets of a new table, a power of two
  LOAD_FACTOR,   \* the load, in percent, at which a table grows
  MaxObjects,    \* bound: the objects and boxes a program makes ...
  MaxTables,     \* ... the ones of them that are objects ...
  MaxEntries,    \* ... the entries of a table, which NaNs add to without end ...
  Stored         \* ... and the references it stores in objects

OBJECT  == "object"
BOX_I32 == "i32"
BOX_F64 == "f64"
NULL    == 0

\* The load factor lets a table of INITIAL_CAP buckets have an entry before it
\* grows to twice the size; with 60 percent one bucket is enough.
ASSUME CapAssumption ==
  /\ INITIAL_CAP \in Nat \ {0} /\ LOAD_FACTOR \in Nat /\ MaxObjects \in Nat
  /\ (LOAD_FACTOR + 1) * INITIAL_CAP > 50

ASSUME HashAssumption ==
  /\ \A v \in I32 : Hash(BOX_I32, v) \in Nat
  /\ \A v \in F64 : Hash(BOX_F64, v) \in Nat
  /\ \A r \in 1..MaxObjects : Hash(OBJECT, r) \in Nat

\* F64 has all doubles, by their bits.  Only the two zeros are equal and differ in
\* their bits, and hash_object tells them apart: 0 and 4316648529147585864, with
\* an intptr_t of 64 bits.
ASSUME DoublesAssumption ==
  \A v, w \in F64 : F64Eq(v, w) /\ Hash(BOX_F64, v) = Hash(BOX_F64, w) => v = w

VARIABLES
  heap,    \* reference -> [type, val]; the val of an object is its table
  call,    \* the last native called, with its arguments and what it returned
  trapped  \* whether it trapped, which ends the program

vars == <<heap, call, trapped>>

-----------------------------------------------------------------------------
Refs     == 0..Len(heap)
Tables   == {r \in DOMAIN heap : heap[r].type = OBJECT}
IsBoxed(r) == heap[r].type # OBJECT

HashObject(r) ==
  IF IsBoxed(r) THEN Hash(heap[r].type, heap[r].val) ELSE Hash(OBJECT, r)

ObjectEq(a, b) ==
  IF a = NULL \/ b = NULL THEN a = b
  ELSE /\ heap[a].type = heap[b].type
       /\ CASE heap[a].type = OBJECT -> a = b
            [] heap[a].type = BOX_I32 -> heap[a].val = heap[b].val
            [] heap[a].type = BOX_F64 -> F64Eq(heap[a].val, heap[b].val)

EmptyTable == [cap |-> INITIAL_CAP, num_elems |-> 0,
               buckets |-> [b \in 0..(INITIAL_CAP - 1) |-> <<>>]]

\* The entry that ht_insert_internal makes.
Entry(key, val) == [key |-> key, val |-> val, hash |-> HashObject(key)]

\* Mutant: the stored hashes are compared, the keys are not.
MutMatches(ht, key) ==
  LET chain == ht.buckets[HashObject(key) % ht.cap]
  IN {i \in DOMAIN chain : chain[i].hash = HashObject(key)}

\* The positions in its chain that hold the key.
Matches(ht, key) ==
  LET chain == ht.buckets[HashObject(key) % ht.cap]
  IN {i \in DOMAIN chain : /\ chain[i].hash = HashObject(key)
                           /\ ObjectEq(chain[i].key, key)}

\* The first of them is the one a search finds.
Found(ht, key) == CHOOSE i \in Matches(ht, key) :
                    \A j \in Matches(ht, key) : i <= j

HtFind(ht, key) ==
  IF Matches(ht, key) = {} THEN NULL
  ELSE ht.buckets[HashObject(key) % ht.cap][Found(ht, key)].val

\* A new entry becomes the head of its chain.
InsertNew(ht, key, val) ==
  [ht EXCEPT !.buckets[HashObject(key) % ht.cap] =
     <<Entry(key, val)>> \o @]

\* Mutant: the chains stay where they are and the new buckets are empty.
MutGrow(ht) ==
  [ht EXCEPT !.cap = 2 * @,
             !.buckets = [b \in 0..(2 * ht.cap - 1) |->
                            IF b < ht.cap THEN ht.buckets[b] ELSE <<>>]]

\* The entries of an old chain that belong into bucket b of cap buckets, from the
\* old head on, each put in front of those before it.
Relinked(old, cap, b) ==
  LET chain[n \in 0..Len(old)] ==
        IF n = 0 THEN <<>>
        ELSE IF HashObject(old[n].key) % cap = b
             THEN <<Entry(old[n].key, old[n].val)>> \o chain[n - 1]
             ELSE chain[n - 1]
  IN chain[Len(old)]

\* Mutant: the table keeps its old capacity.
MutGrowCap(ht) ==
  [ht EXCEPT !.buckets = [b \in 0..(2 * ht.cap - 1) |->
                            Relinked(ht.buckets[b % ht.cap], 2 * ht.cap, b)]]

\* Every entry is inserted anew: those of an old chain go into the two new
\* chains whose numbers agree with its own modulo the old capacity.
Grow(ht) ==
  LET cap == 2 * ht.cap
  IN [ht EXCEPT !.cap = cap,
                !.buckets = [b \in 0..(cap - 1) |->
                               Relinked(ht.buckets[b % ht.cap], cap, b)]]

\* Mutant: the number of entries is not counted when an entry is new.
MutHtInsert(ht, key, val) ==
  IF Matches(ht, key) # {}
  THEN [ht EXCEPT !.buckets[HashObject(key) % ht.cap][Found(ht, key)].val = val]
  ELSE InsertNew(IF (ht.num_elems * 100) \div ht.cap > LOAD_FACTOR
                 THEN Grow(ht) ELSE ht, key, val)

\* Mutant: a key that is there already is not looked for.
MutHtInsertTwice(ht, key, val) ==
  LET roomy == IF (ht.num_elems * 100) \div ht.cap > LOAD_FACTOR
               THEN Grow(ht) ELSE ht
  IN [InsertNew(roomy, key, val) EXCEPT !.num_elems = @ + 1]

\* Overwrite the entry of the key, or grow where necessary and add one.
HtInsert(ht, key, val) ==
  IF Matches(ht, key) # {}
  THEN [ht EXCEPT !.buckets[HashObject(key) % ht.cap][Found(ht, key)].val = val]
  ELSE LET roomy == IF (ht.num_elems * 100) \div ht.cap > LOAD_FACTOR
                    THEN Grow(ht) ELSE ht
       IN [InsertNew(roomy, key, val) EXCEPT !.num_elems = @ + 1]

-----------------------------------------------------------------------------
Create(fn, args, type, val) ==
  /\ ~trapped
  /\ Len(heap) < MaxObjects
  /\ heap' = Append(heap, [type |-> type, val |-> val])
  /\ call' = [fn |-> fn, args |-> args, result |-> Len(heap')]
  /\ UNCHANGED trapped

ObjNew == Cardinality(Tables) < MaxTables /\ Create("new", <<>>, OBJECT, EmptyTable)

ObjBoxI32 == \E v \in I32 : Create("box_i32", <<v>>, BOX_I32, v)

ObjBoxF64 == \E v \in F64 : Create("box_f64", <<v>>, BOX_F64, v)

DoTrap(fn, args) ==
  /\ call' = [fn |-> fn, args |-> args, result |-> NULL]
  /\ trapped' = TRUE
  /\ UNCHANGED heap

Yield(fn, args, value) ==
  /\ call' = [fn |-> fn, args |-> args, result |-> value]
  /\ UNCHANGED <<heap, trapped>>

\* obj.get and obj.set trap on null references and on boxes.
BadAccess(obj, key) == obj = NULL \/ key = NULL \/ IsBoxed(obj)

ObjGet ==
  /\ ~trapped
  /\ \E obj, key \in Refs :
       IF BadAccess(obj, key) THEN DoTrap("get", <<obj, key>>)
       ELSE Yield("get", <<obj, key>>, HtFind(heap[obj].val, key))

ObjSet ==
  /\ ~trapped
  /\ \E obj, key \in Refs, val \in Refs \cap Stored :
       IF BadAccess(obj, key) THEN DoTrap("set", <<obj, key, val>>)
       ELSE /\ HtInsert(heap[obj].val, key, val).num_elems <= MaxEntries
            /\ heap' = [heap EXCEPT ![obj].val = HtInsert(@, key, val)]
            /\ call' = [fn |-> "set", args |-> <<obj, key, val>>, result |-> NULL]
            /\ UNCHANGED trapped

\* i32.unbox and f64.unbox.
Unbox(type) ==
  /\ ~trapped
  /\ \E obj \in Refs :
       IF obj = NULL \/ heap[obj].type # type THEN DoTrap(type, <<obj>>)
       ELSE Yield(type, <<obj>>, heap[obj].val)

ObjEq ==
  /\ ~trapped
  /\ \E a, b \in Refs :
       Yield("eq", <<a, b>>, IF ObjectEq(a, b) THEN 1 ELSE 0)

-----------------------------------------------------------------------------
Init ==
  /\ heap = <<>>
  /\ call = [fn |-> "none", args |-> <<>>, result |-> NULL]
  /\ trapped = FALSE

Next ==
  \/ ObjNew \/ ObjBoxI32 \/ ObjBoxF64
  \/ ObjGet \/ ObjSet \/ Unbox(BOX_I32) \/ Unbox(BOX_F64) \/ ObjEq
  \/ trapped /\ UNCHANGED vars

Spec == Init /\ [][Next]_vars

-----------------------------------------------------------------------------
\* The entries of a table: every bucket with every position in its chain.
Places(ht) == UNION {{b} \X DOMAIN ht.buckets[b] : b \in DOMAIN ht.buckets}

EntryAt(ht, p) == ht.buckets[p[1]][p[2]]

TableOK(ht) ==
  /\ ht.cap \in Nat /\ ht.num_elems \in Nat
  /\ DOMAIN ht.buckets = 0..(ht.cap - 1)
  /\ \A b \in DOMAIN ht.buckets :
       ht.buckets[b] \in Seq([key : DOMAIN heap, val : Refs, hash : Nat])

\* Types: boxes hold payloads, tables hold references to what was created.
TypeOK ==
  /\ \A r \in DOMAIN heap :
       /\ heap[r].type = OBJECT => TableOK(heap[r].val)
       /\ heap[r].type = BOX_I32 => heap[r].val \in I32
       /\ heap[r].type = BOX_F64 => heap[r].val \in F64
  /\ call.result \in Nat \cup I32 \cup F64
  /\ trapped \in BOOLEAN

\* Every entry is in the bucket that a search for its key looks in, at every
\* capacity the table grew to.
BucketsSound ==
  \A t \in Tables : LET ht == heap[t].val IN
    \A b \in DOMAIN ht.buckets : \A i \in DOMAIN ht.buckets[b] :
      LET e == ht.buckets[b][i]
      IN e.hash = HashObject(e.key) /\ e.hash % ht.cap = b

\* The value that makes a reference a key, a double by its bits.
KeyOf(r) == IF IsBoxed(r) THEN <<heap[r].type, heap[r].val>> ELSE <<OBJECT, r>>

\* All but the NaNs, which object_eq takes for different from themselves.
IsKey(r) == ObjectEq(r, r)

SameKey(a, b) == IsKey(a) /\ KeyOf(a) = KeyOf(b)

\* No table has two entries of one key: obj.set of a key that is there overwrites.
\* 0.0 and -0.0 are two keys, although obj.eq takes them for equal (the hashes,
\* compared first, differ), and every obj.set of a NaN makes an entry.
NoDuplicateKeys ==
  \A t \in Tables : LET ht == heap[t].val IN
    \A p, q \in Places(ht) :
      SameKey(EntryAt(ht, p).key, EntryAt(ht, q).key) => p = q

\* num_elems counts the entries, through overwriting and growing, and growing
\* comes in time: a table is never fuller than one entry above its load factor.
LoadBounded ==
  \A t \in Tables : LET ht == heap[t].val IN
    /\ ht.num_elems = Cardinality(Places(ht))
    /\ (ht.num_elems - 1) * 100 < (LOAD_FACTOR + 1) * ht.cap

-----------------------------------------------------------------------------
\* The entries a search can find: those of a NaN it never does.
Entries(ht) ==
  {EntryAt(ht, p) : p \in {q \in Places(ht) : IsKey(EntryAt(ht, q).key)}}

MapOf(ht) ==
  LET Holder(k) == CHOOSE e \in Entries(ht) : KeyOf(e.key) = k
  IN [k \in {KeyOf(e.key) : e \in Entries(ht)} |-> Holder(k).val]

Maps == [r \in DOMAIN heap |->
           IF IsBoxed(r) THEN heap[r]
           ELSE [type |-> OBJECT, val |-> MapOf(heap[r].val)]]

Map == INSTANCE ObjectMap WITH heap <- Maps

\* The chained table behaves as a map from keys to references does, with doubles
\* as keys by their bits and nothing kept under a NaN.
ImplementsMap == Map!Spec
=============================================================================
