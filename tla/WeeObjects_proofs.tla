-------------------------- MODULE WeeObjects_proofs --------------------------
(***************************************************************************)
(* Proofs about the objects of native.c and their hash tables: for any     *)
(* number of objects, any payloads, any hash function and load factor, the *)
(* chains are what the searches expect, and the tables implement maps.     *)
(*                                                                         *)
(* The parts: induction over the natural numbers and the chain that        *)
(* ht_grow relinks; the inductive invariant IInv; what growing, inserting  *)
(* and overwriting do to the entries of one table; IInv is kept; what they *)
(* do to its map; the refinement of ObjectMap.                             *)
(***************************************************************************)
EXTENDS WeeObjects, TLAPS, WellFoundedInduction, FiniteSetTheorems

-----------------------------------------------------------------------------
\* A set of natural numbers has a least element: what induction rests on below.
LEMMA LeastElement ==
  ASSUME NEW T \in SUBSET Nat, T # {}
  PROVE  \E n \in T : \A m \in T : n <= m
<1>1. IsWellFoundedOn(OpToRel(<, Nat), Nat)
  BY NatLessThanWellFounded
<1>2. PICK n \in T : \A m \in T : ~ (<<m, n>> \in OpToRel(<, Nat))
  BY <1>1, WFMin
<1>3. \A m \in T : ~ (m < n)
  BY <1>2 DEF OpToRel
<1> QED
  BY <1>3

\* r starts with a, and G[n] takes its value before n to the one at n.
Iterates(r, S, a, N, G) ==
  /\ r \in [0..N -> S]
  /\ r[0] = a
  /\ \A n \in 1..N : r[n] = G[n][r[n - 1]]

\* Such a function exists, whatever the steps are.
LEMMA IterationExists ==
  ASSUME NEW S, NEW a \in S, NEW N \in Nat, NEW G \in [1..N -> [S -> S]]
  PROVE  \E r : Iterates(r, S, a, N, G)
<1> DEFINE Upto(k) == \E r \in [0..k -> S] :
                        r[0] = a /\ \A n \in 1..k : r[n] = G[n][r[n - 1]]
           T == {k \in 0..N : ~ Upto(k)}
<1>1. Upto(0)
  <2> DEFINE r == [n \in 0..0 |-> a]
  <2>1. r \in [0..0 -> S] /\ r[0] = a /\ 1..0 = {}
    OBVIOUS
  <2> QED
    BY <2>1
<1>2. ASSUME NEW k \in 1..N, Upto(k - 1) PROVE Upto(k)
  <2>1. PICK r \in [0..(k - 1) -> S] :
               r[0] = a /\ \A n \in 1..(k - 1) : r[n] = G[n][r[n - 1]]
    BY <1>2
  <2> DEFINE s == [n \in 0..k |-> IF n = k THEN G[k][r[k - 1]] ELSE r[n]]
  <2>2. r[k - 1] \in S
    BY <2>1
  <2>3. G[k][r[k - 1]] \in S
    BY <2>2
  <2>4. s \in [0..k -> S]
    BY <2>1, <2>3
  <2>5. s[0] = a
    BY <2>1
  <2>6. \A n \in 1..k : s[n] = G[n][s[n - 1]]
    <3> TAKE n \in 1..k
    <3>1. n - 1 \in 0..k /\ n - 1 # k /\ n \in 0..k
      OBVIOUS
    <3>2. s[n - 1] = r[n - 1]
      BY <3>1
    <3>3. CASE n = k
      BY <3>2, <3>3
    <3>4. CASE n # k
      <4>1. n \in 1..(k - 1) /\ s[n] = r[n]
        BY <3>1, <3>4
      <4> QED
        BY <4>1, <2>1, <3>2
    <3> QED
      BY <3>3, <3>4
  <2> QED
    BY <2>4, <2>5, <2>6
<1> HIDE DEF Upto
<1>3. T = {}
  <2> SUFFICES ASSUME T # {} PROVE FALSE
    OBVIOUS
  <2> T \in SUBSET Nat
    OBVIOUS
  <2> HIDE DEF T
  <2>1. PICK k \in T : \A m \in T : k <= m
    BY LeastElement
  <2> USE DEF T
  <2>2. k \in 1..N
    BY <1>1
  <2>3. k - 1 \in 0..N /\ k - 1 \notin T
    BY <2>1, <2>2
  <2>4. Upto(k - 1)
    BY <2>3
  <2> QED
    BY <2>2, <2>4, <1>2
<1>4. Upto(N)
  BY <1>3
<1> QED
  BY <1>4 DEF Upto, Iterates

-----------------------------------------------------------------------------
Cell == [key : Nat \ {0}, val : Nat, hash : Nat]

Selected(old, cap, b) == {i \in 1..Len(old) : HashObject(old[i].key) % cap = b}

\* f takes the places of new to those of the entries S of old, one to one, and
\* new holds them made anew.
Reindexes(f, new, old, S) ==
  /\ f \in [1..Len(new) -> S]
  /\ \A i \in S : \E j \in 1..Len(new) : f[j] = i
  /\ \A j, k \in 1..Len(new) : f[j] = f[k] => j = k
  /\ \A j \in 1..Len(new) : new[j] = Entry(old[f[j]].key, old[f[j]].val)

\* Relinking keeps the selected entries.
LEMMA RelinkedEntries ==
  ASSUME NEW old \in Seq(Cell), NEW cap, NEW b,
         \A i \in 1..Len(old) : HashObject(old[i].key) \in Nat
  PROVE  /\ Relinked(old, cap, b) \in Seq(Cell)
         /\ \E f : Reindexes(f, Relinked(old, cap, b), old, Selected(old, cap, b))
<1> DEFINE N == Len(old)
           Sel(n) == HashObject(old[n].key) % cap = b
           New(n) == Entry(old[n].key, old[n].val)
           Eqn(c) == c = [n \in 0..N |->
                            IF n = 0 THEN <<>>
                            ELSE IF Sel(n) THEN <<New(n)>> \o c[n - 1]
                                 ELSE c[n - 1]]
           chain == CHOOSE c : Eqn(c)
<1>0. N \in Nat
  OBVIOUS
<1>1. Relinked(old, cap, b) = chain[N]
  BY DEF Relinked
<1>2. \A n \in 1..N : New(n) \in Cell
  <2> TAKE n \in 1..N
  <2>1. old[n] \in Cell /\ HashObject(old[n].key) \in Nat
    OBVIOUS
  <2>2. old[n].key \in Nat \ {0} /\ old[n].val \in Nat
    BY <2>1 DEF Cell
  <2> QED
    BY <2>1, <2>2 DEF Entry, Cell
<1>3. Eqn(chain)
  <2> DEFINE G == [n \in 1..N |-> [c \in Seq(Cell) |->
                     IF Sel(n) THEN <<New(n)>> \o c ELSE c]]
  <2>1. G \in [1..N -> [Seq(Cell) -> Seq(Cell)]]
    <3> SUFFICES ASSUME NEW n \in 1..N, NEW c \in Seq(Cell)
                 PROVE  (IF Sel(n) THEN <<New(n)>> \o c ELSE c) \in Seq(Cell)
      OBVIOUS
    <3>1. New(n) \in Cell
      BY <1>2
    <3> HIDE DEF New, Sel
    <3> QED
      BY <3>1
  <2>2. <<>> \in Seq(Cell)
    OBVIOUS
  <2> HIDE DEF G, N, New, Sel
  <2> DEFINE S == Seq(Cell)
             z == <<>>
  <2> HIDE DEF S, z
  <2>3. PICK r : Iterates(r, S, z, N, G)
    <3>1. z \in S /\ G \in [1..N -> [S -> S]]
      BY <2>1, <2>2 DEF S, z
    <3> QED
      BY <1>0, <3>1, IterationExists
  <2>4. r \in [0..N -> Seq(Cell)] /\ r[0] = <<>>
    BY <2>3 DEF Iterates, S, z
  <2>5. \A n \in 1..N : r[n] = IF Sel(n) THEN <<New(n)>> \o r[n - 1] ELSE r[n - 1]
    <3> TAKE n \in 1..N
    <3>1. n - 1 \in 0..N
      BY <1>0
    <3>2. r[n - 1] \in Seq(Cell)
      BY <3>1, <2>4
    <3>3. r[n] = G[n][r[n - 1]]
      BY <2>3 DEF Iterates
    <3> QED
      BY <3>2, <3>3 DEF G
  <2> DEFINE h == [n \in 0..N |-> IF n = 0 THEN <<>>
                                  ELSE IF Sel(n) THEN <<New(n)>> \o r[n - 1]
                                       ELSE r[n - 1]]
  <2>6. r = h
    <3>1. \A n \in 0..N : r[n] = h[n]
      <4> TAKE n \in 0..N
      <4>1. n = 0 \/ n \in 1..N
        BY <1>0
      <4> QED
        BY <4>1, <2>4, <2>5
    <3> QED
      BY <3>1, <2>4
  <2>7. Eqn(r)
    BY <2>6
  <2> HIDE DEF Eqn
  <2> QED
    BY <2>7
<1> HIDE DEF chain
<1>4. chain[0] = <<>>
  BY <1>3, <1>0
<1>5. \A n \in 1..N : chain[n] = IF Sel(n) THEN <<New(n)>> \o chain[n - 1]
                                 ELSE chain[n - 1]
  <2> TAKE n \in 1..N
  <2> HIDE DEF Sel, New
  <2> n \in 0..N /\ n # 0
    BY <1>0
  <2> QED
    BY <1>3
<1> HIDE DEF Eqn
<1> DEFINE P(n) == {i \in 1..n : Sel(i)}
           Good(n) ==
             /\ chain[n] \in Seq(Cell)
             /\ \E f \in [1..Len(chain[n]) -> P(n)] :
                  /\ \A i \in P(n) : \E j \in 1..Len(chain[n]) : f[j] = i
                  /\ \A j, k \in 1..Len(chain[n]) : f[j] = f[k] => j = k
                  /\ \A j \in 1..Len(chain[n]) : chain[n][j] = New(f[j])
<1>6. Good(0)
  <2> DEFINE f == [j \in 1..0 |-> 0]
  <2>1. chain[0] \in Seq(Cell) /\ Len(chain[0]) = 0 /\ 1..0 = {} /\ P(0) = {}
    BY <1>4
  <2> HIDE DEF New, Sel
  <2>2. f \in [1..Len(chain[0]) -> P(0)]
    BY <2>1
  <2> QED
    BY <2>1, <2>2
<1>7. ASSUME NEW n \in 1..N, Good(n - 1) PROVE Good(n)
  <2>0. New(n) \in Cell
    BY <1>2
  <2> HIDE DEF Sel, New
  <2> DEFINE c == chain[n - 1]
             s == <<New(n)>> \o c
  <2>1. c \in Seq(Cell)
    BY <1>7
  <2>2. PICK f \in [1..Len(c) -> P(n - 1)] :
               /\ \A i \in P(n - 1) : \E j \in 1..Len(c) : f[j] = i
               /\ \A j, k \in 1..Len(c) : f[j] = f[k] => j = k
               /\ \A j \in 1..Len(c) : c[j] = New(f[j])
    BY <1>7
  <2>3. CASE ~ Sel(n)
    <3>1. chain[n] = c
      BY <2>3, <1>5
    <3>2. P(n) = P(n - 1)
      BY <2>3, <1>0
    <3> HIDE DEF c, P
    <3> QED
      BY <2>1, <2>2, <3>1, <3>2
  <2>4. CASE Sel(n)
    <3>1. chain[n] = s
      BY <2>4, <1>5
    <3> HIDE DEF c
    <3>2. /\ s \in Seq(Cell) /\ Len(s) = Len(c) + 1 /\ Len(c) \in Nat
          /\ s[1] = New(n) /\ \A j \in 2..Len(s) : s[j] = c[j - 1]
      BY <2>0, <2>1
    <3> HIDE DEF s
    <3>3. P(n) = P(n - 1) \cup {n} /\ n \notin P(n - 1)
      BY <2>4, <1>0
    <3> HIDE DEF P
    <3> DEFINE g == [j \in 1..Len(s) |-> IF j = 1 THEN n ELSE f[j - 1]]
    <3>4. g \in [1..Len(s) -> P(n)]
      BY <3>2, <3>3, <2>2
    <3>5. \A j \in 2..Len(s) : j - 1 \in 1..Len(c) /\ g[j] = f[j - 1] /\ g[j] # n
      BY <3>2, <3>3, <2>2
    <3>6. \A i \in P(n) : \E j \in 1..Len(s) : g[j] = i
      <4> TAKE i \in P(n)
      <4>1. CASE i = n
        <5>1. 1 \in 1..Len(s) /\ g[1] = i
          BY <4>1, <3>2
        <5> QED
          BY <5>1
      <4>2. CASE i \in P(n - 1)
        <5>1. PICK j \in 1..Len(c) : f[j] = i
          BY <4>2, <2>2
        <5>2. j + 1 \in 1..Len(s) /\ g[j + 1] = i
          BY <5>1, <3>2
        <5> QED
          BY <5>2
      <4> QED
        BY <4>1, <4>2, <3>3
    <3>7. \A j, k \in 1..Len(s) : g[j] = g[k] => j = k
      <4> TAKE j, k \in 1..Len(s)
      <4> HAVE g[j] = g[k]
      <4>1. g[1] = n
        BY <3>2
      <4>2. CASE j = 1
        <5>1. ASSUME k # 1 PROVE g[k] # n
          <6>1. k \in 2..Len(s)
            BY <3>2, <5>1
          <6> HIDE DEF g
          <6> QED
            BY <6>1, <3>5
        <5> QED
          BY <4>1, <4>2, <5>1
      <4>3. CASE k = 1
        <5>1. ASSUME j # 1 PROVE g[j] # n
          <6>1. j \in 2..Len(s)
            BY <3>2, <5>1
          <6> HIDE DEF g
          <6> QED
            BY <6>1, <3>5
        <5> QED
          BY <4>1, <4>3, <5>1
      <4>4. CASE j # 1 /\ k # 1
        <5>1. j - 1 \in 1..Len(c) /\ k - 1 \in 1..Len(c) /\ f[j - 1] = f[k - 1]
          BY <4>4, <3>5, <3>2
        <5>2. j - 1 = k - 1
          BY <5>1, <2>2
        <5> QED
          BY <5>2
      <4> QED
        BY <4>2, <4>3, <4>4
    <3>8. \A j \in 1..Len(s) : s[j] = New(g[j])
      <4> TAKE j \in 1..Len(s)
      <4>1. CASE j = 1
        BY <4>1, <3>2
      <4>2. CASE j # 1
        <5>1. j \in 2..Len(s) /\ j - 1 \in 1..Len(c)
          BY <4>2, <3>2
        <5>2. s[j] = c[j - 1] /\ c[j - 1] = New(f[j - 1]) /\ g[j] = f[j - 1]
          BY <5>1, <3>2, <2>2, <3>5
        <5> QED
          BY <5>2
      <4> QED
        BY <4>1, <4>2
    <3> HIDE DEF g
    <3> QED
      BY <3>1, <3>2, <3>4, <3>6, <3>7, <3>8, ZenonT(60)
  <2> QED
    BY <2>3, <2>4
<1> HIDE DEF Good
<1>8. Good(N)
  <2> DEFINE T == {n \in 0..N : ~ Good(n)}
  <2>1. T \in SUBSET Nat
    BY <1>0
  <2>2. T = {}
    <3> SUFFICES ASSUME T # {} PROVE FALSE
      OBVIOUS
    <3> HIDE DEF T
    <3>1. PICK k \in T : \A m \in T : k <= m
      BY <2>1, LeastElement
    <3> USE DEF T
    <3>2. k \in 1..N
      BY <1>6, <1>0
    <3>3. k - 1 \in 0..N /\ k - 1 \notin T
      BY <3>1, <3>2, <1>0
    <3>4. Good(k - 1)
      BY <3>3
    <3> QED
      BY <3>2, <3>4, <1>7
  <2> QED
    BY <2>2, <1>0
<1>9. P(N) = Selected(old, cap, b)
  BY DEF Selected
<1> HIDE DEF New, P, N
<1>10. /\ chain[N] \in Seq(Cell)
       /\ \E f \in [1..Len(chain[N]) -> P(N)] :
             /\ \A i \in P(N) : \E j \in 1..Len(chain[N]) : f[j] = i
             /\ \A j, k \in 1..Len(chain[N]) : f[j] = f[k] => j = k
             /\ \A j \in 1..Len(chain[N]) : chain[N][j] = New(f[j])
  BY <1>8 DEF Good
<1>11. PICK f : Reindexes(f, chain[N], old, P(N))
  BY <1>10 DEF New, Reindexes
<1> QED
  BY <1>1, <1>9, <1>10, <1>11

-----------------------------------------------------------------------------
LEMMA QuotientLimit ==
  ASSUME NEW n \in Nat, NEW d \in Nat \ {0}, NEW f \in Nat, n \div d <= f
  PROVE  n < (f + 1) * d
OBVIOUS

LEMMA RemainderOfMultiple ==
  ASSUME NEW q \in Nat, NEW r \in Nat, NEW c \in Nat \ {0}, r < c
  PROVE  (q * c + r) % c = r
OBVIOUS

LEMMA QuotientRemainder ==
  ASSUME NEW h \in Nat, NEW d \in Nat \ {0}
  PROVE  h \div d \in Nat /\ h % d \in Nat /\ h = (h \div d) * d + (h % d)
OBVIOUS

\* Doubling the capacity splits a bucket in two.
LEMMA RemainderTwice ==
  ASSUME NEW h \in Nat, NEW c \in Nat \ {0}
  PROVE  (h % (2 * c)) % c = h % c
<1> DEFINE r == h % (2 * c)
           q == h \div (2 * c)
           s == r % c
           p == r \div c
<1>1. 2 * c \in Nat \ {0}
  OBVIOUS
<1>2. r \in Nat /\ q \in Nat /\ h = q * (2 * c) + r
  BY <1>1, QuotientRemainder
<1> HIDE DEF r, q
<1>3. s \in Nat /\ p \in Nat /\ s < c /\ r = p * c + s
  BY <1>2
<1> HIDE DEF s, p
<1>4. h = (2 * q + p) * c + s
  BY <1>2, <1>3
<1>5. 2 * q + p \in Nat
  BY <1>2, <1>3
<1>6. h % c = s
  BY <1>3, <1>4, <1>5, RemainderOfMultiple
<1> QED
  BY <1>6 DEF s, r

-----------------------------------------------------------------------------
(***************************************************************************)
(* The inductive invariant.  What it says of a table is TableOK and the    *)
(* parts of the three safety properties that are about that table.         *)
(***************************************************************************)
Table ==
  [cap : Nat \ {0}, num_elems : Nat,
   buckets : UNION {[0..(c - 1) -> Seq(Cell)] : c \in Nat \ {0}}]

Object ==
  [type : {OBJECT}, val : Table] \cup [type : {BOX_I32}, val : I32]
                                 \cup [type : {BOX_F64}, val : F64]

HeapOK == heap \in Seq(Object) /\ Len(heap) <= MaxObjects

ShapeOK(ht) == ht \in Table /\ ht.buckets \in [0..(ht.cap - 1) -> Seq(Cell)]

CellOK(ht, b, e) ==
  /\ e.key \in DOMAIN heap /\ e.val \in Refs
  /\ e.hash = HashObject(e.key) /\ e.hash % ht.cap = b

CellsOK(ht) == \A p \in Places(ht) : CellOK(ht, p[1], EntryAt(ht, p))

KeysDiffer(ht) ==
  \A p, q \in Places(ht) :
    SameKey(EntryAt(ht, p).key, EntryAt(ht, q).key) => p = q

Counted(ht) ==
  IsFiniteSet(Places(ht)) /\ ht.num_elems = Cardinality(Places(ht))

LoadOK(ht) ==
  /\ (LOAD_FACTOR + 1) * ht.cap > 50
  /\ (ht.num_elems - 1) * 100 < (LOAD_FACTOR + 1) * ht.cap

Good(ht) ==
  ShapeOK(ht) /\ CellsOK(ht) /\ KeysDiffer(ht) /\ Counted(ht) /\ LoadOK(ht)

IInv ==
  /\ HeapOK
  /\ \A t \in Tables, ht \in Table : heap[t].val = ht => Good(ht)
  /\ call.result \in Nat \cup I32 \cup F64
  /\ trapped \in BOOLEAN

-----------------------------------------------------------------------------
LEMMA HashTyped ==
  ASSUME HeapOK, NEW r \in DOMAIN heap
  PROVE  HashObject(r) \in Nat
<1>1. heap[r] \in Object /\ r \in 1..MaxObjects
  BY CapAssumption DEF HeapOK
<1> QED
  BY <1>1, HashAssumption DEF Object, HashObject, IsBoxed, OBJECT, BOX_I32, BOX_F64

\* Keys that are one are one in either order, equal for obj.eq, with one hash.
LEMMA EqualKeys ==
  ASSUME HeapOK, NEW a \in DOMAIN heap, NEW b \in DOMAIN heap, SameKey(a, b)
  PROVE  SameKey(b, a) /\ ObjectEq(a, b) /\ HashObject(a) = HashObject(b)
<1>1. heap[a] \in Object /\ heap[b] \in Object /\ a # NULL /\ b # NULL
  BY DEF HeapOK, NULL
<1>2. KeyOf(a) = KeyOf(b) /\ ObjectEq(a, a)
  BY DEF SameKey, IsKey
<1>3. heap[a].type \in {OBJECT, BOX_I32, BOX_F64} /\ heap[a].type = heap[b].type
  <2>1. KeyOf(a)[1] = heap[a].type /\ KeyOf(b)[1] = heap[b].type
    BY DEF KeyOf, IsBoxed
  <2> QED
    BY <1>1, <1>2, <2>1 DEF Object
<1>4. CASE heap[a].type = OBJECT
  <2>1. KeyOf(a) = <<OBJECT, a>> /\ KeyOf(b) = <<OBJECT, b>>
    BY <1>3, <1>4 DEF KeyOf, IsBoxed
  <2>2. a = b
    <3>1. KeyOf(a)[2] = a /\ KeyOf(b)[2] = b
      BY <2>1
    <3> QED
      BY <1>2, <3>1
  <2> QED
    BY <1>2, <2>2 DEF SameKey, IsKey
<1>5. CASE heap[a].type # OBJECT
  <2>1. KeyOf(a) = <<heap[a].type, heap[a].val>> /\ KeyOf(b) = <<heap[b].type, heap[b].val>>
    BY <1>3, <1>5 DEF KeyOf, IsBoxed
  <2>2. heap[a].val = heap[b].val
    <3>1. KeyOf(a)[2] = heap[a].val /\ KeyOf(b)[2] = heap[b].val
      BY <2>1
    <3> QED
      BY <1>2, <3>1
  <2>3. ObjectEq(a, b) /\ ObjectEq(b, b)
    <3>1. CASE heap[a].type = BOX_I32
      BY <1>1, <1>3, <2>2, <3>1 DEF ObjectEq, OBJECT, BOX_I32, BOX_F64
    <3>2. CASE heap[a].type = BOX_F64
      BY <1>1, <1>2, <1>3, <2>2, <3>2 DEF ObjectEq, OBJECT, BOX_I32, BOX_F64
    <3> QED
      BY <1>3, <1>5, <3>1, <3>2
  <2>4. HashObject(a) = HashObject(b)
    BY <1>3, <1>5, <2>2 DEF HashObject, IsBoxed
  <2> QED
    BY <1>2, <2>3, <2>4 DEF SameKey, IsKey
<1> QED
  BY <1>4, <1>5

\* What a search compares, the hashes and obj.eq, tells whether keys are one.
LEMMA ComparedKeys ==
  ASSUME HeapOK, NEW a \in DOMAIN heap, NEW b \in DOMAIN heap,
         ObjectEq(a, b), HashObject(a) = HashObject(b)
  PROVE  SameKey(a, b)
<1>1. heap[a] \in Object /\ heap[b] \in Object /\ a # NULL /\ b # NULL
  BY DEF HeapOK, NULL
<1>2. heap[a].type \in {OBJECT, BOX_I32, BOX_F64} /\ heap[a].type = heap[b].type
  BY <1>1 DEF Object, ObjectEq
<1>3. CASE heap[a].type = OBJECT
  <2>1. a = b
    BY <1>1, <1>2, <1>3 DEF ObjectEq, OBJECT, BOX_I32, BOX_F64
  <2> QED
    BY <2>1 DEF SameKey, IsKey
<1>4. CASE heap[a].type # OBJECT
  <2>1. heap[a].val = heap[b].val
    <3>1. CASE heap[a].type = BOX_I32
      BY <1>1, <1>2, <3>1 DEF ObjectEq, OBJECT, BOX_I32, BOX_F64
    <3>2. CASE heap[a].type = BOX_F64
      <4>1. heap[a].val \in F64 /\ heap[b].val \in F64
        BY <1>1, <1>2, <3>2 DEF Object, OBJECT, BOX_I32, BOX_F64
      <4>2. F64Eq(heap[a].val, heap[b].val)
        BY <1>1, <1>2, <3>2 DEF ObjectEq, OBJECT, BOX_I32, BOX_F64
      <4>3. Hash(BOX_F64, heap[a].val) = Hash(BOX_F64, heap[b].val)
        BY <1>2, <3>2 DEF HashObject, IsBoxed, OBJECT, BOX_F64
      <4> QED
        BY <4>1, <4>2, <4>3, DoublesAssumption
    <3> QED
      BY <1>2, <1>4, <3>1, <3>2
  <2>2. ObjectEq(a, a)
    <3>1. CASE heap[a].type = BOX_I32
      BY <1>1, <3>1 DEF ObjectEq, OBJECT, BOX_I32, BOX_F64
    <3>2. CASE heap[a].type = BOX_F64
      BY <1>1, <1>2, <2>1, <3>2 DEF ObjectEq, OBJECT, BOX_I32, BOX_F64
    <3> QED
      BY <1>2, <1>4, <3>1, <3>2
  <2>3. KeyOf(a) = KeyOf(b)
    BY <1>2, <1>4, <2>1 DEF KeyOf, IsBoxed
  <2> QED
    BY <2>2, <2>3 DEF SameKey, IsKey
<1> QED
  BY <1>3, <1>4

\* The places of a table are the pairs of a bucket and a position in its chain.
LEMMA PlacesPairs ==
  ASSUME NEW ht, ShapeOK(ht), NEW p
  PROVE  p \in Places(ht) <=>
           /\ p = <<p[1], p[2]>>
           /\ p[1] \in 0..(ht.cap - 1) /\ p[2] \in 1..Len(ht.buckets[p[1]])
<1>1. DOMAIN ht.buckets = 0..(ht.cap - 1)
  BY DEF ShapeOK
<1>2. \A b \in 0..(ht.cap - 1) : DOMAIN ht.buckets[b] = 1..Len(ht.buckets[b])
  BY DEF ShapeOK
<1>3. p \in Places(ht) <=> \E b \in 0..(ht.cap - 1) : p \in {b} \X (1..Len(ht.buckets[b]))
  BY <1>1, <1>2 DEF Places
<1> QED
  BY <1>3

LEMMA CellTyped ==
  ASSUME NEW ht, ShapeOK(ht), NEW p \in Places(ht)
  PROVE  EntryAt(ht, p) \in Cell
<1>1. p[1] \in 0..(ht.cap - 1) /\ p[2] \in 1..Len(ht.buckets[p[1]])
  BY PlacesPairs
<1>2. ht.buckets[p[1]] \in Seq(Cell)
  BY <1>1 DEF ShapeOK
<1> QED
  BY <1>1, <1>2 DEF EntryAt

\* A new table is empty.
LEMMA EmptyIsGood == Good(EmptyTable)
<1> DEFINE ht == EmptyTable
<1>1. /\ ht.cap = INITIAL_CAP /\ ht.num_elems = 0
      /\ ht.buckets \in [0..(ht.cap - 1) -> Seq(Cell)]
      /\ \A b \in 0..(ht.cap - 1) : ht.buckets[b] = <<>>
  BY DEF EmptyTable
<1>2. ht \in Table
  BY <1>1, CapAssumption DEF EmptyTable, Table
<1>3. DOMAIN ht.buckets = 0..(ht.cap - 1)
  BY <1>1
<1> HIDE DEF ht
<1>4. \A b \in 0..(ht.cap - 1) : Len(ht.buckets[b]) = 0 /\ DOMAIN ht.buckets[b] = {}
  BY <1>1
<1>5. Places(ht) = {}
  BY <1>3, <1>4 DEF Places
<1>6. Counted(ht)
  BY <1>1, <1>5, FS_EmptySet DEF Counted
<1>7. LoadOK(ht)
  BY <1>1, CapAssumption DEF LoadOK
<1>8. ShapeOK(ht)
  BY <1>1, <1>2 DEF ShapeOK
<1>9. CellsOK(ht) /\ KeysDiffer(ht)
  BY <1>5 DEF CellsOK, KeysDiffer
<1> QED
  BY <1>6, <1>7, <1>8, <1>9 DEF Good, ht

-----------------------------------------------------------------------------
\* Growing keeps the entries: h takes the new places to the old ones.
Moves(h, new, old) ==
  /\ h \in [Places(new) -> Places(old)]
  /\ \A q \in Places(old) : \E p \in Places(new) : h[p] = q
  /\ \A p, q \in Places(new) : h[p] = h[q] => p = q
  /\ \A p \in Places(new) : EntryAt(new, p) = EntryAt(old, h[p])

LEMMA GrowShape ==
  ASSUME HeapOK, NEW ht, ShapeOK(ht), CellsOK(ht)
  PROVE  /\ ShapeOK(Grow(ht))
         /\ Grow(ht).cap = 2 * ht.cap /\ Grow(ht).num_elems = ht.num_elems
         /\ \A b \in 0..(2 * ht.cap - 1) :
              /\ b % ht.cap \in 0..(ht.cap - 1)
              /\ Grow(ht).buckets[b] = Relinked(ht.buckets[b % ht.cap], 2 * ht.cap, b)
              /\ \E f : Reindexes(f, Grow(ht).buckets[b], ht.buckets[b % ht.cap],
                                  Selected(ht.buckets[b % ht.cap], 2 * ht.cap, b))
<1> DEFINE g == Grow(ht)
           c == ht.cap
<1>0. c \in Nat \ {0}
  BY DEF ShapeOK, Table
<1>1. /\ g.cap = 2 * c /\ g.num_elems = ht.num_elems
      /\ g.buckets = [b \in 0..(2 * c - 1) |-> Relinked(ht.buckets[b % c], 2 * c, b)]
      /\ g = [cap |-> g.cap, num_elems |-> g.num_elems, buckets |-> g.buckets]
  <2> DEFINE bs == [b \in 0..(2 * c - 1) |-> Relinked(ht.buckets[b % c], 2 * c, b)]
  <2>1. g = [ht EXCEPT !.cap = 2 * c, !.buckets = bs]
    BY DEF Grow
  <2> HIDE DEF g, bs
  <2>2. /\ g.cap = 2 * c /\ g.num_elems = ht.num_elems /\ g.buckets = bs
        /\ g = [cap |-> g.cap, num_elems |-> g.num_elems, buckets |-> g.buckets]
    BY <2>1 DEF ShapeOK, Table
  <2> QED
    BY <2>2 DEF bs
<1> HIDE DEF g
<1>2. ASSUME NEW b \in 0..(2 * c - 1)
      PROVE  /\ b % c \in 0..(c - 1)
             /\ Relinked(ht.buckets[b % c], 2 * c, b) \in Seq(Cell)
             /\ \E f : Reindexes(f, Relinked(ht.buckets[b % c], 2 * c, b),
                                 ht.buckets[b % c],
                                 Selected(ht.buckets[b % c], 2 * c, b))
  <2> DEFINE old == ht.buckets[b % c]
  <2>1. b % c \in 0..(c - 1)
    BY <1>0
  <2>2. old \in Seq(Cell)
    BY <2>1 DEF ShapeOK
  <2>3. \A i \in 1..Len(old) : HashObject(old[i].key) \in Nat
    <3> TAKE i \in 1..Len(old)
    <3> DEFINE p == <<b % c, i>>
    <3>1. p[1] = b % c /\ p[2] = i /\ p = <<p[1], p[2]>>
      OBVIOUS
    <3> HIDE DEF p
    <3>2. p \in Places(ht)
      BY <2>1, <3>1, PlacesPairs
    <3>3. old[i].key \in DOMAIN heap
      BY <3>1, <3>2 DEF CellsOK, CellOK, EntryAt
    <3> QED
      BY <3>3, HashTyped
  <2> HIDE DEF old
  <2>4. /\ Relinked(old, 2 * c, b) \in Seq(Cell)
        /\ \E f : Reindexes(f, Relinked(old, 2 * c, b), old, Selected(old, 2 * c, b))
    BY <2>2, <2>3, RelinkedEntries
  <2> QED
    BY <2>1, <2>4 DEF old
<1>3. g.buckets \in [0..(g.cap - 1) -> Seq(Cell)]
  BY <1>1, <1>2
<1>4. g \in Table
  <2>1. g.cap \in Nat \ {0} /\ g.num_elems \in Nat
    BY <1>0, <1>1 DEF ShapeOK, Table
  <2>2. g.buckets \in UNION {[0..(k - 1) -> Seq(Cell)] : k \in Nat \ {0}}
    BY <1>3, <2>1
  <2> QED
    BY <1>1, <2>1, <2>2 DEF Table
<1>5. \A b \in 0..(2 * c - 1) : g.buckets[b] = Relinked(ht.buckets[b % c], 2 * c, b)
  BY <1>1
<1> QED
  BY <1>1, <1>2, <1>3, <1>4, <1>5 DEF ShapeOK, g

LEMMA GrowMoves ==
  ASSUME HeapOK, NEW ht, ShapeOK(ht), CellsOK(ht)
  PROVE  \E h : Moves(h, Grow(ht), ht)
<1> DEFINE g == Grow(ht)
           c == ht.cap
           Old(b) == ht.buckets[b % c]
           F(b) == CHOOSE f : Reindexes(f, g.buckets[b], Old(b), Selected(Old(b), 2 * c, b))
           h == [p \in Places(g) |-> <<p[1] % c, F(p[1])[p[2]]>>]
<1>0. c \in Nat \ {0}
  BY DEF ShapeOK, Table
<1>1. ShapeOK(g) /\ g.cap = 2 * c
  BY GrowShape
<1>2. \A b \in 0..(2 * c - 1) :
        /\ b % c \in 0..(c - 1)
        /\ Reindexes(F(b), g.buckets[b], Old(b), Selected(Old(b), 2 * c, b))
  <2> TAKE b \in 0..(2 * c - 1)
  <2>1. /\ b % c \in 0..(c - 1)
        /\ \E f : Reindexes(f, g.buckets[b], Old(b), Selected(Old(b), 2 * c, b))
    BY GrowShape
  <2> HIDE DEF g, Old
  <2> QED
    BY <2>1
<1> HIDE DEF g, F
\* The old place of a new one.
<1>3. ASSUME NEW p \in Places(g)
      PROVE  /\ p = <<p[1], p[2]>> /\ p[1] \in 0..(2 * c - 1)
             /\ p[2] \in 1..Len(g.buckets[p[1]])
             /\ h[p] = <<p[1] % c, F(p[1])[p[2]]>>
             /\ F(p[1])[p[2]] \in Selected(Old(p[1]), 2 * c, p[1])
             /\ h[p] \in Places(ht)
             /\ HashObject(EntryAt(ht, h[p]).key) % (2 * c) = p[1]
             /\ EntryAt(g, p) = EntryAt(ht, h[p])
  <2>1. /\ p = <<p[1], p[2]>> /\ p[1] \in 0..(2 * c - 1)
        /\ p[2] \in 1..Len(g.buckets[p[1]])
    BY <1>1, PlacesPairs
  <2> DEFINE b == p[1]
             i == F(b)[p[2]]
  <2>2. i \in Selected(Old(b), 2 * c, b)
    BY <1>2, <2>1 DEF Reindexes
  <2>3. g.buckets[b][p[2]] = Entry(Old(b)[i].key, Old(b)[i].val)
    BY <1>2, <2>1 DEF Reindexes
  <2>4. i \in 1..Len(Old(b)) /\ HashObject(Old(b)[i].key) % (2 * c) = b
    BY <2>2 DEF Selected
  <2>5. b % c \in 0..(c - 1)
    BY <1>2, <2>1
  <2>6. h[p] = <<b % c, i>>
    OBVIOUS
  <2> DEFINE q == <<b % c, i>>
  <2>7. q[1] = b % c /\ q[2] = i /\ q = <<q[1], q[2]>>
    OBVIOUS
  <2> HIDE DEF q, i
  <2>8. q \in Places(ht) /\ EntryAt(ht, q) = Old(b)[i]
    BY <2>4, <2>5, <2>7, PlacesPairs DEF EntryAt
  <2>9. Old(b)[i] \in Cell /\ Old(b)[i].hash = HashObject(Old(b)[i].key)
    BY <2>8, CellTyped DEF CellsOK, CellOK
  <2>10. Entry(Old(b)[i].key, Old(b)[i].val) = Old(b)[i]
    BY <2>9 DEF Entry, Cell
  <2>11. EntryAt(g, p) = Old(b)[i]
    BY <2>3, <2>10 DEF EntryAt
  <2>12. h[p] = q
    BY <2>6 DEF q
  <2> HIDE DEF h, Old
  <2> QED
    BY <2>1, <2>2, <2>4, <2>6, <2>8, <2>11, <2>12 DEF i
<1>4. h \in [Places(g) -> Places(ht)]
  BY <1>3
<1>5. \A p, q \in Places(g) : h[p] = h[q] => p = q
  <2> SUFFICES ASSUME NEW p \in Places(g), NEW q \in Places(g), h[p] = h[q]
               PROVE  p = q
    OBVIOUS
  <2>1. p[1] = q[1]
    <3> HIDE DEF h
    <3> QED
      BY <1>3
  <2>2. F(p[1])[p[2]] = F(p[1])[q[2]]
    BY <1>3, <2>1
  <2>3. p[2] = q[2]
    BY <1>2, <1>3, <2>1, <2>2 DEF Reindexes
  <2> HIDE DEF h
  <2>4. p = <<p[1], p[2]>> /\ q = <<q[1], q[2]>>
    BY <1>3
  <2> QED
    BY <2>1, <2>3, <2>4
<1>6. \A q \in Places(ht) : \E p \in Places(g) : h[p] = q
  <2> TAKE q \in Places(ht)
  <2>1. /\ q = <<q[1], q[2]>> /\ q[1] \in 0..(c - 1)
        /\ q[2] \in 1..Len(ht.buckets[q[1]])
    BY PlacesPairs
  <2> DEFINE e == EntryAt(ht, q)
             x == HashObject(e.key)
             b == x % (2 * c)
  <2>2. e.key \in DOMAIN heap /\ x = e.hash /\ x % c = q[1]
    BY DEF CellsOK, CellOK
  <2>3. x \in Nat
    BY <2>2, HashTyped
  <2>4. e = ht.buckets[q[1]][q[2]]
    BY DEF EntryAt
  <2> HIDE DEF e
  <2>5. b \in 0..(2 * c - 1) /\ b % c = q[1]
    <3> HIDE DEF x
    <3>1. 2 * c \in Nat \ {0}
      BY <1>0
    <3>2. b \in 0..(2 * c - 1)
      BY <2>3, <3>1
    <3>3. b % c = x % c
      BY <2>3, <1>0, RemainderTwice, ZenonT(60)
    <3> QED
      BY <3>2, <3>3, <2>2
  <2>6. q[2] \in Selected(Old(b), 2 * c, b)
    <3>1. Old(b) = ht.buckets[q[1]]
      BY <2>5
    <3> QED
      BY <3>1, <2>1, <2>4, ZenonT(60) DEF Selected
  <2> HIDE DEF b, Old
  <2>7. PICK j \in 1..Len(g.buckets[b]) : F(b)[j] = q[2]
    BY <1>2, <2>5, <2>6 DEF Reindexes
  <2> DEFINE p == <<b, j>>
  <2>8. p[1] = b /\ p[2] = j /\ p = <<p[1], p[2]>>
    OBVIOUS
  <2> HIDE DEF p
  <2>9. p \in Places(g)
    BY <1>1, <2>5, <2>7, <2>8, PlacesPairs
  <2>10. h[p] = <<b % c, F(b)[j]>>
    BY <2>8, <2>9
  <2>11. h[p] = q
    BY <2>10, <2>5, <2>7, <2>1
  <2> QED
    BY <2>9, <2>11
<1> HIDE DEF h
<1>7. Moves(h, g, ht)
  BY <1>3, <1>4, <1>5, <1>6 DEF Moves
<1> QED
  BY <1>7 DEF g

LEMMA GrowIsGood ==
  ASSUME HeapOK, NEW ht, Good(ht)
  PROVE  /\ Good(Grow(ht))
         /\ Grow(ht).num_elems * 100 < (LOAD_FACTOR + 1) * Grow(ht).cap
<1> DEFINE g == Grow(ht)
           c == ht.cap
<1>0. ShapeOK(ht) /\ CellsOK(ht) /\ KeysDiffer(ht) /\ Counted(ht) /\ LoadOK(ht)
  BY DEF Good
<1>1. ShapeOK(g) /\ g.cap = 2 * c /\ g.num_elems = ht.num_elems
  BY <1>0, GrowShape
<1>2. PICK h : Moves(h, g, ht)
  BY <1>0, GrowMoves
<1>3. c \in Nat \ {0} /\ ht.num_elems \in Nat
  BY <1>0 DEF ShapeOK, Table
<1>4. CellsOK(g)
  <2> SUFFICES ASSUME NEW p \in Places(g) PROVE CellOK(g, p[1], EntryAt(g, p))
    BY DEF CellsOK
  <2>1. /\ p[1] \in 0..(2 * c - 1) /\ p[2] \in 1..Len(g.buckets[p[1]])
    BY <1>1, PlacesPairs
  <2> DEFINE old == ht.buckets[p[1] % c]
  <2>2. PICK f : Reindexes(f, g.buckets[p[1]], old, Selected(old, 2 * c, p[1]))
    BY <1>0, <2>1, GrowShape
  <2> DEFINE i == f[p[2]]
  <2>3. i \in Selected(old, 2 * c, p[1]) /\ EntryAt(g, p) = Entry(old[i].key, old[i].val)
    BY <2>1, <2>2 DEF Reindexes, EntryAt
  <2>4. HashObject(EntryAt(g, p).key) % g.cap = p[1]
    BY <2>3, <1>1 DEF Selected, Entry
  <2>5. CellOK(ht, h[p][1], EntryAt(g, p))
    BY <1>0, <1>2 DEF Moves, CellsOK
  <2> QED
    BY <2>4, <2>5 DEF CellOK
<1>5. KeysDiffer(g)
  <2> SUFFICES ASSUME NEW p \in Places(g), NEW q \in Places(g),
                      SameKey(EntryAt(g, p).key, EntryAt(g, q).key)
               PROVE  p = q
    BY DEF KeysDiffer
  <2>1. /\ h[p] \in Places(ht) /\ EntryAt(g, p) = EntryAt(ht, h[p])
        /\ h[q] \in Places(ht) /\ EntryAt(g, q) = EntryAt(ht, h[q])
    BY <1>2 DEF Moves
  <2>2. h[p] = h[q]
    BY <1>0, <2>1 DEF KeysDiffer
  <2> QED
    BY <1>2, <2>2 DEF Moves
<1>6. Counted(g)
  <2>1. h \in Injection(Places(g), Places(ht)) /\ h \in Surjection(Places(g), Places(ht))
    BY <1>2 DEF Moves, Injection, IsInjective, Surjection
  <2>2. IsFiniteSet(Places(ht)) /\ Cardinality(Places(ht)) = ht.num_elems
    BY <1>0 DEF Counted
  <2> QED
    BY <2>1, <2>2, <1>1, FS_Injection DEF Counted
<1>7. LoadOK(g) /\ g.num_elems * 100 < (LOAD_FACTOR + 1) * g.cap
  <2> DEFINE A == (LOAD_FACTOR + 1) * c
  <2>1. A \in Nat /\ A > 50 /\ (ht.num_elems - 1) * 100 < A
    BY <1>0, <1>3, CapAssumption DEF LoadOK
  <2>2. (LOAD_FACTOR + 1) * g.cap = 2 * A
    BY <1>1, <1>3, CapAssumption
  <2> HIDE DEF A
  <2>3. ht.num_elems * 100 < 2 * A
    BY <1>3, <2>1
  <2> QED
    BY <1>1, <1>3, <2>1, <2>2, <2>3 DEF LoadOK
<1> QED
  BY <1>1, <1>4, <1>5, <1>6, <1>7 DEF Good

-----------------------------------------------------------------------------
Bucket(ht, key) == HashObject(key) % ht.cap

LEMMA BucketExists ==
  ASSUME HeapOK, NEW ht, ShapeOK(ht), NEW key \in DOMAIN heap
  PROVE  /\ Bucket(ht, key) \in 0..(ht.cap - 1)
         /\ ht.buckets[Bucket(ht, key)] \in Seq(Cell)
<1>1. HashObject(key) \in Nat /\ ht.cap \in Nat \ {0}
  BY HashTyped DEF ShapeOK, Table
<1>2. HashObject(key) % ht.cap \in 0..(ht.cap - 1)
  BY <1>1
<1> QED
  BY <1>2 DEF ShapeOK, Bucket

\* Searching the one chain finds the key wherever in the table an equal one is.
LEMMA SearchComplete ==
  ASSUME HeapOK, NEW ht, ShapeOK(ht), CellsOK(ht), NEW key \in DOMAIN heap,
         NEW p \in Places(ht), SameKey(EntryAt(ht, p).key, key)
  PROVE  p[1] = Bucket(ht, key) /\ p[2] \in Matches(ht, key)
<1> DEFINE e == EntryAt(ht, p)
<1>1. /\ e.key \in DOMAIN heap
      /\ e.hash = HashObject(e.key) /\ e.hash % ht.cap = p[1]
  BY DEF CellsOK, CellOK
<1>2. HashObject(e.key) = HashObject(key)
  BY <1>1, EqualKeys
<1>3. p[1] = Bucket(ht, key)
  BY <1>1, <1>2 DEF Bucket
<1>4. p[1] \in 0..(ht.cap - 1) /\ p[2] \in 1..Len(ht.buckets[p[1]])
  BY PlacesPairs
<1>5. ht.buckets[p[1]] \in Seq(Cell)
  BY <1>4 DEF ShapeOK
<1>6. p[2] \in DOMAIN ht.buckets[p[1]]
  BY <1>4, <1>5
<1>7. e = ht.buckets[p[1]][p[2]]
  BY DEF EntryAt
<1> QED
  BY <1>1, <1>2, <1>3, <1>6, <1>7, EqualKeys DEF Matches, Bucket

\* What a search finds is an entry of the key.
LEMMA SearchSound ==
  ASSUME HeapOK, NEW ht, ShapeOK(ht), CellsOK(ht), NEW key \in DOMAIN heap,
         Matches(ht, key) # {}
  PROVE  LET p == <<Bucket(ht, key), Found(ht, key)>>
         IN p \in Places(ht) /\ SameKey(EntryAt(ht, p).key, key)
<1> DEFINE b == Bucket(ht, key)
           M == Matches(ht, key)
           p == <<b, Found(ht, key)>>
<1>1. b \in 0..(ht.cap - 1) /\ ht.buckets[b] \in Seq(Cell)
  BY BucketExists
<1>2. M = {i \in DOMAIN ht.buckets[b] : /\ ht.buckets[b][i].hash = HashObject(key)
                                        /\ ObjectEq(ht.buckets[b][i].key, key)}
  BY DEF Matches, Bucket
<1> HIDE DEF M, b
<1>3. M \in SUBSET Nat
  BY <1>1, <1>2
<1>4. PICK i \in M : \A j \in M : i <= j
  BY <1>3, LeastElement DEF M
<1>5. Found(ht, key) \in M
  BY <1>4 DEF Found, M
<1>6. /\ Found(ht, key) \in 1..Len(ht.buckets[b])
      /\ ObjectEq(ht.buckets[b][Found(ht, key)].key, key)
      /\ ht.buckets[b][Found(ht, key)].hash = HashObject(key)
  BY <1>1, <1>2, <1>5
<1>7. p[1] = b /\ p[2] = Found(ht, key) /\ p = <<p[1], p[2]>>
  OBVIOUS
<1> HIDE DEF p
<1>8. p \in Places(ht)
  BY <1>1, <1>6, <1>7, PlacesPairs
<1>9. SameKey(EntryAt(ht, p).key, key)
  <2>1. /\ EntryAt(ht, p).key \in DOMAIN heap
        /\ EntryAt(ht, p).hash = HashObject(EntryAt(ht, p).key)
    BY <1>8 DEF CellsOK, CellOK
  <2>2. ObjectEq(EntryAt(ht, p).key, key) /\ EntryAt(ht, p).hash = HashObject(key)
    BY <1>6, <1>7 DEF EntryAt
  <2> QED
    BY <2>1, <2>2, ComparedKeys
<1> QED
  BY <1>8, <1>9 DEF p, b

-----------------------------------------------------------------------------
\* The table with one entry more.
Inserted(ht, key, val) == [InsertNew(ht, key, val) EXCEPT !.num_elems = @ + 1]

\* h takes the places of old to those of new but x.
Shifts(h, new, old, x) ==
  /\ x \in Places(new)
  /\ h \in [Places(old) -> Places(new) \ {x}]
  /\ \A q \in Places(new) \ {x} : \E p \in Places(old) : h[p] = q
  /\ \A p, q \in Places(old) : h[p] = h[q] => p = q
  /\ \A p \in Places(old) : h[p][1] = p[1] /\ EntryAt(new, h[p]) = EntryAt(old, p)

LEMMA InsertShifts ==
  ASSUME HeapOK, NEW ht, ShapeOK(ht), NEW key \in DOMAIN heap, NEW val \in Refs
  PROVE  LET new == Inserted(ht, key, val)
             x == <<Bucket(ht, key), 1>>
         IN /\ ShapeOK(new)
            /\ new.cap = ht.cap /\ new.num_elems = ht.num_elems + 1
            /\ EntryAt(new, x) = Entry(key, val)
            /\ \E h : Shifts(h, new, ht, x)
<1> DEFINE new == Inserted(ht, key, val)
           b == Bucket(ht, key)
           x == <<b, 1>>
           e == Entry(key, val)
           bs == [ht.buckets EXCEPT ![b] = <<e>> \o @]
           h == [p \in Places(ht) |-> IF p[1] = b THEN <<b, p[2] + 1>> ELSE p]
<1>1. b \in 0..(ht.cap - 1) /\ ht.buckets[b] \in Seq(Cell)
  BY BucketExists
<1>2. e \in Cell
  <2>1. HashObject(key) \in Nat /\ key \in Nat \ {0} /\ val \in Nat
    BY HashTyped DEF HeapOK, Refs
  <2> QED
    BY <2>1 DEF Entry, Cell
<1>3. /\ new.cap = ht.cap /\ new.num_elems = ht.num_elems + 1 /\ new.buckets = bs
      /\ new = [cap |-> new.cap, num_elems |-> new.num_elems, buckets |-> new.buckets]
  <2>1. new = [[ht EXCEPT !.buckets = bs] EXCEPT !.num_elems = @ + 1]
    BY DEF Inserted, InsertNew, Bucket
  <2> HIDE DEF bs, new
  <2> QED
    BY <2>1 DEF ShapeOK, Table
<1> HIDE DEF new, b, e
<1>4. /\ bs \in [0..(ht.cap - 1) -> Seq(Cell)]
      /\ Len(bs[b]) = Len(ht.buckets[b]) + 1 /\ bs[b][1] = e
      /\ \A i \in 1..Len(ht.buckets[b]) : bs[b][i + 1] = ht.buckets[b][i]
      /\ \A c \in 0..(ht.cap - 1) : c # b => bs[c] = ht.buckets[c]
  <2>1. ht.buckets \in [0..(ht.cap - 1) -> Seq(Cell)]
    BY DEF ShapeOK
  <2> DEFINE s == <<e>> \o ht.buckets[b]
  <2>2. s \in Seq(Cell) /\ Len(s) = Len(ht.buckets[b]) + 1 /\ s[1] = e
    BY <1>1, <1>2
  <2>3. \A i \in 1..Len(ht.buckets[b]) : s[i + 1] = ht.buckets[b][i]
    BY <1>1, <1>2
  <2>4. bs = [ht.buckets EXCEPT ![b] = s]
    OBVIOUS
  <2> HIDE DEF s, bs
  <2> QED
    BY <1>1, <2>1, <2>2, <2>3, <2>4
<1> HIDE DEF bs
<1>5. ShapeOK(new)
  <2>1. ht.cap \in Nat \ {0} /\ ht.num_elems \in Nat
    BY DEF ShapeOK, Table
  <2>2. new.buckets \in UNION {[0..(k - 1) -> Seq(Cell)] : k \in Nat \ {0}}
    BY <1>3, <1>4, <2>1
  <2>3. ShapeOK(new)
    <3>1. new.cap \in Nat \ {0} /\ new.num_elems \in Nat
      BY <1>3, <2>1
    <3>2. new \in Table
      BY <1>3, <2>2, <3>1 DEF Table
    <3> QED
      BY <1>3, <1>4, <3>2 DEF ShapeOK
  <2> QED
    BY <2>3
<1>6. \A c \in 0..(ht.cap - 1) : Len(ht.buckets[c]) \in Nat
  BY DEF ShapeOK
<1>7. x \in Places(new) /\ EntryAt(new, x) = e
  <2>1. x[1] = b /\ x[2] = 1 /\ x = <<x[1], x[2]>>
    OBVIOUS
  <2> HIDE DEF x
  <2>2. 1 \in 1..Len(new.buckets[b])
    BY <1>1, <1>3, <1>4
  <2> QED
    BY <1>1, <1>3, <1>4, <1>5, <2>1, <2>2, PlacesPairs DEF EntryAt
<1>8. ASSUME NEW p \in Places(ht)
      PROVE  /\ p = <<p[1], p[2]>> /\ p[1] \in 0..(ht.cap - 1)
             /\ p[2] \in 1..Len(ht.buckets[p[1]]) /\ p[2] \in Nat
             /\ h[p] = IF p[1] = b THEN <<b, p[2] + 1>> ELSE p
             /\ h[p] \in Places(new) \ {x}
             /\ h[p][1] = p[1] /\ EntryAt(new, h[p]) = EntryAt(ht, p)
  <2>1. /\ p = <<p[1], p[2]>> /\ p[1] \in 0..(ht.cap - 1)
        /\ p[2] \in 1..Len(ht.buckets[p[1]])
    BY PlacesPairs
  <2>2. p[2] \in Nat /\ p[2] # 0
    BY <1>6, <2>1
  <2>3. h[p] = IF p[1] = b THEN <<b, p[2] + 1>> ELSE p
    OBVIOUS
  <2> HIDE DEF h
  <2>4. CASE p[1] = b
    <3> DEFINE q == <<b, p[2] + 1>>
    <3>1. q[1] = b /\ q[2] = p[2] + 1 /\ q = <<q[1], q[2]>> /\ q # x
      BY <2>2
    <3> HIDE DEF q
    <3>2. q[2] \in 1..Len(new.buckets[b])
      BY <1>1, <1>3, <1>4, <1>6, <2>1, <2>4, <3>1
    <3>3. q \in Places(new)
      BY <1>1, <1>3, <1>5, <3>1, <3>2, PlacesPairs
    <3>4. EntryAt(new, q) = EntryAt(ht, p)
      BY <1>3, <1>4, <2>1, <2>4, <3>1 DEF EntryAt
    <3>5. h[p] = q
      BY <2>3, <2>4 DEF q
    <3> QED
      BY <2>1, <2>2, <2>3, <2>4, <3>1, <3>3, <3>4, <3>5
  <2>5. CASE p[1] # b
    <3>1. p # x
      BY <2>5
    <3>2. new.buckets[p[1]] = ht.buckets[p[1]]
      BY <1>3, <1>4, <2>1, <2>5
    <3>3. p \in Places(new)
      BY <1>3, <1>5, <2>1, <3>2, PlacesPairs
    <3>4. EntryAt(new, p) = EntryAt(ht, p)
      BY <3>2 DEF EntryAt
    <3> QED
      BY <2>1, <2>2, <2>3, <2>5, <3>1, <3>3, <3>4
  <2> QED
    BY <2>4, <2>5
<1>9. \A q \in Places(new) \ {x} : \E p \in Places(ht) : h[p] = q
  <2> TAKE q \in Places(new) \ {x}
  <2>1. /\ q = <<q[1], q[2]>> /\ q[1] \in 0..(ht.cap - 1)
        /\ q[2] \in 1..Len(new.buckets[q[1]])
    BY <1>3, <1>5, PlacesPairs
  <2>2. CASE q[1] = b
    <3> DEFINE p == <<b, q[2] - 1>>
    <3>1. q[2] # 1
      BY <2>1, <2>2
    <3>2. p[1] = b /\ p[2] = q[2] - 1 /\ p = <<p[1], p[2]>>
      OBVIOUS
    <3> HIDE DEF p
    <3>3. p[2] \in 1..Len(ht.buckets[b]) /\ p[2] + 1 = q[2]
      BY <1>1, <1>3, <1>4, <1>6, <2>1, <2>2, <3>1, <3>2
    <3>4. p \in Places(ht)
      BY <1>1, <3>2, <3>3, PlacesPairs
    <3>5. h[p] = <<b, p[2] + 1>>
      BY <1>8, <3>2, <3>4
    <3> QED
      BY <2>1, <2>2, <3>3, <3>4, <3>5
  <2>3. CASE q[1] # b
    <3>1. new.buckets[q[1]] = ht.buckets[q[1]]
      BY <1>3, <1>4, <2>1, <2>3
    <3>2. q \in Places(ht)
      BY <2>1, <3>1, PlacesPairs
    <3> QED
      BY <1>8, <2>3, <3>2
  <2> QED
    BY <2>2, <2>3
<1>10. ASSUME NEW p \in Places(ht), NEW q \in Places(ht), h[p] = h[q] PROVE p = q
  <2> HIDE DEF h
  <2>1. p[1] = q[1]
    BY <1>8, <1>10
  <2>2. CASE p[1] = b
    <3>1. h[p] = <<b, p[2] + 1>> /\ h[q] = <<b, q[2] + 1>>
      BY <1>8, <2>1, <2>2
    <3>2. h[p][2] = p[2] + 1 /\ h[q][2] = q[2] + 1
      BY <3>1
    <3>3. p[2] \in Nat /\ q[2] \in Nat
      BY <1>8
    <3>4. p[2] = q[2]
      BY <1>10, <3>2, <3>3
    <3> QED
      BY <1>8, <2>1, <3>4, ZenonT(60)
  <2>3. CASE p[1] # b
    BY <1>8, <1>10, <2>1, <2>3
  <2> QED
    BY <2>2, <2>3
<1>11. h \in [Places(ht) -> Places(new) \ {x}]
  BY <1>8
<1> HIDE DEF h
<1>12. Shifts(h, new, ht, x)
  BY <1>7, <1>8, <1>9, <1>10, <1>11 DEF Shifts
<1> QED
  BY <1>3, <1>5, <1>7, <1>12 DEF new, b, e

LEMMA InsertIsGood ==
  ASSUME HeapOK, NEW ht, Good(ht), NEW key \in DOMAIN heap, NEW val \in Refs,
         \A p \in Places(ht) : ~ SameKey(EntryAt(ht, p).key, key),
         ht.num_elems * 100 < (LOAD_FACTOR + 1) * ht.cap
  PROVE  Good(Inserted(ht, key, val))
<1> DEFINE new == Inserted(ht, key, val)
           x == <<Bucket(ht, key), 1>>
<1>0. ShapeOK(ht) /\ CellsOK(ht) /\ KeysDiffer(ht) /\ Counted(ht) /\ LoadOK(ht)
  BY DEF Good
<1>1. /\ ShapeOK(new) /\ new.cap = ht.cap /\ new.num_elems = ht.num_elems + 1
      /\ EntryAt(new, x) = Entry(key, val) /\ x[1] = Bucket(ht, key)
      /\ \E h : Shifts(h, new, ht, x)
  BY <1>0, InsertShifts
<1>2. PICK h : Shifts(h, new, ht, x)
  BY <1>1
<1> HIDE DEF new, x
\* A place of the new table is the new one or that of an old entry.
<1>3. ASSUME NEW p \in Places(new), p # x
      PROVE  \E q \in Places(ht) :
               h[q] = p /\ q[1] = p[1] /\ EntryAt(new, p) = EntryAt(ht, q)
  BY <1>2, <1>3 DEF Shifts
<1>4. CellsOK(new)
  <2> SUFFICES ASSUME NEW p \in Places(new) PROVE CellOK(new, p[1], EntryAt(new, p))
    BY DEF CellsOK
  <2>1. CASE p = x
    BY <1>1, <2>1 DEF CellOK, Entry, Bucket
  <2>2. CASE p # x
    <3>1. PICK q \in Places(ht) : q[1] = p[1] /\ EntryAt(new, p) = EntryAt(ht, q)
      BY <1>3, <2>2
    <3>2. CellOK(ht, q[1], EntryAt(ht, q))
      BY <1>0 DEF CellsOK
    <3> QED
      BY <1>1, <3>1, <3>2 DEF CellOK
  <2> QED
    BY <2>1, <2>2
<1>5. KeysDiffer(new)
  <2> SUFFICES ASSUME NEW p \in Places(new), NEW q \in Places(new),
                      SameKey(EntryAt(new, p).key, EntryAt(new, q).key)
               PROVE  p = q
    BY DEF KeysDiffer
  <2>1. EntryAt(new, x).key = key
    BY <1>1 DEF Entry
  <2>2. CASE p # x /\ q # x
    <3>1. PICK u \in Places(ht) : h[u] = p /\ EntryAt(new, p) = EntryAt(ht, u)
      BY <1>3, <2>2
    <3>2. PICK v \in Places(ht) : h[v] = q /\ EntryAt(new, q) = EntryAt(ht, v)
      BY <1>3, <2>2
    <3>3. u = v
      BY <1>0, <3>1, <3>2 DEF KeysDiffer
    <3> QED
      BY <3>1, <3>2, <3>3
  <2>3. CASE p # x /\ q = x
    <3>1. PICK u \in Places(ht) : EntryAt(new, p) = EntryAt(ht, u)
      BY <1>3, <2>3
    <3> QED
      BY <2>1, <2>3, <3>1
  <2>4. CASE p = x /\ q # x
    <3>1. PICK u \in Places(ht) : EntryAt(new, q) = EntryAt(ht, u)
      BY <1>3, <2>4
    <3>2. EntryAt(ht, u).key \in DOMAIN heap
      BY <1>0 DEF CellsOK, CellOK
    <3>3. SameKey(EntryAt(ht, u).key, key)
      BY <2>1, <2>4, <3>1, <3>2, EqualKeys
    <3> QED
      BY <3>3
  <2> QED
    BY <2>2, <2>3, <2>4
<1>6. Counted(new)
  <2>1. /\ h \in Injection(Places(ht), Places(new) \ {x})
        /\ h \in Surjection(Places(ht), Places(new) \ {x})
    BY <1>2 DEF Shifts, Injection, IsInjective, Surjection
  <2>2. IsFiniteSet(Places(ht)) /\ Cardinality(Places(ht)) = ht.num_elems
    BY <1>0 DEF Counted
  <2>3. IsFiniteSet(Places(new) \ {x})
    BY <2>1, <2>2, FS_Surjection
  <2>4. Cardinality(Places(new) \ {x}) = ht.num_elems
    BY <2>1, <2>2, <2>3, FS_Injection
  <2> DEFINE U == (Places(new) \ {x}) \cup {x}
  <2>5. IsFiniteSet(U) /\ Cardinality(U) = ht.num_elems + 1
    BY <2>3, <2>4, FS_AddElement
  <2>6. U = Places(new)
    BY <1>2 DEF Shifts
  <2> QED
    BY <1>1, <2>5, <2>6 DEF Counted
<1>7. LoadOK(new)
  <2>1. ht.num_elems \in Nat
    BY <1>0 DEF ShapeOK, Table
  <2>2. new.num_elems - 1 = ht.num_elems
    BY <1>1, <2>1
  <2> QED
    BY <1>0, <1>1, <2>2 DEF LoadOK
<1> QED
  BY <1>1, <1>4, <1>5, <1>6, <1>7 DEF Good, new

-----------------------------------------------------------------------------
\* Overwriting an entry's value leaves the places and keys alone.
Overwritten(ht, p, val) ==
  [ht EXCEPT !.buckets[p[1]][p[2]].val = val]

LEMMA OverwriteEntries ==
  ASSUME NEW ht, ShapeOK(ht), NEW p \in Places(ht), NEW val \in Nat
  PROVE  LET new == Overwritten(ht, p, val)
         IN /\ ShapeOK(new) /\ new.cap = ht.cap /\ new.num_elems = ht.num_elems
            /\ Places(new) = Places(ht)
            /\ \A q \in Places(ht) :
                 EntryAt(new, q) = IF q = p THEN [EntryAt(ht, p) EXCEPT !.val = val]
                                   ELSE EntryAt(ht, q)
<1> DEFINE new == Overwritten(ht, p, val)
           b == p[1]
           i == p[2]
           e == [ht.buckets[b][i] EXCEPT !.val = val]
           s == [ht.buckets[b] EXCEPT ![i] = e]
           bs == [ht.buckets EXCEPT ![b] = s]
<1>1. p = <<b, i>> /\ b \in 0..(ht.cap - 1) /\ i \in 1..Len(ht.buckets[b])
  BY PlacesPairs
<1>2. ht.buckets \in [0..(ht.cap - 1) -> Seq(Cell)] /\ ht.buckets[b] \in Seq(Cell)
  BY <1>1 DEF ShapeOK
<1>3. e \in Cell
  <2>1. ht.buckets[b][i] \in Cell
    BY <1>1, <1>2
  <2> QED
    BY <2>1 DEF Cell
<1>4. /\ new.cap = ht.cap /\ new.num_elems = ht.num_elems /\ new.buckets = bs
      /\ new = [cap |-> new.cap, num_elems |-> new.num_elems, buckets |-> new.buckets]
  <2>1. new = [ht EXCEPT !.buckets = bs]
    BY DEF Overwritten
  <2> HIDE DEF bs, new
  <2> QED
    BY <2>1 DEF ShapeOK, Table
<1> HIDE DEF new, e
<1>5. /\ s \in Seq(Cell) /\ Len(s) = Len(ht.buckets[b]) /\ s[i] = e
      /\ \A j \in 1..Len(ht.buckets[b]) : j # i => s[j] = ht.buckets[b][j]
  BY <1>1, <1>2, <1>3
<1> HIDE DEF s
<1>6. /\ bs \in [0..(ht.cap - 1) -> Seq(Cell)] /\ bs[b] = s
      /\ \A c \in 0..(ht.cap - 1) : c # b => bs[c] = ht.buckets[c]
  BY <1>1, <1>2, <1>5
<1> HIDE DEF bs
<1>7. ShapeOK(new)
  <2>1. new.cap \in Nat \ {0} /\ new.num_elems \in Nat
    BY <1>4 DEF ShapeOK, Table
  <2>2. new.buckets \in UNION {[0..(k - 1) -> Seq(Cell)] : k \in Nat \ {0}}
    BY <1>4, <1>6, <2>1
  <2>3. new \in Table
    BY <1>4, <2>1, <2>2 DEF Table
  <2> QED
    BY <1>4, <1>6, <2>3 DEF ShapeOK
<1>8. \A c \in 0..(ht.cap - 1) : Len(new.buckets[c]) = Len(ht.buckets[c])
  BY <1>4, <1>5, <1>6
<1>9. Places(new) = Places(ht)
  <2>1. ASSUME NEW q PROVE q \in Places(new) <=> q \in Places(ht)
    BY <1>4, <1>7, <1>8, PlacesPairs
  <2> QED
    BY <2>1
<1>10. ASSUME NEW q \in Places(ht)
       PROVE  EntryAt(new, q) = IF q = p THEN e ELSE EntryAt(ht, q)
  <2>1. q = <<q[1], q[2]>> /\ q[1] \in 0..(ht.cap - 1)
        /\ q[2] \in 1..Len(ht.buckets[q[1]])
    BY PlacesPairs
  <2>2. CASE q = p
    BY <1>4, <1>5, <1>6, <2>2 DEF EntryAt
  <2>3. CASE q # p /\ q[1] = b
    <3>1. q[2] # i
      BY <1>1, <2>1, <2>3
    <3> QED
      BY <1>4, <1>5, <1>6, <2>1, <2>3, <3>1 DEF EntryAt
  <2>4. CASE q # p /\ q[1] # b
    BY <1>4, <1>6, <2>1, <2>4 DEF EntryAt
  <2> QED
    BY <2>2, <2>3, <2>4
<1>11. e = [EntryAt(ht, p) EXCEPT !.val = val]
  BY DEF e, EntryAt
<1> QED
  BY <1>4, <1>7, <1>9, <1>10, <1>11 DEF new

LEMMA OverwriteIsGood ==
  ASSUME HeapOK, NEW ht, Good(ht), NEW p \in Places(ht), NEW val \in Refs
  PROVE  Good(Overwritten(ht, p, val))
<1> DEFINE new == Overwritten(ht, p, val)
<1>0. ShapeOK(ht) /\ CellsOK(ht) /\ KeysDiffer(ht) /\ Counted(ht) /\ LoadOK(ht)
  BY DEF Good
<1>1. val \in Nat
  BY DEF Refs, HeapOK
<1>2. /\ ShapeOK(new) /\ new.cap = ht.cap /\ new.num_elems = ht.num_elems
      /\ Places(new) = Places(ht)
      /\ \A q \in Places(ht) :
           EntryAt(new, q) = IF q = p THEN [EntryAt(ht, p) EXCEPT !.val = val]
                             ELSE EntryAt(ht, q)
  BY <1>0, <1>1, OverwriteEntries
<1> HIDE DEF new
<1>3. ASSUME NEW q \in Places(ht)
      PROVE  /\ EntryAt(new, q).key = EntryAt(ht, q).key
             /\ EntryAt(new, q).hash = EntryAt(ht, q).hash
             /\ EntryAt(new, q).val \in Refs
  <2>1. EntryAt(ht, q) \in Cell /\ EntryAt(ht, q).val \in Refs
    BY <1>0, CellTyped DEF CellsOK, CellOK
  <2> QED
    BY <1>2, <2>1 DEF Cell
<1>4. CellsOK(new)
  BY <1>0, <1>2, <1>3 DEF CellsOK, CellOK
<1>5. KeysDiffer(new)
  BY <1>0, <1>2, <1>3 DEF KeysDiffer
<1> QED
  BY <1>0, <1>2, <1>4, <1>5 DEF Good, Counted, LoadOK, new

-----------------------------------------------------------------------------
\* What obj.set leaves: the entry of the key overwritten, or one entry more in a
\* table that has grown where it had to.
LEMMA HtInsertCases ==
  ASSUME HeapOK, NEW ht, Good(ht), NEW key \in DOMAIN heap, NEW val \in Refs
  PROVE  \/ LET p == <<Bucket(ht, key), Found(ht, key)>>
            IN /\ Matches(ht, key) # {}
               /\ p \in Places(ht) /\ SameKey(EntryAt(ht, p).key, key)
               /\ HtInsert(ht, key, val) = Overwritten(ht, p, val)
         \/ \E roomy :
              /\ Matches(ht, key) = {}
              /\ roomy = ht \/ roomy = Grow(ht)
              /\ Good(roomy)
              /\ roomy.num_elems * 100 < (LOAD_FACTOR + 1) * roomy.cap
              /\ \A p \in Places(roomy) : ~ SameKey(EntryAt(roomy, p).key, key)
              /\ HtInsert(ht, key, val) = Inserted(roomy, key, val)
<1>0. ShapeOK(ht) /\ CellsOK(ht)
  BY DEF Good
<1>1. CASE Matches(ht, key) # {}
  <2> DEFINE p == <<Bucket(ht, key), Found(ht, key)>>
  <2>1. p \in Places(ht) /\ SameKey(EntryAt(ht, p).key, key)
    BY <1>0, <1>1, SearchSound
  <2>2. HtInsert(ht, key, val) = Overwritten(ht, p, val)
    BY <1>1 DEF HtInsert, Overwritten, Bucket
  <2> QED
    BY <1>1, <2>1, <2>2
<1>2. CASE Matches(ht, key) = {}
  <2> DEFINE full == (ht.num_elems * 100) \div ht.cap > LOAD_FACTOR
             roomy == IF full THEN Grow(ht) ELSE ht
  <2>1. HtInsert(ht, key, val) = Inserted(roomy, key, val)
    BY <1>2 DEF HtInsert, Inserted
  <2>2. \A p \in Places(ht) : ~ SameKey(EntryAt(ht, p).key, key)
    BY <1>0, <1>2, SearchComplete
  <2>3. CASE full
    <3>1. Good(Grow(ht)) /\ Grow(ht).num_elems * 100 < (LOAD_FACTOR + 1) * Grow(ht).cap
      BY GrowIsGood
    <3>2. PICK h : Moves(h, Grow(ht), ht)
      BY <1>0, GrowMoves
    <3>3. \A p \in Places(Grow(ht)) : ~ SameKey(EntryAt(Grow(ht), p).key, key)
      BY <2>2, <3>2 DEF Moves
    <3> QED
      BY <1>2, <2>1, <2>3, <3>1, <3>3
  <2>4. CASE ~ full
    <3>1. ht.num_elems * 100 < (LOAD_FACTOR + 1) * ht.cap
      <4> DEFINE n == ht.num_elems * 100
      <4>1. ht.cap \in Nat \ {0} /\ n \in Nat /\ LOAD_FACTOR \in Nat
        BY <1>0, CapAssumption DEF ShapeOK, Table
      <4>2. n \div ht.cap <= LOAD_FACTOR /\ n \div ht.cap \in Nat
        <5>1. n \div ht.cap \in Nat
          BY <4>1
        <5> QED
          BY <2>4, <4>1, <5>1
      <4> HIDE DEF n
      <4> QED
        BY <4>1, <4>2, QuotientLimit DEF n
    <3> QED
      BY <1>2, <2>1, <2>2, <2>4, <3>1
  <2> QED
    BY <2>3, <2>4
<1> QED
  BY <1>1, <1>2

LEMMA HtInsertIsGood ==
  ASSUME HeapOK, NEW ht, Good(ht), NEW key \in DOMAIN heap, NEW val \in Refs
  PROVE  Good(HtInsert(ht, key, val))
<1>1. CASE Matches(ht, key) # {}
  BY <1>1, HtInsertCases, OverwriteIsGood
<1>2. CASE Matches(ht, key) = {}
  <2>1. PICK roomy :
          /\ Good(roomy)
          /\ roomy.num_elems * 100 < (LOAD_FACTOR + 1) * roomy.cap
          /\ \A p \in Places(roomy) : ~ SameKey(EntryAt(roomy, p).key, key)
          /\ HtInsert(ht, key, val) = Inserted(roomy, key, val)
    BY <1>2, HtInsertCases
  <2> QED
    BY <2>1, InsertIsGood
<1> QED
  BY <1>1, <1>2

-----------------------------------------------------------------------------
\* Steps keep every object at its reference with its type, and boxes their
\* payload: so keys and their hashes stay what they are.
Keeps ==
  /\ DOMAIN heap \subseteq DOMAIN heap'
  /\ Refs \subseteq Refs'
  /\ \A r \in DOMAIN heap :
       /\ heap'[r].type = heap[r].type
       /\ IsBoxed(r) => heap'[r].val = heap[r].val

LEMMA KeysStable ==
  ASSUME HeapOK, Keeps, NEW a \in DOMAIN heap, NEW b \in DOMAIN heap
  PROVE  /\ HashObject(a)' = HashObject(a) /\ KeyOf(a)' = KeyOf(a)
         /\ IsKey(a)' <=> IsKey(a)
         /\ SameKey(a, b)' <=> SameKey(a, b)
<1>1. /\ heap[a] \in Object /\ heap[b] \in Object /\ a # NULL /\ b # NULL
      /\ heap'[a].type = heap[a].type /\ heap'[b].type = heap[b].type
      /\ heap[a].type # OBJECT => heap'[a].val = heap[a].val
      /\ heap[b].type # OBJECT => heap'[b].val = heap[b].val
  BY DEF HeapOK, NULL, Keeps, IsBoxed
<1>2. heap[a].type \in {OBJECT, BOX_I32, BOX_F64}
  BY <1>1 DEF Object
<1>3. HashObject(a)' = HashObject(a)
  BY <1>1 DEF HashObject, IsBoxed
<1>4. IsKey(a)' <=> IsKey(a)
  <2>1. CASE heap[a].type = OBJECT
    BY <1>1, <2>1 DEF IsKey, ObjectEq, OBJECT, BOX_I32, BOX_F64
  <2>2. CASE heap[a].type = BOX_I32
    BY <1>1, <2>2 DEF IsKey, ObjectEq, OBJECT, BOX_I32, BOX_F64
  <2>3. CASE heap[a].type = BOX_F64
    BY <1>1, <2>3 DEF IsKey, ObjectEq, OBJECT, BOX_I32, BOX_F64
  <2> QED
    BY <1>2, <2>1, <2>2, <2>3
<1>5. KeyOf(a)' = KeyOf(a) /\ KeyOf(b)' = KeyOf(b)
  BY <1>1 DEF KeyOf, IsBoxed
<1> QED
  BY <1>3, <1>4, <1>5 DEF SameKey

LEMMA GoodStable ==
  ASSUME HeapOK, Keeps, NEW ht, Good(ht)
  PROVE  Good(ht)'
<1>0. ShapeOK(ht) /\ CellsOK(ht) /\ KeysDiffer(ht) /\ Counted(ht) /\ LoadOK(ht)
  BY DEF Good
<1>1. ASSUME NEW p \in Places(ht)
      PROVE  /\ EntryAt(ht, p).key \in DOMAIN heap
             /\ CellOK(ht, p[1], EntryAt(ht, p))
  BY <1>0 DEF CellsOK, CellOK
<1>2. \A p \in Places(ht) : CellOK(ht, p[1], EntryAt(ht, p))'
  <2> TAKE p \in Places(ht)
  <2>1. HashObject(EntryAt(ht, p).key)' = HashObject(EntryAt(ht, p).key)
    BY <1>1, KeysStable
  <2> QED
    BY <1>1, <2>1 DEF CellOK, Keeps
<1>3. \A p, q \in Places(ht) :
        SameKey(EntryAt(ht, p).key, EntryAt(ht, q).key)' => p = q
  <2> TAKE p, q \in Places(ht)
  <2>1. SameKey(EntryAt(ht, p).key, EntryAt(ht, q).key)'
          <=> SameKey(EntryAt(ht, p).key, EntryAt(ht, q).key)
    BY <1>1, KeysStable
  <2> QED
    BY <1>0, <2>1 DEF KeysDiffer
<1>4. CellsOK(ht)'
  BY <1>2 DEF CellsOK
<1>5. KeysDiffer(ht)'
  BY <1>3 DEF KeysDiffer
<1>6. ShapeOK(ht)' /\ Counted(ht)' /\ LoadOK(ht)'
  BY <1>0 DEF ShapeOK, Counted, LoadOK
<1> QED
  BY <1>4, <1>5, <1>6 DEF Good

-----------------------------------------------------------------------------
LEMMA InitIInv == Init => IInv
<1> SUFFICES ASSUME Init PROVE IInv
  OBVIOUS
<1>1. heap \in Seq(Object) /\ Len(heap) = 0 /\ DOMAIN heap = {}
  BY DEF Init
<1>2. HeapOK
  BY <1>1, CapAssumption DEF HeapOK
<1>3. Tables = {}
  BY <1>1 DEF Tables
<1>4. call.result = 0 /\ trapped \in BOOLEAN
  BY DEF Init, NULL
<1>5. \A t \in Tables, ht \in Table : heap[t].val = ht => Good(ht)
  BY <1>3
<1> QED
  BY <1>2, <1>4, <1>5 DEF IInv

\* A new object or box leaves the others alone.
LEMMA CreateIInv ==
  ASSUME IInv, NEW fn, NEW args, NEW type, NEW val, Create(fn, args, type, val),
         [type |-> type, val |-> val] \in Object,
         type = OBJECT => val = EmptyTable
  PROVE  IInv'
<1> DEFINE o == [type |-> type, val |-> val]
           n == Len(heap)
<1>1. heap \in Seq(Object) /\ n \in Nat /\ n < MaxObjects
  BY DEF IInv, HeapOK, Create
<1>2. /\ heap' = Append(heap, o) /\ call'.result = Len(heap')
      /\ trapped' = trapped
  BY DEF Create
<1>3. /\ heap' \in Seq(Object) /\ Len(heap') = n + 1 /\ heap'[n + 1] = o
      /\ \A r \in 1..n : heap'[r] = heap[r]
      /\ DOMAIN heap = 1..n /\ DOMAIN heap' = 1..(n + 1)
  <2> HIDE DEF o
  <2> QED
    BY <1>1, <1>2 DEF o
<1>4. HeapOK'
  BY <1>1, <1>3, CapAssumption DEF HeapOK
<1>5. Keeps
  BY <1>1, <1>3 DEF Keeps, Refs
<1>6. ASSUME NEW t \in Tables', NEW ht \in Table, heap'[t].val = ht
      PROVE  Good(ht)'
  <2>1. t \in 1..(n + 1) /\ heap'[t].type = OBJECT
    BY <1>3 DEF Tables
  <2>2. CASE t \in 1..n
    <3>1. t \in Tables /\ heap[t].val = ht
      BY <1>3, <1>6, <2>1, <2>2 DEF Tables
    <3>2. Good(ht)
      BY <3>1 DEF IInv
    <3> QED
      BY <1>5, <3>2, GoodStable DEF IInv
  <2>3. CASE t = n + 1
    <3>1. ht = EmptyTable
      BY <1>3, <1>6, <2>1, <2>3
    <3>2. Good(ht)
      BY <3>1, EmptyIsGood
    <3> QED
      BY <1>5, <3>2, GoodStable DEF IInv
  <2> QED
    BY <1>1, <2>1, <2>2, <2>3
<1>7. call'.result \in Nat
  BY <1>1, <1>2, <1>3
<1> QED
  BY <1>2, <1>4, <1>6, <1>7 DEF IInv

\* What a call leaves that changes no object.
LEMMA SameHeapIInv ==
  ASSUME IInv, heap' = heap, call'.result \in Nat \cup I32 \cup F64,
         trapped' \in BOOLEAN
  PROVE  IInv'
<1>1. HeapOK /\ Keeps
  BY DEF IInv, Keeps, Refs
<1>2. ASSUME NEW t \in Tables', NEW ht \in Table, heap'[t].val = ht
      PROVE  Good(ht)'
  <2>1. Good(ht)
    BY <1>2 DEF IInv, Tables
  <2> QED
    BY <1>1, <2>1, GoodStable
<1>3. HeapOK'
  BY <1>1 DEF HeapOK
<1> QED
  BY <1>2, <1>3 DEF IInv

LEMMA TableOf ==
  ASSUME HeapOK, NEW t \in Tables
  PROVE  heap[t].val \in Table
<1>1. heap[t] \in Object /\ heap[t].type = OBJECT
  BY DEF HeapOK, Tables
<1> QED
  BY <1>1 DEF Object, OBJECT, BOX_I32, BOX_F64

\* obj.set changes one table.
LEMMA SetIInv ==
  ASSUME IInv, NEW obj \in Refs, NEW key \in Refs, NEW val \in Refs,
         ~ BadAccess(obj, key),
         heap' = [heap EXCEPT ![obj].val = HtInsert(@, key, val)],
         call'.result \in Nat, trapped' = trapped
  PROVE  IInv'
<1> DEFINE old == heap[obj].val
           new == HtInsert(old, key, val)
<1>1. /\ heap \in Seq(Object) /\ HeapOK
      /\ obj \in DOMAIN heap /\ key \in DOMAIN heap /\ obj \in Tables
  BY DEF IInv, HeapOK, BadAccess, NULL, Refs, IsBoxed, Tables
<1>2. old \in Table /\ Good(old)
  BY <1>1, TableOf DEF IInv
<1>3. Good(new)
  BY <1>1, <1>2, HtInsertIsGood
<1>4. new \in Table
  BY <1>3 DEF Good, ShapeOK
<1>5. heap' = [heap EXCEPT ![obj] = [heap[obj] EXCEPT !.val = new]]
  OBVIOUS
<1> DEFINE o == [heap[obj] EXCEPT !.val = new]
<1> HIDE DEF new
<1>6. o \in Object /\ o.type = OBJECT /\ o.val = new
  <2>1. heap[obj] \in [type : {OBJECT}, val : Table]
    BY <1>1 DEF Tables, Object, OBJECT, BOX_I32, BOX_F64
  <2> QED
    BY <1>4, <2>1 DEF Object
<1> HIDE DEF o
<1>7. /\ heap' \in Seq(Object) /\ Len(heap') = Len(heap) /\ DOMAIN heap' = DOMAIN heap
      /\ heap'[obj] = o
      /\ \A r \in DOMAIN heap : r # obj => heap'[r] = heap[r]
  BY <1>1, <1>5, <1>6 DEF o
<1>8. Keeps
  <2>1. heap[obj].type = OBJECT
    BY <1>1 DEF Tables
  <2> QED
    BY <1>6, <1>7, <2>1 DEF Keeps, Refs, IsBoxed
<1>9. ASSUME NEW t \in Tables', NEW ht \in Table, heap'[t].val = ht
      PROVE  Good(ht)'
  <2>1. CASE t = obj
    <3>1. ht = new
      BY <1>6, <1>7, <1>9, <2>1
    <3> QED
      BY <1>1, <1>3, <1>8, <3>1, GoodStable
  <2>2. CASE t # obj
    <3>1. t \in Tables /\ heap[t].val = ht
      BY <1>7, <1>9, <2>2 DEF Tables
    <3>2. Good(ht)
      BY <3>1 DEF IInv
    <3> QED
      BY <1>1, <1>8, <3>2, GoodStable
  <2> QED
    BY <2>1, <2>2
<1>10. HeapOK'
  BY <1>1, <1>7 DEF HeapOK
<1> QED
  BY <1>9, <1>10 DEF IInv

LEMMA GetResult ==
  ASSUME HeapOK, NEW ht, Good(ht), NEW key \in DOMAIN heap
  PROVE  HtFind(ht, key) \in Refs
<1>1. CASE Matches(ht, key) = {}
  BY <1>1 DEF HtFind, NULL, Refs, HeapOK
<1>2. CASE Matches(ht, key) # {}
  <2> DEFINE p == <<Bucket(ht, key), Found(ht, key)>>
  <2>1. ShapeOK(ht) /\ CellsOK(ht)
    BY DEF Good
  <2>2. p \in Places(ht)
    BY <1>2, <2>1, SearchSound
  <2>3. HtFind(ht, key) = EntryAt(ht, p).val
    BY <1>2 DEF HtFind, EntryAt, Bucket
  <2> QED
    BY <2>1, <2>2, <2>3 DEF CellsOK, CellOK
<1> QED
  BY <1>1, <1>2

LEMMA GetIInv == IInv /\ ObjGet => IInv'
<1> SUFFICES ASSUME IInv, ObjGet PROVE IInv'
  OBVIOUS
<1>1. PICK obj \in Refs, key \in Refs :
        IF BadAccess(obj, key) THEN DoTrap("get", <<obj, key>>)
        ELSE Yield("get", <<obj, key>>, HtFind(heap[obj].val, key))
  BY DEF ObjGet
<1>2. CASE BadAccess(obj, key)
  BY <1>1, <1>2, SameHeapIInv DEF DoTrap, NULL
<1>3. CASE ~ BadAccess(obj, key)
  <2>1. obj \in Tables /\ key \in DOMAIN heap /\ HeapOK
    BY <1>3 DEF IInv, HeapOK, BadAccess, NULL, Refs, IsBoxed, Tables
  <2>2. heap[obj].val \in Table
    BY <2>1, TableOf
  <2>3. Good(heap[obj].val)
    BY <2>1, <2>2 DEF IInv
  <2>4. HtFind(heap[obj].val, key) \in Nat
    BY <2>1, <2>3, GetResult DEF Refs, HeapOK
  <2>5. call'.result \in Nat /\ heap' = heap /\ trapped' = trapped
    BY <1>1, <1>3, <2>4 DEF Yield
  <2> QED
    BY <2>5, SameHeapIInv DEF IInv
<1> QED
  BY <1>2, <1>3

LEMMA ObjSetIInv == IInv /\ ObjSet => IInv'
<1> SUFFICES ASSUME IInv, ObjSet PROVE IInv'
  OBVIOUS
<1>1. PICK obj \in Refs, key \in Refs, val \in Refs \cap Stored :
        IF BadAccess(obj, key) THEN DoTrap("set", <<obj, key, val>>)
        ELSE /\ HtInsert(heap[obj].val, key, val).num_elems <= MaxEntries
             /\ heap' = [heap EXCEPT ![obj].val = HtInsert(@, key, val)]
             /\ call' = [fn |-> "set", args |-> <<obj, key, val>>, result |-> NULL]
             /\ UNCHANGED trapped
  BY DEF ObjSet
<1>2. CASE BadAccess(obj, key)
  BY <1>1, <1>2, SameHeapIInv DEF DoTrap, NULL
<1>3. CASE ~ BadAccess(obj, key)
  BY <1>1, <1>3, SetIInv DEF NULL
<1> QED
  BY <1>2, <1>3

LEMMA UnboxIInv ==
  ASSUME IInv, NEW type \in {BOX_I32, BOX_F64}, Unbox(type) PROVE IInv'
<1>1. PICK obj \in Refs :
        IF obj = NULL \/ heap[obj].type # type THEN DoTrap(type, <<obj>>)
        ELSE Yield(type, <<obj>>, heap[obj].val)
  BY DEF Unbox
<1>2. CASE obj = NULL \/ heap[obj].type # type
  <2>0. DoTrap(type, <<obj>>)
    BY <1>1, <1>2, Zenon
  <2>1. heap' = heap /\ trapped' \in BOOLEAN /\ call'.result = 0
    BY <2>0 DEF DoTrap, NULL
  <2> QED
    BY <2>1, SameHeapIInv
<1>3. CASE ~ (obj = NULL \/ heap[obj].type # type)
  <2>1. heap[obj] \in Object
    BY <1>3 DEF IInv, HeapOK, NULL, Refs
  <2>2. heap[obj].val \in I32 \cup F64
    BY <1>3, <2>1 DEF Object, OBJECT, BOX_I32, BOX_F64
  <2>3. call'.result \in I32 \cup F64 /\ heap' = heap /\ trapped' = trapped
    BY <1>1, <1>3, <2>2 DEF Yield
  <2> QED
    BY <2>3, SameHeapIInv DEF IInv
<1> QED
  BY <1>2, <1>3

LEMMA NextIInv == IInv /\ [Next]_vars => IInv'
<1> SUFFICES ASSUME IInv, [Next]_vars PROVE IInv'
  OBVIOUS
<1>1. CASE ObjNew
  <2>1. [type |-> OBJECT, val |-> EmptyTable] \in Object
    BY EmptyIsGood DEF Object, Good, ShapeOK
  <2> QED
    BY <1>1, <2>1, CreateIInv DEF ObjNew
<1>2. CASE ObjBoxI32
  <2>1. PICK v \in I32 : Create("box_i32", <<v>>, BOX_I32, v)
    BY <1>2 DEF ObjBoxI32
  <2>2. [type |-> BOX_I32, val |-> v] \in Object /\ BOX_I32 # OBJECT
    BY DEF Object, BOX_I32, OBJECT
  <2> QED
    BY <2>1, <2>2, CreateIInv
<1>3. CASE ObjBoxF64
  <2>1. PICK v \in F64 : Create("box_f64", <<v>>, BOX_F64, v)
    BY <1>3 DEF ObjBoxF64
  <2>2. [type |-> BOX_F64, val |-> v] \in Object /\ BOX_F64 # OBJECT
    BY DEF Object, BOX_F64, OBJECT
  <2> QED
    BY <2>1, <2>2, CreateIInv
<1>4. CASE ObjGet
  BY <1>4, GetIInv
<1>5. CASE ObjSet
  BY <1>5, ObjSetIInv
<1>6. CASE Unbox(BOX_I32) \/ Unbox(BOX_F64)
  BY <1>6, UnboxIInv
<1>7. CASE ObjEq
  <2>1. heap' = heap /\ trapped' = trapped /\ call'.result \in Nat
    BY <1>7 DEF ObjEq, Yield
  <2> QED
    BY <2>1, SameHeapIInv DEF IInv
<1>8. CASE UNCHANGED vars
  BY <1>8, SameHeapIInv DEF vars, IInv
<1> QED
  BY <1>1, <1>2, <1>3, <1>4, <1>5, <1>6, <1>7, <1>8 DEF Next

LEMMA Inductive == Spec => []IInv
<1>1. Init => IInv
  BY InitIInv
<1>2. IInv /\ [Next]_vars => IInv'
  BY NextIInv
<1> QED
  BY <1>1, <1>2, PTL DEF Spec

-----------------------------------------------------------------------------
LEMMA TablesGood == ASSUME IInv, NEW t \in Tables PROVE Good(heap[t].val)
<1>1. heap[t].val \in Table
  BY TableOf DEF IInv
<1> QED
  BY <1>1 DEF IInv

LEMMA TypeFromIInv == IInv => TypeOK
<1> SUFFICES ASSUME IInv PROVE TypeOK
  OBVIOUS
<1>1. ASSUME NEW r \in DOMAIN heap, heap[r].type = OBJECT PROVE TableOK(heap[r].val)
  <2> DEFINE ht == heap[r].val
  <2>1. Good(ht)
    BY <1>1, TablesGood DEF Tables
  <2>2. ShapeOK(ht) /\ CellsOK(ht)
    BY <2>1 DEF Good
  <2> HIDE DEF ht
  <2>3. ht.cap \in Nat /\ ht.num_elems \in Nat /\ DOMAIN ht.buckets = 0..(ht.cap - 1)
    BY <2>2 DEF ShapeOK, Table
  <2>4. ASSUME NEW b \in 0..(ht.cap - 1)
        PROVE  ht.buckets[b] \in Seq([key : DOMAIN heap, val : Refs, hash : Nat])
    <3> DEFINE chain == ht.buckets[b]
               E == [key : DOMAIN heap, val : Refs, hash : Nat]
    <3>1. chain \in Seq(Cell)
      BY <2>2, <2>4 DEF ShapeOK
    <3>2. \A i \in 1..Len(chain) : chain[i] \in E
      <4> TAKE i \in 1..Len(chain)
      <4> DEFINE p == <<b, i>>
      <4>1. p[1] = b /\ p[2] = i /\ p = <<p[1], p[2]>>
        OBVIOUS
      <4> HIDE DEF p
      <4>2. p \in Places(ht)
        BY <2>2, <4>1, PlacesPairs
      <4>3. EntryAt(ht, p) = chain[i]
        BY <4>1 DEF EntryAt
      <4>4. chain[i] \in Cell /\ chain[i].key \in DOMAIN heap /\ chain[i].val \in Refs
        BY <2>2, <4>2, <4>3, CellTyped DEF CellsOK, CellOK
      <4> QED
        BY <4>4 DEF Cell
    <3> HIDE DEF chain, E
    <3>3. chain \in Seq(E)
      BY <3>1, <3>2
    <3> QED
      BY <3>3 DEF chain, E
  <2> QED
    BY <2>3, <2>4 DEF TableOK, ht
<1>2. ASSUME NEW r \in DOMAIN heap
      PROVE  /\ heap[r].type = BOX_I32 => heap[r].val \in I32
             /\ heap[r].type = BOX_F64 => heap[r].val \in F64
  <2>1. heap[r] \in Object
    BY DEF IInv, HeapOK
  <2> QED
    BY <2>1 DEF Object, OBJECT, BOX_I32, BOX_F64
<1> QED
  BY <1>1, <1>2 DEF TypeOK, IInv

LEMMA BucketsFromIInv == IInv => BucketsSound
<1> SUFFICES ASSUME IInv, NEW t \in Tables, NEW b \in DOMAIN heap[t].val.buckets,
                    NEW i \in DOMAIN heap[t].val.buckets[b]
             PROVE  LET e == heap[t].val.buckets[b][i]
                    IN e.hash = HashObject(e.key) /\ e.hash % heap[t].val.cap = b
  BY DEF BucketsSound
<1> DEFINE ht == heap[t].val
           p == <<b, i>>
<1>1. Good(ht)
  BY TablesGood
<1>2. p \in Places(ht)
  BY DEF Places
<1>3. p[1] = b /\ EntryAt(ht, p) = ht.buckets[b][i]
  BY DEF EntryAt
<1> HIDE DEF p
<1> QED
  BY <1>1, <1>2, <1>3 DEF Good, CellsOK, CellOK

LEMMA KeysFromIInv == IInv => NoDuplicateKeys
BY TablesGood DEF NoDuplicateKeys, Good, KeysDiffer

LEMMA LoadFromIInv == IInv => LoadBounded
BY TablesGood DEF LoadBounded, Good, Counted, LoadOK

\* Objects, boxes and tables keep their types: references in a table lead to what
\* was created, whatever create, set and get a program calls in which order.
THEOREM TypeCorrect == Spec => []TypeOK
BY Inductive, TypeFromIInv, PTL

\* At every capacity an entry is in the chain that a search for its key takes
\* (ht_grow moves it where ht_find_internal will look).
THEOREM BucketsStaySound == Spec => []BucketsSound
BY Inductive, BucketsFromIInv, PTL

\* obj.set never makes a second entry for a key: a reference to an object, or an
\* i32 or a double by its value and bits.  Both zeros are keys of their own.
THEOREM KeysStayDifferent == Spec => []NoDuplicateKeys
BY Inductive, KeysFromIInv, PTL

\* num_elems counts the entries, and ht_insert grows a table in time.
THEOREM LoadStaysBounded == Spec => []LoadBounded
BY Inductive, LoadFromIInv, PTL

-----------------------------------------------------------------------------
(***************************************************************************)
(* Objects are maps: a table is the map of the entries a search can find.  *)
(***************************************************************************)
\* The map of a table has the keys of its entries, each with the entry's value.
LEMMA MapEntries ==
  ASSUME HeapOK, NEW ht, CellsOK(ht), KeysDiffer(ht)
  PROVE  /\ MapOf(ht) = [k \in DOMAIN MapOf(ht) |-> MapOf(ht)[k]]
         /\ DOMAIN MapOf(ht) = {KeyOf(e.key) : e \in Entries(ht)}
         /\ \A e \in Entries(ht) : MapOf(ht)[KeyOf(e.key)] = e.val
<1> DEFINE K == {KeyOf(e.key) : e \in Entries(ht)}
           Holder(k) == CHOOSE e \in Entries(ht) : KeyOf(e.key) = k
<1>1. MapOf(ht) = [k \in K |-> Holder(k).val]
  BY DEF MapOf
<1>2. ASSUME NEW e \in Entries(ht) PROVE Holder(KeyOf(e.key)) = e
  <2>1. Holder(KeyOf(e.key)) \in Entries(ht) /\ KeyOf(Holder(KeyOf(e.key)).key) = KeyOf(e.key)
    OBVIOUS
  <2> DEFINE d == Holder(KeyOf(e.key))
  <2> HIDE DEF d
  <2>2. PICK p \in Places(ht) : e = EntryAt(ht, p)
    BY DEF Entries
  <2>3. PICK q \in Places(ht) : d = EntryAt(ht, q) /\ IsKey(d.key)
    BY <2>1 DEF d, Entries
  <2>4. KeyOf(d.key) = KeyOf(e.key)
    BY <2>1 DEF d
  <2>5. SameKey(d.key, e.key)
    BY <2>3, <2>4 DEF SameKey
  <2>6. q = p
    BY <2>2, <2>3, <2>5 DEF KeysDiffer
  <2> QED
    BY <2>2, <2>3, <2>6 DEF d
<1> HIDE DEF Holder
<1> QED
  BY <1>1, <1>2

\* Conversely a function with these keys and values is the map.
LEMMA MapUnique ==
  ASSUME HeapOK, NEW ht, CellsOK(ht), KeysDiffer(ht), NEW f,
         f = [k \in DOMAIN f |-> f[k]],
         DOMAIN f = {KeyOf(e.key) : e \in Entries(ht)},
         \A e \in Entries(ht) : f[KeyOf(e.key)] = e.val
  PROVE  MapOf(ht) = f
<1>1. /\ MapOf(ht) = [k \in DOMAIN MapOf(ht) |-> MapOf(ht)[k]]
      /\ DOMAIN MapOf(ht) = {KeyOf(e.key) : e \in Entries(ht)}
      /\ \A e \in Entries(ht) : MapOf(ht)[KeyOf(e.key)] = e.val
  BY MapEntries
<1>2. \A k \in DOMAIN f : MapOf(ht)[k] = f[k]
  BY <1>1
<1>3. DOMAIN MapOf(ht) = DOMAIN f
  BY <1>1
<1> QED
  BY <1>1, <1>2, <1>3

\* The map with one key set.
Updated(m, k, v) == [x \in DOMAIN m \cup {k} |-> IF x = k THEN v ELSE m[x]]

\* What obj.set makes of a map.
Renewed(m, key, val) == IF IsKey(key) THEN Updated(m, KeyOf(key), val) ELSE m

LEMMA GrowKeepsMap ==
  ASSUME HeapOK, NEW ht, ShapeOK(ht), CellsOK(ht)
  PROVE  MapOf(Grow(ht)) = MapOf(ht)
<1>1. PICK h : Moves(h, Grow(ht), ht)
  BY GrowMoves
<1>2. Entries(Grow(ht)) = Entries(ht)
  BY <1>1 DEF Moves, Entries
<1> QED
  BY <1>2 DEF MapOf

LEMMA InsertUpdates ==
  ASSUME HeapOK, NEW ht, Good(ht), NEW key \in DOMAIN heap, NEW val \in Refs,
         \A p \in Places(ht) : ~ SameKey(EntryAt(ht, p).key, key),
         Good(Inserted(ht, key, val))
  PROVE  MapOf(Inserted(ht, key, val)) = Renewed(MapOf(ht), key, val)
<1> DEFINE new == Inserted(ht, key, val)
           x == <<Bucket(ht, key), 1>>
           m == MapOf(ht)
           k == KeyOf(key)
           f == Updated(m, k, val)
<1>0. ShapeOK(ht) /\ CellsOK(ht) /\ KeysDiffer(ht) /\ CellsOK(new) /\ KeysDiffer(new)
  BY DEF Good
<1>1. PICK h : Shifts(h, new, ht, x)
  BY <1>0, InsertShifts
<1>2. EntryAt(new, x) = Entry(key, val)
  BY <1>0, InsertShifts
<1> HIDE DEF new, x
<1>3. Entry(key, val).key = key /\ Entry(key, val).val = val
  BY DEF Entry
<1>4. Entries(new) = Entries(ht) \cup (IF IsKey(key) THEN {Entry(key, val)} ELSE {})
  <2>1. IsKey(key) => Entry(key, val) \in Entries(new)
    BY <1>1, <1>2, <1>3 DEF Shifts, Entries
  <2>2. \A e \in Entries(ht) : e \in Entries(new)
    BY <1>1 DEF Shifts, Entries
  <2>3. ASSUME NEW e \in Entries(new)
        PROVE  e \in Entries(ht) \/ (e = Entry(key, val) /\ IsKey(key))
    <3>1. PICK p \in Places(new) : e = EntryAt(new, p) /\ IsKey(e.key)
      BY DEF Entries
    <3>2. CASE p = x
      BY <1>2, <1>3, <3>1, <3>2
    <3>3. CASE p # x
      BY <1>1, <3>1, <3>3 DEF Shifts, Entries
    <3> QED
      BY <3>2, <3>3
  <2> QED
    BY <2>1, <2>2, <2>3
<1>5. /\ DOMAIN m = {KeyOf(e.key) : e \in Entries(ht)}
      /\ \A e \in Entries(ht) : m[KeyOf(e.key)] = e.val
  BY <1>0, MapEntries
<1>6. \A e \in Entries(ht) : KeyOf(e.key) # k
  <2> TAKE e \in Entries(ht)
  <2>1. PICK p \in Places(ht) : e = EntryAt(ht, p) /\ IsKey(e.key)
    BY DEF Entries
  <2> QED
    BY <2>1 DEF SameKey
<1>7. CASE ~ IsKey(key)
  <2>1. Entries(new) = Entries(ht)
    BY <1>4, <1>7
  <2> QED
    BY <1>7, <2>1 DEF MapOf, new, Renewed
<1>8. CASE IsKey(key)
  <2> HIDE DEF m, k
  <2>1. /\ f = [y \in DOMAIN f |-> f[y]]
        /\ DOMAIN f = DOMAIN m \cup {k} /\ f[k] = val
        /\ \A y \in DOMAIN m : y # k => f[y] = m[y]
    BY DEF Updated
  <2> HIDE DEF f
  <2>2. DOMAIN f = {KeyOf(e.key) : e \in Entries(new)}
    BY <1>3, <1>4, <1>5, <1>8, <2>1 DEF k
  <2>3. \A e \in Entries(new) : f[KeyOf(e.key)] = e.val
    <3> TAKE e \in Entries(new)
    <3>1. CASE e = Entry(key, val)
      BY <1>3, <2>1, <3>1 DEF k
    <3>2. CASE e \in Entries(ht)
      BY <1>5, <1>6, <2>1, <3>2
    <3> QED
      BY <1>4, <3>1, <3>2
  <2>4. MapOf(new) = f
    BY <1>0, <2>1, <2>2, <2>3, MapUnique
  <2> QED
    BY <1>8, <2>4 DEF new, f, m, k, Renewed
<1> QED
  BY <1>7, <1>8

LEMMA OverwriteUpdates ==
  ASSUME HeapOK, NEW ht, Good(ht), NEW key \in DOMAIN heap, NEW val \in Refs,
         NEW p \in Places(ht), SameKey(EntryAt(ht, p).key, key),
         Good(Overwritten(ht, p, val))
  PROVE  MapOf(Overwritten(ht, p, val)) = Renewed(MapOf(ht), key, val)
<1> DEFINE new == Overwritten(ht, p, val)
           m == MapOf(ht)
           k == KeyOf(key)
           f == Updated(m, k, val)
<1>0. ShapeOK(ht) /\ CellsOK(ht) /\ KeysDiffer(ht) /\ CellsOK(new) /\ KeysDiffer(new)
  BY DEF Good
<1>01. IsKey(EntryAt(ht, p).key) /\ IsKey(key)
  <2>1. EntryAt(ht, p).key \in DOMAIN heap
    BY <1>0 DEF CellsOK, CellOK
  <2>2. SameKey(key, EntryAt(ht, p).key)
    BY <2>1, EqualKeys
  <2> QED
    BY <2>2 DEF SameKey
<1>1. val \in Nat
  BY DEF Refs, HeapOK
<1>2. /\ Places(new) = Places(ht)
      /\ \A q \in Places(ht) :
           EntryAt(new, q) = IF q = p THEN [EntryAt(ht, p) EXCEPT !.val = val]
                             ELSE EntryAt(ht, q)
  BY <1>0, <1>1, OverwriteEntries
<1> HIDE DEF new
<1>3. ASSUME NEW q \in Places(ht)
      PROVE  /\ EntryAt(new, q).key = EntryAt(ht, q).key
             /\ EntryAt(new, q).val = IF q = p THEN val ELSE EntryAt(ht, q).val
  <2>1. EntryAt(ht, q) \in Cell
    BY <1>0, CellTyped
  <2> QED
    BY <1>2, <2>1 DEF Cell
<1>4. /\ DOMAIN m = {KeyOf(e.key) : e \in Entries(ht)}
      /\ \A e \in Entries(ht) : m[KeyOf(e.key)] = e.val
  BY <1>0, MapEntries
<1>5. KeyOf(EntryAt(ht, p).key) = k
  BY DEF SameKey
<1>6. \A q \in Places(ht) : KeyOf(EntryAt(ht, q).key) = k => q = p
  <2> SUFFICES ASSUME NEW q \in Places(ht), KeyOf(EntryAt(ht, q).key) = k PROVE q = p
    OBVIOUS
  <2>1. SameKey(EntryAt(ht, p).key, EntryAt(ht, q).key)
    BY <1>01, <1>5 DEF SameKey
  <2> QED
    BY <1>0, <2>1 DEF KeysDiffer
<1> HIDE DEF m, k
<1>7. k \in DOMAIN m
  BY <1>01, <1>4, <1>5 DEF Entries
<1>8. /\ f = [y \in DOMAIN f |-> f[y]]
      /\ DOMAIN f = DOMAIN m /\ f[k] = val
      /\ \A y \in DOMAIN m : y # k => f[y] = m[y]
  <2>1. DOMAIN m \cup {k} = DOMAIN m
    BY <1>7
  <2> QED
    BY <1>7, <2>1 DEF Updated
<1> HIDE DEF f
<1>9. {KeyOf(e.key) : e \in Entries(new)} = {KeyOf(e.key) : e \in Entries(ht)}
  <2> DEFINE Q == {q \in Places(ht) : IsKey(EntryAt(ht, q).key)}
  <2>1. Q = {q \in Places(new) : IsKey(EntryAt(new, q).key)}
    BY <1>2, <1>3
  <2>2. /\ Entries(new) = {EntryAt(new, q) : q \in Q}
        /\ Entries(ht) = {EntryAt(ht, q) : q \in Q}
    BY <2>1 DEF Entries
  <2>3. \A q \in Q : EntryAt(new, q).key = EntryAt(ht, q).key
    BY <1>3
  <2> HIDE DEF Q
  <2> QED
    BY <2>2, <2>3
<1>10. \A e \in Entries(new) : f[KeyOf(e.key)] = e.val
  <2> TAKE e \in Entries(new)
  <2>1. PICK q \in Places(ht) : e = EntryAt(new, q) /\ IsKey(e.key)
    BY <1>2 DEF Entries
  <2>2. EntryAt(ht, q) \in Entries(ht)
    BY <1>3, <2>1 DEF Entries
  <2>3. CASE q = p
    BY <1>3, <1>5, <1>8, <2>1, <2>3
  <2>4. CASE q # p
    BY <1>3, <1>4, <1>6, <1>8, <2>1, <2>2, <2>4
  <2> QED
    BY <2>3, <2>4
<1>11. DOMAIN f = {KeyOf(e.key) : e \in Entries(new)}
  BY <1>4, <1>8, <1>9
<1>12. MapOf(new) = f
  BY <1>0, <1>8, <1>10, <1>11, MapUnique
<1> QED
  BY <1>01, <1>12 DEF new, f, m, k, Renewed

\* obj.set sets one key of the map, obj.get looks one up.
LEMMA HtInsertUpdates ==
  ASSUME HeapOK, NEW ht, Good(ht), NEW key \in DOMAIN heap, NEW val \in Refs
  PROVE  MapOf(HtInsert(ht, key, val)) = Renewed(MapOf(ht), key, val)
<1>0. Good(HtInsert(ht, key, val))
  BY HtInsertIsGood
<1>1. CASE Matches(ht, key) # {}
  <2> DEFINE p == <<Bucket(ht, key), Found(ht, key)>>
  <2>1. /\ p \in Places(ht) /\ SameKey(EntryAt(ht, p).key, key)
        /\ HtInsert(ht, key, val) = Overwritten(ht, p, val)
    BY <1>1, HtInsertCases
  <2> HIDE DEF p
  <2> QED
    BY <1>0, <2>1, OverwriteUpdates
<1>2. CASE Matches(ht, key) = {}
  <2>1. PICK roomy :
          /\ roomy = ht \/ roomy = Grow(ht)
          /\ Good(roomy)
          /\ \A p \in Places(roomy) : ~ SameKey(EntryAt(roomy, p).key, key)
          /\ HtInsert(ht, key, val) = Inserted(roomy, key, val)
    BY <1>2, HtInsertCases
  <2>2. MapOf(roomy) = MapOf(ht)
    BY <2>1, GrowKeepsMap DEF Good
  <2>3. MapOf(Inserted(roomy, key, val)) = Renewed(MapOf(roomy), key, val)
    BY <1>0, <2>1, InsertUpdates
  <2> QED
    BY <2>1, <2>2, <2>3
<1> QED
  BY <1>1, <1>2

LEMMA HtFindLooksUp ==
  ASSUME HeapOK, NEW ht, Good(ht), NEW key \in DOMAIN heap
  PROVE  HtFind(ht, key) = IF KeyOf(key) \in DOMAIN MapOf(ht)
                           THEN MapOf(ht)[KeyOf(key)] ELSE 0
<1>0. ShapeOK(ht) /\ CellsOK(ht) /\ KeysDiffer(ht)
  BY DEF Good
<1>1. /\ DOMAIN MapOf(ht) = {KeyOf(e.key) : e \in Entries(ht)}
      /\ \A e \in Entries(ht) : MapOf(ht)[KeyOf(e.key)] = e.val
  BY <1>0, MapEntries
<1>2. CASE Matches(ht, key) # {}
  <2> DEFINE p == <<Bucket(ht, key), Found(ht, key)>>
             e == EntryAt(ht, p)
  <2>1. p \in Places(ht) /\ SameKey(e.key, key)
    BY <1>0, <1>2, SearchSound
  <2>2. HtFind(ht, key) = e.val
    BY <1>2 DEF HtFind, EntryAt, Bucket
  <2> HIDE DEF p
  <2>3. e \in Entries(ht)
    BY <2>1 DEF Entries, SameKey
  <2>4. KeyOf(e.key) = KeyOf(key)
    BY <2>1 DEF SameKey
  <2> HIDE DEF e
  <2> QED
    BY <1>1, <2>2, <2>3, <2>4
<1>3. CASE Matches(ht, key) = {}
  <2>1. HtFind(ht, key) = 0
    BY <1>3 DEF HtFind, NULL
  <2>2. KeyOf(key) \notin DOMAIN MapOf(ht)
    <3> SUFFICES ASSUME NEW e \in Entries(ht), KeyOf(e.key) = KeyOf(key) PROVE FALSE
      BY <1>1
    <3>1. PICK p \in Places(ht) : e = EntryAt(ht, p) /\ IsKey(e.key)
      BY DEF Entries
    <3>2. SameKey(e.key, key)
      BY <3>1 DEF SameKey
    <3>3. p[2] \in Matches(ht, key)
      BY <1>0, <3>1, <3>2, SearchComplete
    <3> QED
      BY <1>3, <3>3
  <2> QED
    BY <2>1, <2>2
<1> QED
  BY <1>2, <1>3

-----------------------------------------------------------------------------
(***************************************************************************)
(* The heap of tables implements the heap of maps.                         *)
(***************************************************************************)

\* The abstract heap has the concrete one's references, objects and keys.
LEMMA MapsRefs ==
  ASSUME HeapOK
  PROVE  /\ DOMAIN Maps = DOMAIN heap /\ Len(Maps) = Len(heap)
         /\ Maps \in Seq({Maps[r] : r \in DOMAIN heap})
         /\ Map!Refs = Refs
         /\ \A r \in DOMAIN heap : Maps[r].type = heap[r].type
         /\ \A r \in DOMAIN heap : IsBoxed(r) => Maps[r] = heap[r]
         /\ \A r \in Tables : Maps[r] = [type |-> OBJECT, val |-> MapOf(heap[r].val)]
         /\ \A r \in Refs : Map!IsObject(r) <=> r \in Tables
         /\ \A r \in DOMAIN heap : Map!Key(r) = KeyOf(r) /\ (Map!IsKey(r) <=> IsKey(r))
<1>1. Len(heap) \in Nat /\ DOMAIN heap = 1..Len(heap)
  BY DEF HeapOK
<1>2. ASSUME NEW r \in DOMAIN heap
      PROVE  Maps[r] = IF IsBoxed(r) THEN heap[r]
                       ELSE [type |-> OBJECT, val |-> MapOf(heap[r].val)]
  BY DEF Maps
<1>3. DOMAIN Maps = 1..Len(heap) /\ Maps = [r \in 1..Len(heap) |-> Maps[r]]
  BY <1>1 DEF Maps
<1> HIDE DEF Maps
<1>4. Maps \in Seq({Maps[r] : r \in DOMAIN heap}) /\ Len(Maps) = Len(heap)
  BY <1>1, <1>3
<1>5. ASSUME NEW r \in DOMAIN heap PROVE Maps[r].type = heap[r].type
  <2>1. CASE IsBoxed(r)
    BY <1>2, <2>1
  <2>2. CASE ~ IsBoxed(r)
    <3>1. Maps[r] = [type |-> OBJECT, val |-> MapOf(heap[r].val)]
      BY <1>2, <2>2
    <3> QED
      BY <2>2, <3>1 DEF IsBoxed
  <2> QED
    BY <2>1, <2>2
<1>6. \A r \in Refs : Map!IsObject(r) <=> r \in Tables
  BY <1>1, <1>5 DEF Map!IsObject, Tables, Refs, OBJECT
<1>7. \A r \in Tables : Maps[r] = [type |-> OBJECT, val |-> MapOf(heap[r].val)]
  BY <1>2 DEF Tables, IsBoxed
<1>8. \A r \in DOMAIN heap : IsBoxed(r) => Maps[r] = heap[r]
  BY <1>2
<1>9. ASSUME NEW r \in DOMAIN heap PROVE Map!Key(r) = KeyOf(r)
  <2>1. Map!IsObject(r) <=> ~ IsBoxed(r)
    BY <1>1, <1>6 DEF Refs, Tables, IsBoxed
  <2>2. CASE IsBoxed(r)
    BY <1>8, <2>1, <2>2 DEF Map!Key, KeyOf
  <2>3. CASE ~ IsBoxed(r)
    BY <2>1, <2>3 DEF Map!Key, KeyOf, OBJECT
  <2> QED
    BY <2>2, <2>3
<1>10. ASSUME NEW r \in DOMAIN heap PROVE Map!IsKey(r) <=> IsKey(r)
  <2>1. heap[r] \in Object /\ r # NULL
    BY DEF HeapOK, NULL
  <2>2. Maps[r].type = heap[r].type /\ (IsBoxed(r) => Maps[r] = heap[r])
    BY <1>5, <1>8
  <2>3. heap[r].type \in {OBJECT, BOX_I32, BOX_F64}
    BY <2>1 DEF Object
  <2>4. CASE heap[r].type = OBJECT
    BY <2>1, <2>2, <2>4 DEF Map!IsKey, IsKey, ObjectEq, OBJECT, BOX_I32, BOX_F64
  <2>5. CASE heap[r].type = BOX_I32
    BY <2>1, <2>2, <2>5 DEF Map!IsKey, IsKey, ObjectEq, OBJECT, BOX_I32, BOX_F64
  <2>6. CASE heap[r].type = BOX_F64
    BY <2>1, <2>2, <2>6 DEF Map!IsKey, IsKey, IsBoxed, ObjectEq, OBJECT, BOX_I32, BOX_F64
  <2> QED
    BY <2>3, <2>4, <2>5, <2>6
<1> QED
  BY <1>1, <1>3, <1>4, <1>5, <1>6, <1>7, <1>8, <1>9, <1>10 DEF Map!Refs, Refs

LEMMA SameIsEq ==
  ASSUME HeapOK, NEW a \in Refs, NEW b \in Refs
  PROVE  Map!Same(a, b) <=> ObjectEq(a, b)
<1>1. CASE a = NULL \/ b = NULL
  BY <1>1 DEF Map!Same, ObjectEq, NULL, Map!IsObject
<1>2. CASE a # NULL /\ b # NULL
  <2>1. a \in DOMAIN heap /\ b \in DOMAIN heap
    BY <1>2 DEF HeapOK, Refs, NULL
  <2>2. heap[a] \in Object /\ heap[b] \in Object
    BY <2>1 DEF HeapOK
  <2>3. /\ Maps[a].type = heap[a].type /\ Maps[b].type = heap[b].type
        /\ IsBoxed(a) => Maps[a] = heap[a]
        /\ IsBoxed(b) => Maps[b] = heap[b]
        /\ Map!IsObject(a) <=> heap[a].type = OBJECT
    BY <2>1, MapsRefs DEF Tables
  <2>4. heap[a].type \in {OBJECT, BOX_I32, BOX_F64}
    BY <2>2 DEF Object
  <2>5. CASE heap[a].type = OBJECT
    BY <1>2, <2>3, <2>5 DEF Map!Same, ObjectEq, NULL, OBJECT, BOX_I32, BOX_F64
  <2>6. CASE heap[a].type = BOX_I32
    BY <1>2, <2>3, <2>6 DEF Map!Same, ObjectEq, NULL, OBJECT, BOX_I32, BOX_F64, IsBoxed
  <2>7. CASE heap[a].type = BOX_F64
    BY <1>2, <2>3, <2>7 DEF Map!Same, ObjectEq, NULL, OBJECT, BOX_I32, BOX_F64, IsBoxed
  <2> QED
    BY <2>4, <2>5, <2>6, <2>7
<1> QED
  BY <1>1, <1>2

LEMMA EmptyMap == MapOf(EmptyTable) = <<>> /\ MapOf(EmptyTable)' = <<>>
<1>1. Places(EmptyTable) = {}
  <2> SUFFICES ASSUME NEW p \in Places(EmptyTable) PROVE FALSE
    OBVIOUS
  <2> QED
    BY CapAssumption DEF Places, EmptyTable
<1>2. Entries(EmptyTable) = {} /\ Entries(EmptyTable)' = {}
  <2>1. Places(EmptyTable)' = {}
    BY <1>1 DEF Places, EmptyTable
  <2> QED
    BY <1>1, <2>1 DEF Entries
<1> QED
  BY <1>2 DEF MapOf

\* A table that stays the same stays the same map.
LEMMA MapStable ==
  ASSUME HeapOK, Keeps, NEW ht, Good(ht)
  PROVE  MapOf(ht)' = MapOf(ht)
<1>0. CellsOK(ht) /\ KeysDiffer(ht)
  BY DEF Good
<1> DEFINE E == Entries(ht)
           NewKey(r) == IF heap'[r].type # OBJECT
                        THEN <<heap'[r].type, heap'[r].val>> ELSE <<OBJECT, r>>
           Holder(k) == CHOOSE e \in E : NewKey(e.key) = k
<1>1. ASSUME NEW e \in E
      PROVE  e.key \in DOMAIN heap /\ NewKey(e.key) = KeyOf(e.key)
  <2>1. e.key \in DOMAIN heap
    BY <1>0 DEF Entries, CellsOK, CellOK
  <2> QED
    BY <2>1 DEF Keeps, KeyOf, IsBoxed
<1>2. ASSUME NEW e \in E PROVE Holder(KeyOf(e.key)) = e
  <2>1. Holder(KeyOf(e.key)) \in E /\ NewKey(Holder(KeyOf(e.key)).key) = KeyOf(e.key)
    BY <1>1, ZenonT(60)
  <2> DEFINE d == Holder(KeyOf(e.key))
  <2> HIDE DEF d
  <2>2. PICK p \in Places(ht) : e = EntryAt(ht, p)
    BY SMTT(60) DEF Entries
  <2>3. PICK q \in Places(ht) : d = EntryAt(ht, q) /\ IsKey(d.key)
    <3>1. d \in Entries(ht)
      BY <2>1, ZenonT(60) DEF d
    <3> HIDE DEF E, Holder, NewKey
    <3> QED
      BY <3>1 DEF Entries
  <2>4. KeyOf(d.key) = KeyOf(e.key)
    BY <1>1, <2>1, ZenonT(60) DEF d
  <2>5. SameKey(d.key, e.key)
    BY <2>3, <2>4 DEF SameKey
  <2>6. q = p
    BY <1>0, <2>2, <2>3, <2>5 DEF KeysDiffer
  <2> QED
    BY <2>2, <2>3, <2>6, ZenonT(60) DEF d
<1>3. MapOf(ht)' = [k \in {NewKey(e.key) : e \in E} |-> Holder(k).val]
  <2>1. \A q \in Places(ht) : IsKey(EntryAt(ht, q).key)' <=> IsKey(EntryAt(ht, q).key)
    BY <1>0, KeysStable DEF CellsOK, CellOK
  <2>2. Entries(ht)' = E
    <3>1. Entries(ht)' = {EntryAt(ht, p) : p \in {q \in Places(ht) : IsKey(EntryAt(ht, q).key)'}}
      BY DEF Entries, Places, EntryAt
    <3> QED
      BY <2>1, <3>1 DEF Entries
  <2> HIDE DEF E
  <2> QED
    BY <2>2 DEF MapOf, KeyOf, IsBoxed
<1>4. {NewKey(e.key) : e \in E} = {KeyOf(e.key) : e \in E}
  BY <1>1
<1>5. /\ MapOf(ht) = [k \in DOMAIN MapOf(ht) |-> MapOf(ht)[k]]
      /\ DOMAIN MapOf(ht) = {KeyOf(e.key) : e \in E}
      /\ \A e \in E : MapOf(ht)[KeyOf(e.key)] = e.val
  BY <1>0, MapEntries
<1> HIDE DEF Holder, E, NewKey
<1> DEFINE K == {KeyOf(e.key) : e \in E}
           m == MapOf(ht)
<1>6. \A k \in K : Holder(k).val = m[k]
  BY <1>2, <1>5
<1>7. MapOf(ht)' = [k \in K |-> Holder(k).val] /\ m = [k \in K |-> m[k]]
  BY <1>3, <1>4, <1>5
<1> HIDE DEF K, m
<1> QED
  BY <1>6, <1>7 DEF m

\* An object that stays what it is does so as a map.
LEMMA MapsKept ==
  ASSUME IInv, HeapOK', Keeps, NEW r \in DOMAIN heap, heap'[r] = heap[r]
  PROVE  Maps'[r] = Maps[r]
<1>1. r \in DOMAIN heap' /\ HeapOK
  BY DEF Keeps, IInv
<1>2. CASE IsBoxed(r)
  BY <1>1, <1>2 DEF Maps, IsBoxed
<1>3. CASE ~ IsBoxed(r)
  <2>1. r \in Tables
    BY <1>3 DEF Tables, IsBoxed
  <2>2. PICK ht \in Table : ht = heap[r].val
    BY <1>1, <2>1, TableOf
  <2>3. Good(ht)
    BY <2>1, <2>2 DEF IInv
  <2>4. Maps[r] = [type |-> OBJECT, val |-> MapOf(ht)]
    BY <1>1, <2>1, <2>2, MapsRefs
  <2>5. MapOf(ht)' = MapOf(ht)
    BY <1>1, <2>3, MapStable
  <2>6. Maps'[r] = [type |-> OBJECT, val |-> MapOf(ht)']
    <3>1. ~ IsBoxed(r)' /\ heap'[r].val = ht
      BY <1>3, <2>2 DEF IsBoxed
    <3> QED
      BY <1>1, <3>1 DEF Maps, IsBoxed
  <2> QED
    BY <2>4, <2>5, <2>6
<1> QED
  BY <1>2, <1>3

LEMMA AppendIs ==
  ASSUME NEW S, NEW s \in Seq(S), NEW x \in S
  PROVE  Append(s, x) = [i \in 1..(Len(s) + 1) |-> IF i = Len(s) + 1 THEN x ELSE s[i]]
<1>1. Len(s) \in Nat
  OBVIOUS
<1> DEFINE t == Append(s, x)
<1>2. t \in Seq(S)
  OBVIOUS
<1>3. /\ Len(t) = Len(s) + 1 /\ t[Len(s) + 1] = x
      /\ \A i \in 1..Len(s) : t[i] = s[i]
  OBVIOUS
<1> HIDE DEF t
<1>4. t = [i \in 1..(Len(s) + 1) |-> t[i]]
  BY <1>1, <1>2, <1>3
<1>5. \A i \in 1..(Len(s) + 1) : t[i] = IF i = Len(s) + 1 THEN x ELSE s[i]
  BY <1>1, <1>3
<1> QED
  BY <1>4, <1>5 DEF t

\* What the map of a new object or box is.
LEMMA MapsCreate ==
  ASSUME IInv, HeapOK', Keeps, NEW type, NEW val, NEW ab,
         heap' = Append(heap, [type |-> type, val |-> val]),
         \/ type = OBJECT /\ val = EmptyTable /\ ab = <<>>
         \/ type # OBJECT /\ ab = val
  PROVE  Maps' = Append(Maps, [type |-> type, val |-> ab])
<1> DEFINE o == [type |-> type, val |-> ab]
           c == [type |-> type, val |-> val]
<1>0. PICK n \in Nat : n = Len(heap)
  BY DEF IInv, HeapOK
<1>1. HeapOK /\ n \in Nat /\ heap \in Seq(Object)
  BY DEF IInv, HeapOK
<1>2. /\ DOMAIN heap = 1..n /\ DOMAIN heap' = 1..(n + 1)
      /\ heap'[n + 1] = c /\ \A r \in 1..n : heap'[r] = heap[r]
  <2> HIDE DEF c
  <2> QED
    BY <1>0, <1>1 DEF c
<1>3. \A r \in 1..n : Maps'[r] = Maps[r]
  BY <1>2, MapsKept
<1>4. Maps' = [r \in 1..(n + 1) |-> Maps'[r]]
  BY <1>2 DEF Maps
<1>5. Maps'[n + 1] = o
  <2>1. CASE type = OBJECT
    <3>1. ~ IsBoxed(n + 1)' /\ heap'[n + 1].val = EmptyTable
      BY <1>2, <2>1 DEF IsBoxed
    <3>2. n + 1 \in DOMAIN heap'
      BY <1>1, <1>2
    <3>3. MapOf(EmptyTable)' = <<>>
      BY EmptyMap
    <3>4. EmptyTable' = EmptyTable
      BY DEF EmptyTable
    <3>5. Maps'[n + 1] = [type |-> OBJECT, val |-> MapOf(EmptyTable)']
      BY <3>1, <3>2, <3>4 DEF Maps
    <3> QED
      BY <2>1, <3>3, <3>5
  <2>2. CASE type # OBJECT
    <3>1. IsBoxed(n + 1)'
      BY <1>2, <2>2 DEF IsBoxed
    <3>2. n + 1 \in DOMAIN heap'
      BY <1>1, <1>2
    <3> QED
      BY <1>2, <2>2, <3>1, <3>2 DEF Maps
  <2> QED
    BY <2>1, <2>2
<1>6. /\ Maps \in Seq({Maps[r] : r \in DOMAIN heap}) /\ Len(Maps) = n
      /\ DOMAIN Maps = 1..n
  BY <1>0, <1>1, <1>2, MapsRefs
<1> HIDE DEF Maps, o
<1>7. \A r \in 1..(n + 1) : Maps'[r] = IF r = n + 1 THEN o ELSE Maps[r]
  BY <1>1, <1>3, <1>5
<1>8. Append(Maps, o) = [r \in 1..(n + 1) |-> IF r = n + 1 THEN o ELSE Maps[r]]
  <2> DEFINE S == {Maps[r] : r \in DOMAIN heap} \cup {o}
  <2>1. Maps \in Seq(S) /\ o \in S
    BY <1>1, <1>2, <1>6
  <2> HIDE DEF S
  <2> QED
    BY <1>6, <2>1, AppendIs
<1>9. Maps' = Append(Maps, o)
  BY <1>4, <1>7, <1>8
<1> QED
  BY <1>9 DEF o

\* What obj.set does to the maps.
LEMMA MapsSet ==
  ASSUME IInv, HeapOK', Keeps, NEW obj \in Tables, NEW key \in DOMAIN heap,
         NEW val \in Refs,
         heap' = [heap EXCEPT ![obj].val = HtInsert(@, key, val)]
  PROVE  Maps' = [Maps EXCEPT ![obj].val = Renewed(@, key, val)]
<1>1. HeapOK /\ heap \in Seq(Object) /\ obj \in DOMAIN heap /\ heap[obj].type = OBJECT
  BY DEF IInv, HeapOK, Tables
<1>2. PICK old \in Table : old = heap[obj].val
  BY <1>1, TableOf
<1>3. Good(old)
  BY <1>2 DEF IInv
<1>4. PICK new : new = HtInsert(old, key, val)
  OBVIOUS
<1>5. Good(new) /\ MapOf(new) = Renewed(MapOf(old), key, val)
  BY <1>1, <1>3, <1>4, HtInsertIsGood, HtInsertUpdates
<1>6. heap' = [heap EXCEPT ![obj] = [heap[obj] EXCEPT !.val = new]]
  BY <1>2, <1>4
<1>7. /\ DOMAIN heap' = DOMAIN heap
      /\ heap'[obj].type = OBJECT /\ heap'[obj].val = new
      /\ \A r \in DOMAIN heap : r # obj => heap'[r] = heap[r]
  <2>1. heap[obj] \in [type : {OBJECT}, val : Table]
    BY <1>1 DEF Object, OBJECT, BOX_I32, BOX_F64
  <2> QED
    BY <1>1, <1>6, <2>1
<1>8. \A r \in DOMAIN heap : r # obj => Maps'[r] = Maps[r]
  BY <1>7, MapsKept
<1>9. Maps'[obj] = [type |-> OBJECT, val |-> Renewed(MapOf(old), key, val)]
  <2>1. MapOf(new)' = MapOf(new)
    BY <1>1, <1>5, MapStable
  <2>2. ~ IsBoxed(obj)'
    BY <1>7 DEF IsBoxed
  <2>3. Maps'[obj] = [type |-> OBJECT, val |-> MapOf(new)']
    BY <1>1, <1>7, <2>2 DEF Maps
  <2> QED
    BY <1>5, <2>1, <2>3
<1>10. Maps[obj] = [type |-> OBJECT, val |-> MapOf(old)]
  BY <1>1, <1>2, MapsRefs
<1>11. /\ Maps = [r \in DOMAIN heap |-> Maps[r]]
       /\ Maps' = [r \in DOMAIN heap |-> Maps'[r]]
  BY <1>7 DEF Maps
<1> DEFINE u == Renewed(MapOf(old), key, val)
<1>12. [Maps EXCEPT ![obj].val = Renewed(@, key, val)]
         = [Maps EXCEPT ![obj] = [type |-> OBJECT, val |-> u]]
  <2>1. [Maps[obj] EXCEPT !.val = Renewed(Maps[obj].val, key, val)]
          = [type |-> OBJECT, val |-> u]
    BY <1>10
  <2> QED
    BY <2>1
<1> HIDE DEF Maps, u
<1> QED
  BY <1>1, <1>8, <1>9, <1>11, <1>12 DEF u

\* Steps keep the references, their types and the payloads of boxes.
LEMMA CreateKeeps ==
  ASSUME IInv, NEW o \in Object, heap' = Append(heap, o)
  PROVE  Keeps
<1>1. /\ heap \in Seq(Object) /\ Len(heap) \in Nat /\ DOMAIN heap = 1..Len(heap)
  BY DEF IInv, HeapOK
<1>2. /\ heap' \in Seq(Object) /\ Len(heap') = Len(heap) + 1
      /\ \A r \in 1..Len(heap) : heap'[r] = heap[r]
  BY <1>1
<1> QED
  BY <1>1, <1>2 DEF Keeps, Refs

LEMMA SetKeeps ==
  ASSUME IInv, NEW obj \in Tables, NEW key, NEW val,
         heap' = [heap EXCEPT ![obj].val = HtInsert(@, key, val)]
  PROVE  Keeps
<1>1. heap \in Seq(Object) /\ obj \in DOMAIN heap /\ heap[obj].type = OBJECT
  BY DEF IInv, HeapOK, Tables
<1>2. PICK new : new = HtInsert(heap[obj].val, key, val)
  OBVIOUS
<1>3. heap' = [heap EXCEPT ![obj] = [heap[obj] EXCEPT !.val = new]]
  BY <1>2
<1>4. heap[obj] \in [type : {OBJECT}, val : Table]
  BY <1>1 DEF Object, OBJECT, BOX_I32, BOX_F64
<1>5. /\ DOMAIN heap' = DOMAIN heap /\ Len(heap') = Len(heap)
      /\ heap'[obj].type = OBJECT
      /\ \A r \in DOMAIN heap : r # obj => heap'[r] = heap[r]
  BY <1>1, <1>3, <1>4
<1> QED
  BY <1>1, <1>5 DEF Keeps, Refs, IsBoxed

\* Objects and boxes are made as the maps are.
LEMMA CreateMakes ==
  ASSUME IInv, IInv', NEW fn, NEW args, NEW type, NEW val, NEW ab,
         Create(fn, args, type, val), [type |-> type, val |-> val] \in Object,
         \/ type = OBJECT /\ val = EmptyTable /\ ab = <<>>
         \/ type # OBJECT /\ ab = val
  PROVE  Map!Make(fn, args, [type |-> type, val |-> ab])
<1>1. heap' = Append(heap, [type |-> type, val |-> val])
  BY DEF Create
<1>2. HeapOK /\ HeapOK'
  BY DEF IInv
<1>3. Keeps
  BY <1>1, CreateKeeps
<1>4. Maps' = Append(Maps, [type |-> type, val |-> ab])
  BY <1>1, <1>2, <1>3, MapsCreate
<1>5. Len(Maps) = Len(heap) /\ Len(heap') = Len(heap) + 1
  <2> DEFINE o == [type |-> type, val |-> val]
  <2>1. heap \in Seq(Object) /\ o \in Object /\ heap' = Append(heap, o)
    BY <1>1 DEF IInv, HeapOK
  <2> HIDE DEF o
  <2> QED
    BY <1>2, <2>1, MapsRefs
<1> QED
  BY <1>4, <1>5 DEF Map!Make, Map!Answered, Create

LEMMA NewMaps == IInv /\ IInv' /\ ObjNew => Map!New
<1> SUFFICES ASSUME IInv, IInv', ObjNew PROVE Map!New
  OBVIOUS
<1>1. HeapOK /\ Create("new", <<>>, OBJECT, EmptyTable) /\ Cardinality(Tables) < MaxTables
  BY DEF IInv, ObjNew
<1>2. {r \in Map!Refs : Map!IsObject(r)} = Tables
  <2>1. Tables \subseteq Refs
    BY <1>1 DEF Tables, Refs, HeapOK
  <2> QED
    BY <1>1, <2>1, MapsRefs
<1>3. EmptyTable \in Table
  BY EmptyIsGood DEF Good, ShapeOK
<1>4. [type |-> OBJECT, val |-> EmptyTable] \in Object
  BY <1>3 DEF Object
<1>5. Map!Make("new", <<>>, [type |-> OBJECT, val |-> <<>>])
  BY <1>1, <1>4, CreateMakes
<1> QED
  BY <1>1, <1>2, <1>5 DEF Map!New, OBJECT, Cardinality, Map!Cardinality

LEMMA BoxMaps == IInv /\ IInv' /\ (ObjBoxI32 \/ ObjBoxF64) => Map!Box
<1> SUFFICES ASSUME IInv, IInv', ObjBoxI32 \/ ObjBoxF64 PROVE Map!Box
  OBVIOUS
<1>1. CASE ObjBoxI32
  <2>1. PICK v \in I32 : Create("box_i32", <<v>>, BOX_I32, v)
    BY <1>1 DEF ObjBoxI32
  <2>2. [type |-> BOX_I32, val |-> v] \in Object /\ BOX_I32 # OBJECT
    BY DEF Object, OBJECT, BOX_I32
  <2>3. Map!Make("box_i32", <<v>>, [type |-> BOX_I32, val |-> v])
    BY <2>1, <2>2, CreateMakes
  <2> QED
    BY <2>3 DEF Map!Box, BOX_I32
<1>2. CASE ObjBoxF64
  <2>1. PICK v \in F64 : Create("box_f64", <<v>>, BOX_F64, v)
    BY <1>2 DEF ObjBoxF64
  <2>2. [type |-> BOX_F64, val |-> v] \in Object /\ BOX_F64 # OBJECT
    BY DEF Object, OBJECT, BOX_F64
  <2>3. Map!Make("box_f64", <<v>>, [type |-> BOX_F64, val |-> v])
    BY <2>1, <2>2, CreateMakes
  <2> QED
    BY <2>3 DEF Map!Box, BOX_F64
<1> QED
  BY <1>1, <1>2

\* A heap that stays the same stays the same maps.
LEMMA SameMaps ==
  ASSUME IInv, IInv', heap' = heap PROVE Maps' = Maps
<1>1. HeapOK /\ HeapOK' /\ Keeps
  BY DEF IInv, Keeps, Refs
<1>2. \A r \in DOMAIN heap : Maps'[r] = Maps[r]
  BY <1>1, MapsKept
<1>3. /\ Maps = [r \in DOMAIN heap |-> Maps[r]]
      /\ Maps' = [r \in DOMAIN heap |-> Maps'[r]]
  BY DEF Maps
<1> HIDE DEF Maps
<1> QED
  BY <1>2, <1>3

\* The accesses that trap are the ones that fail.
LEMMA AccessMaps ==
  ASSUME HeapOK, NEW obj \in Refs, NEW key \in Refs
  PROVE  /\ BadAccess(obj, key) <=> ~ Map!IsObject(obj) \/ key = 0
         /\ ~ BadAccess(obj, key) => obj \in Tables /\ key \in DOMAIN heap
<1>1. Map!IsObject(obj) <=> obj \in Tables
  BY MapsRefs
<1> QED
  BY <1>1 DEF HeapOK, Refs, Tables, BadAccess, IsBoxed, NULL

LEMMA GetMaps == IInv /\ IInv' /\ ObjGet => Map!Next
<1> SUFFICES ASSUME IInv, IInv', ObjGet PROVE Map!Next
  OBVIOUS
<1>1. PICK obj \in Refs, key \in Refs :
        IF BadAccess(obj, key) THEN DoTrap("get", <<obj, key>>)
        ELSE Yield("get", <<obj, key>>, HtFind(heap[obj].val, key))
  BY DEF ObjGet
<1>2. HeapOK /\ ~ trapped /\ heap' = heap
  BY <1>1 DEF IInv, ObjGet, DoTrap, Yield
<1>3. Maps' = Maps /\ Map!Refs = Refs
  BY <1>2, SameMaps, MapsRefs
<1>4. CASE BadAccess(obj, key)
  <2>1. DoTrap("get", <<obj, key>>)
    BY <1>1, <1>4
  <2>2. Map!Answered("get", <<obj, key>>, 0) /\ trapped' = TRUE
    BY <2>1 DEF DoTrap, Map!Answered, NULL
  <2>3. ~ Map!IsObject(obj) \/ key = 0
    BY <1>2, <1>4, AccessMaps
  <2>4. Map!Fails
    BY <1>3, <2>2, <2>3 DEF Map!Fails
  <2> QED
    BY <1>2, <2>2, <2>4 DEF Map!Next
<1>5. CASE ~ BadAccess(obj, key)
  <2>1. Yield("get", <<obj, key>>, HtFind(heap[obj].val, key))
    BY <1>1, <1>5
  <2>2. Map!IsObject(obj) /\ key # 0 /\ obj \in Tables /\ key \in DOMAIN heap
    BY <1>2, <1>5, AccessMaps
  <2>3. Good(heap[obj].val)
    BY <2>2, TablesGood
  <2>4. Maps[obj].val = MapOf(heap[obj].val) /\ Map!Key(key) = KeyOf(key)
    <3>1. Maps[obj] = [type |-> OBJECT, val |-> MapOf(heap[obj].val)]
      BY <1>2, <2>2, MapsRefs
    <3> HIDE DEF Maps
    <3> QED
      BY <1>2, <2>2, <3>1, MapsRefs
  <2>5. HtFind(heap[obj].val, key)
          = IF KeyOf(key) \in DOMAIN MapOf(heap[obj].val)
            THEN MapOf(heap[obj].val)[KeyOf(key)] ELSE 0
    BY <1>2, <2>2, <2>3, HtFindLooksUp
  <2>6. Map!Get(obj, key) /\ trapped' = trapped
    BY <1>3, <2>1, <2>4, <2>5 DEF Map!Get, Map!Answered, Yield
  <2>7. Map!Works
    BY <1>3, <2>2, <2>6 DEF Map!Works
  <2> QED
    BY <1>2, <2>6, <2>7 DEF Map!Next
<1> QED
  BY <1>4, <1>5

LEMMA SetMaps == IInv /\ IInv' /\ ObjSet => Map!Next
<1> SUFFICES ASSUME IInv, IInv', ObjSet PROVE Map!Next
  OBVIOUS
<1>1. PICK obj \in Refs, key \in Refs, val \in Refs \cap Stored :
        IF BadAccess(obj, key) THEN DoTrap("set", <<obj, key, val>>)
        ELSE /\ HtInsert(heap[obj].val, key, val).num_elems <= MaxEntries
             /\ heap' = [heap EXCEPT ![obj].val = HtInsert(@, key, val)]
             /\ call' = [fn |-> "set", args |-> <<obj, key, val>>, result |-> NULL]
             /\ UNCHANGED trapped
  BY DEF ObjSet
<1>2. HeapOK /\ HeapOK' /\ ~ trapped /\ Map!Refs = Refs
  BY MapsRefs DEF IInv, ObjSet
<1>3. CASE BadAccess(obj, key)
  <2>1. DoTrap("set", <<obj, key, val>>)
    BY <1>1, <1>3
  <2>2. Map!Answered("set", <<obj, key, val>>, 0) /\ trapped' = TRUE /\ Maps' = Maps
    BY <2>1, SameMaps DEF DoTrap, Map!Answered, NULL
  <2>3. ~ Map!IsObject(obj) \/ key = 0
    BY <1>2, <1>3, AccessMaps
  <2>4. Map!Fails
    BY <1>2, <2>2, <2>3 DEF Map!Fails
  <2> QED
    BY <1>2, <2>2, <2>4 DEF Map!Next
<1>4. CASE ~ BadAccess(obj, key)
  <2>1. /\ heap' = [heap EXCEPT ![obj].val = HtInsert(@, key, val)]
        /\ call' = [fn |-> "set", args |-> <<obj, key, val>>, result |-> NULL]
        /\ trapped' = trapped
    BY <1>1, <1>4
  <2>2. Map!IsObject(obj) /\ key # 0 /\ obj \in Tables /\ key \in DOMAIN heap
    BY <1>2, <1>4, AccessMaps
  <2>3. Keeps
    BY <2>1, <2>2, SetKeeps
  <2>4. Maps' = [Maps EXCEPT ![obj].val = Renewed(@, key, val)]
    BY <1>2, <2>1, <2>2, <2>3, MapsSet
  <2>5. Map!Key(key) = KeyOf(key) /\ (Map!IsKey(key) <=> IsKey(key))
    BY <1>2, <2>2, MapsRefs
  <2>6. Map!Set(obj, key, val)
    <3>1. Map!Answered("set", <<obj, key, val>>, 0)
      BY <2>1 DEF Map!Answered, NULL
    <3>2. CASE IsKey(key)
      BY <2>4, <2>5, <3>1, <3>2 DEF Map!Set, Updated, Renewed
    <3>3. CASE ~ IsKey(key)
      <4>1. Maps' = [Maps EXCEPT ![obj].val = @]
        BY <2>4, <3>3 DEF Renewed
      <4>2. [Maps EXCEPT ![obj].val = @] = Maps
        <5>1. /\ Maps[obj] = [type |-> OBJECT, val |-> MapOf(heap[obj].val)]
              /\ DOMAIN Maps = DOMAIN heap
          BY <1>2, <2>2, MapsRefs
        <5>2. Maps = [r \in DOMAIN heap |-> Maps[r]]
          BY DEF Maps
        <5> HIDE DEF Maps
        <5> QED
          BY <5>1, <5>2
      <4> QED
        BY <2>5, <3>1, <3>3, <4>1, <4>2 DEF Map!Set
    <3> QED
      BY <3>2, <3>3
  <2>7. Map!Works
    BY <1>2, <2>2, <2>6 DEF Map!Works
  <2> QED
    BY <1>2, <2>1, <2>7 DEF Map!Next
<1> QED
  BY <1>3, <1>4

LEMMA UnboxMaps ==
  ASSUME IInv, IInv', NEW type \in {BOX_I32, BOX_F64}, Unbox(type) PROVE Map!Next
<1>1. PICK obj \in Refs :
        IF obj = NULL \/ heap[obj].type # type THEN DoTrap(type, <<obj>>)
        ELSE Yield(type, <<obj>>, heap[obj].val)
  BY DEF Unbox
<1>2. /\ HeapOK /\ ~ trapped /\ Map!Refs = Refs
      /\ type \in {"i32", "f64"} /\ type # OBJECT
  BY MapsRefs DEF IInv, Unbox, OBJECT, BOX_I32, BOX_F64
<1>3. obj # 0 => obj \in DOMAIN heap
  BY <1>2 DEF HeapOK, Refs
<1>4. obj # 0 => Maps[obj].type = heap[obj].type
  BY <1>2, <1>3, MapsRefs
<1>5. CASE obj = NULL \/ heap[obj].type # type
  <2>1. DoTrap(type, <<obj>>)
    BY <1>1, <1>5, Zenon
  <2>2. Map!Answered(type, <<obj>>, 0) /\ trapped' = TRUE /\ Maps' = Maps
    BY <2>1, SameMaps DEF DoTrap, Map!Answered, NULL
  <2>3. obj = 0 \/ Maps[obj].type # type
    BY <1>4, <1>5 DEF NULL
  <2>4. Map!Fails
    BY <1>2, <2>2, <2>3 DEF Map!Fails
  <2> QED
    BY <1>2, <2>2, <2>4 DEF Map!Next
<1>6. CASE ~ (obj = NULL \/ heap[obj].type # type)
  <2>1. Yield(type, <<obj>>, heap[obj].val)
    BY <1>1, <1>6, Zenon
  <2>2. Maps' = Maps /\ trapped' = trapped
    BY <2>1, SameMaps DEF Yield
  <2>3. obj # 0 /\ heap[obj].type = type
    BY <1>6 DEF NULL
  <2>4. Maps[obj] = heap[obj] /\ ~ Map!IsObject(obj)
    <3>1. IsBoxed(obj) /\ obj \notin Tables
      BY <1>2, <2>3 DEF IsBoxed, Tables
    <3> QED
      BY <1>2, <1>3, <2>3, <3>1, MapsRefs
  <2>5. Map!Unbox(obj)
    BY <2>1, <2>2, <2>3, <2>4 DEF Map!Unbox, Map!Answered, Yield
  <2>6. Map!Works
    BY <1>2, <2>3, <2>4, <2>5 DEF Map!Works
  <2> QED
    BY <1>2, <2>2, <2>6 DEF Map!Next
<1> QED
  BY <1>5, <1>6

LEMMA EqMaps == IInv /\ IInv' /\ ObjEq => Map!Next
<1> SUFFICES ASSUME IInv, IInv', ObjEq PROVE Map!Next
  OBVIOUS
<1>1. PICK a \in Refs, b \in Refs :
        Yield("eq", <<a, b>>, IF ObjectEq(a, b) THEN 1 ELSE 0)
  BY DEF ObjEq
<1>2. HeapOK /\ ~ trapped /\ Map!Refs = Refs
  BY MapsRefs DEF IInv, ObjEq
<1>3. Maps' = Maps /\ trapped' = trapped
  BY <1>1, SameMaps DEF Yield
<1>4. Map!Same(a, b) <=> ObjectEq(a, b)
  BY <1>2, SameIsEq
<1>5. (IF Map!Same(a, b) THEN 1 ELSE 0) = (IF ObjectEq(a, b) THEN 1 ELSE 0)
  BY <1>4
<1>6. Map!Eq(a, b)
  BY <1>1, <1>3, <1>5 DEF Map!Eq, Map!Answered, Yield
<1>7. Map!Works
  BY <1>2, <1>6 DEF Map!Works
<1> QED
  BY <1>2, <1>3, <1>7 DEF Map!Next

LEMMA MapsInit == Init => Map!Init
BY DEF Init, Map!Init, Maps, NULL

LEMMA MapsNext == IInv /\ IInv' /\ [Next]_vars => [Map!Next]_(Map!vars)
<1> SUFFICES ASSUME IInv, IInv', [Next]_vars PROVE [Map!Next]_(Map!vars)
  OBVIOUS
<1>1. ASSUME Map!New \/ Map!Box, ~ trapped, trapped' = trapped PROVE Map!Next
  BY <1>1 DEF Map!Works, Map!Next
<1>2. CASE ObjNew
  BY <1>1, <1>2, NewMaps DEF ObjNew, Create
<1>3. CASE ObjBoxI32 \/ ObjBoxF64
  BY <1>1, <1>3, BoxMaps DEF ObjBoxI32, ObjBoxF64, Create
<1>4. CASE ObjGet
  BY <1>4, GetMaps
<1>5. CASE ObjSet
  BY <1>5, SetMaps
<1>6. CASE Unbox(BOX_I32) \/ Unbox(BOX_F64)
  BY <1>6, UnboxMaps
<1>7. CASE ObjEq
  BY <1>7, EqMaps
<1>8. CASE UNCHANGED vars
  BY <1>8, SameMaps DEF vars, Map!vars
<1> QED
  BY <1>2, <1>3, <1>4, <1>5, <1>6, <1>7, <1>8 DEF Next

\* native.c and object.c keep what objects promise: whatever the table of an
\* object went through, obj.get returns what was last stored under the key.  Keys
\* are objects by identity and boxes by type and value, a double by its bits: the
\* two zeros are different keys, and what is stored under a NaN is never found.
THEOREM ObjectsAreMaps == Spec => ImplementsMap
<1>1. Spec => []IInv
  BY Inductive
<1>2. Init => Map!Init
  BY MapsInit
<1>3. IInv /\ IInv' /\ [Next]_vars => [Map!Next]_(Map!vars)
  BY MapsNext
<1> QED
  BY <1>1, <1>2, <1>3, PTL DEF Spec, ImplementsMap, Map!Spec
=============================================================================
