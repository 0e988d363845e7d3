---------------------------- MODULE Weedis_proofs ----------------------------
(***************************************************************************)
(* The code section loader is right for sections of any size.              *)
(*                                                                         *)
(* First the bodies as such: InstrStarts' instructions lie side by side,   *)
(* an instruction changes the nesting and the number of the next block by  *)
(* at most one, and the blocks that are open at an instruction, one per    *)
(* depth, are those whose `end' is not before it.  Then what decode_expr   *)
(* keeps: its stack and its table are, at every instruction, what the body *)
(* before it determines (LInv), which says where each offset leads.        *)
(*                                                                         *)
(* That the stack is read only where it was written, BlocksStayNumbered,   *)
(* holds of every code section; the rest needs ImagesAssumption, that the  *)
(* section is one of a validated module.                                   *)
(***************************************************************************)
EXTENDS Weedis, TLAPS, WellFoundedInduction, FiniteSetTheorems

-----------------------------------------------------------------------------
LEMMA Least ==
  ASSUME NEW M \in SUBSET Nat, M # {}
  PROVE  \E n \in M : \A m \in M : n <= m
<1>1. IsWellFoundedOn(OpToRel(<, Nat), Nat)
  BY NatLessThanWellFounded
<1>2. PICK n \in M : \A m \in M : ~ (<<m, n>> \in OpToRel(<, Nat))
  BY <1>1, WFMin
<1>3. \A m \in M : ~ (m < n)
  BY <1>2 DEF OpToRel
<1> QED
  BY <1>3

\* Induction up to N: a set with 0 that has k if it has k - 1 has all of 0..N.
LEMMA UpTo ==
  ASSUME NEW N \in Nat, NEW T, 0 \in T, \A k \in 1..N : k - 1 \in T => k \in T
  PROVE  0..N \subseteq T
<1> DEFINE M == (0..N) \ T
<1> SUFFICES ASSUME M # {} PROVE FALSE
  OBVIOUS
<1>1. M \in SUBSET Nat
  OBVIOUS
<1> HIDE DEF M
<1>2. PICK n \in M : \A m \in M : n <= m
  BY <1>1, Least
<1> USE DEF M
<1>3. n \in 1..N
  OBVIOUS
<1>4. n - 1 \in T
  BY <1>2, <1>3
<1> QED
  BY <1>3, <1>4

-----------------------------------------------------------------------------
(***************************************************************************)
(* The instructions of a body.                                             *)
(***************************************************************************)

\* An instruction reaches to the next one, and its labels lie in between.
LEMMA Instruction ==
  ASSUME NEW c, NEW p \in Nat, c[p] = WASM_OP_BR_TABLE => c[p + 1] \in Nat
  PROVE  /\ NextInstr(c, p) \in Nat /\ p < NextInstr(c, p)
         /\ LabelSlots(c, p) \subseteq (p + 1)..(NextInstr(c, p) - 1)
         /\ c[p] \in BlockOps \cup {WASM_OP_BR, WASM_OP_BR_IF} => NextInstr(c, p) = p + 2
         /\ c[p] = WASM_OP_END => NextInstr(c, p) = p + 1
         /\ c[p] = WASM_OP_BR_TABLE => NextInstr(c, p) = p + 3 + c[p + 1]
<1>1. CASE c[p] = WASM_OP_BR_TABLE
  BY <1>1 DEF NextInstr, Immediates, LabelSlots, BlockOps, LocalOps, GlobalOps, ConstOps,
     LoadOps, StoreOps, WASM_OP_BR, WASM_OP_BR_IF, WASM_OP_CALL, WASM_OP_CALL_INDIRECT,
     WASM_OP_BR_TABLE, WASM_OP_END, WASM_OP_BLOCK, WASM_OP_LOOP, WASM_OP_LOCAL_GET,
     WASM_OP_LOCAL_SET, WASM_OP_LOCAL_TEE, WASM_OP_GLOBAL_GET, WASM_OP_GLOBAL_SET,
     WASM_OP_I32_CONST, WASM_OP_F64_CONST
<1>2. CASE c[p] \in BlockOps \cup {WASM_OP_BR, WASM_OP_BR_IF}
  BY <1>2 DEF NextInstr, Immediates, LabelSlots, BlockOps, LoadOps, StoreOps, WASM_OP_BR,
     WASM_OP_BR_IF, WASM_OP_CALL_INDIRECT, WASM_OP_BR_TABLE, WASM_OP_END, WASM_OP_BLOCK,
     WASM_OP_LOOP
<1>3. CASE c[p] = WASM_OP_END
  BY <1>3 DEF NextInstr, Immediates, LabelSlots, BlockOps, LocalOps, GlobalOps, ConstOps,
     LoadOps, StoreOps, WASM_OP_BR, WASM_OP_BR_IF, WASM_OP_CALL, WASM_OP_CALL_INDIRECT,
     WASM_OP_BR_TABLE, WASM_OP_END, WASM_OP_BLOCK, WASM_OP_LOOP, WASM_OP_LOCAL_GET,
     WASM_OP_LOCAL_SET, WASM_OP_LOCAL_TEE, WASM_OP_GLOBAL_GET, WASM_OP_GLOBAL_SET,
     WASM_OP_I32_CONST, WASM_OP_F64_CONST
<1>4. CASE c[p] \notin BlockOps \cup {WASM_OP_BR, WASM_OP_BR_IF, WASM_OP_BR_TABLE, WASM_OP_END}
  <2>1. Immediates(c, p) \in {0, 1, 2}
    BY <1>4 DEF Immediates
  <2>2. LabelSlots(c, p) = {}
    BY <1>4 DEF LabelSlots
  <2> QED
    BY <1>4, <2>1, <2>2 DEF NextInstr
<1> QED
  BY <1>1, <1>2, <1>3, <1>4

\* The walk over the body that InstrStarts takes.
Walk(at, c, s, e) ==
  /\ at[0] = s
  /\ \A k \in 1..(e - s) : at[k] = IF at[k - 1] >= e THEN e ELSE NextInstr(c, at[k - 1])
  /\ InstrStarts(c, s, e) = {at[k] : k \in 0..(e - s)} \ {e}

LEMMA WalkExists ==
  ASSUME NEW c, NEW s \in Nat, NEW e \in Nat, s < e
  PROVE  \E at : Walk(at, c, s, e)
<1> DEFINE N == e - s
           After(p) == IF p >= e THEN e ELSE NextInstr(c, p)
           Good(at, k) == at = [j \in 0..k |-> IF j = 0 THEN s ELSE After(at[j - 1])]
           T == {k \in 0..N : \E at : Good(at, k)}
<1>1. N \in Nat
  OBVIOUS
<1>2. 0 \in T
  <2> DEFINE at == [j \in 0..0 |-> s]
  <2>1. Good(at, 0)
    OBVIOUS
  <2> HIDE DEF at, Good
  <2> QED
    BY <1>1, <2>1
<1>3. ASSUME NEW k \in 1..N, k - 1 \in T PROVE k \in T
  <2>1. PICK r : Good(r, k - 1)
    BY <1>3
  <2> DEFINE at == [j \in 0..k |-> IF j = k THEN After(r[k - 1]) ELSE r[j]]
  <2>2. \A j \in 0..(k - 1) : r[j] = IF j = 0 THEN s ELSE After(r[j - 1])
    BY <2>1
  <2> HIDE DEF After
  <2>3. ASSUME NEW j \in 0..k PROVE at[j] = IF j = 0 THEN s ELSE After(at[j - 1])
    <3>1. CASE j = k
      BY <3>1
    <3>2. CASE j # k
      BY <2>2, <3>2
    <3> QED
      BY <3>1, <3>2
  <2>4. at = [j \in 0..k |-> at[j]]
    OBVIOUS
  <2> HIDE DEF at
  <2>5. Good(at, k)
    BY <2>3, <2>4
  <2> QED
    BY <2>5
<1> HIDE DEF Good
<1>4. N \in T
  <2> HIDE DEF T, N
  <2>1. 0..N \subseteq T
    BY <1>1, <1>2, <1>3, UpTo
  <2> QED
    BY <1>1, <2>1
<1> DEFINE at == CHOOSE at : Good(at, N)
<1>5. Good(at, N)
  BY <1>4
<1>6. InstrStarts(c, s, e) = {at[j] : j \in 0..N} \ {e}
  BY DEF InstrStarts, Good
<1> HIDE DEF at
<1>7. \A j \in 0..N : at[j] = IF j = 0 THEN s ELSE After(at[j - 1])
  BY <1>5 DEF Good
<1>8. Walk(at, c, s, e)
  BY <1>1, <1>6, <1>7 DEF Walk
<1> QED
  BY <1>8


\* What the induction needs of a body: the instructions stay inside.
Closed(c, s, e) ==
  \A p \in InstrStarts(c, s, e) :
    /\ c[p] = WASM_OP_BR_TABLE => c[p + 1] \in Nat
    /\ NextInstr(c, p) <= e

\* The instructions lie side by side from s to e.
Consecutive(c, I, s, e) ==
  /\ s \in I /\ I \subseteq s..(e - 1)
  /\ \A p \in I : /\ NextInstr(c, p) \in I \cup {e}
                  /\ p < NextInstr(c, p)
                  /\ LabelSlots(c, p) \subseteq (p + 1)..(NextInstr(c, p) - 1)
  /\ \A p, q \in I : p < q => NextInstr(c, p) <= q
  /\ \A q \in (I \cup {e}) \ {s} : \E p \in I : NextInstr(c, p) = q

LEMMA InstrsConsecutive ==
  ASSUME NEW c, NEW s \in Nat, NEW e \in Nat, s < e, Closed(c, s, e)
  PROVE  Consecutive(c, InstrStarts(c, s, e), s, e)
<1> DEFINE N == e - s
           I == InstrStarts(c, s, e)
<1>0. PICK at : Walk(at, c, s, e)
  BY WalkExists
<1>1. I = {at[k] : k \in 0..N} \ {e}
  BY <1>0 DEF Walk
<1>2. /\ N \in Nat \ {0} /\ at[0] = s
      /\ \A k \in 1..N : at[k] = IF at[k - 1] >= e THEN e ELSE NextInstr(c, at[k - 1])
  BY <1>0 DEF Walk
<1>3. ASSUME NEW p \in I, p \in Nat
      PROVE  /\ NextInstr(c, p) \in Nat /\ p < NextInstr(c, p) /\ NextInstr(c, p) <= e
             /\ LabelSlots(c, p) \subseteq (p + 1)..(NextInstr(c, p) - 1)
  <2>1. c[p] = WASM_OP_BR_TABLE => c[p + 1] \in Nat
    BY DEF Closed
  <2>2. NextInstr(c, p) <= e
    BY DEF Closed
  <2> QED
    BY <1>3, <2>1, <2>2, Instruction
<1> HIDE DEF I, N
\* The walk goes on to e and stays there.
<1> DEFINE T == {k \in 0..N : at[k] \in s..e /\ (at[k] = e \/ at[k] >= s + k)}
<1>4. \A k \in 0..N : at[k] \in s..e /\ (at[k] = e \/ at[k] >= s + k)
  <2>1. 0 \in T
    BY <1>2
  <2>2. ASSUME NEW k \in 1..N, k - 1 \in T PROVE k \in T
    <3>1. /\ k - 1 \in 0..N /\ at[k - 1] \in s..e
          /\ at[k - 1] = e \/ at[k - 1] >= s + (k - 1)
          /\ at[k] = IF at[k - 1] >= e THEN e ELSE NextInstr(c, at[k - 1])
      BY <1>2, <2>2
    <3>2. CASE at[k - 1] = e
      BY <1>2, <3>1, <3>2
    <3>3. CASE at[k - 1] # e
      <4>1. at[k - 1] \in I /\ at[k - 1] \in Nat
        BY <1>1, <3>1, <3>3
      <4>2. at[k] = NextInstr(c, at[k - 1])
        BY <3>1, <3>3
      <4>3. at[k] \in Nat /\ at[k - 1] < at[k] /\ at[k] <= e
        BY <1>3, <4>1, <4>2
      <4> QED
        BY <1>2, <3>1, <3>3, <4>3
    <3> QED
      BY <3>2, <3>3
  <2> HIDE DEF T
  <2>3. 0..N \subseteq T
    BY <1>2, <2>1, <2>2, UpTo
  <2> QED
    BY <2>3 DEF T
<1>5. at[N] = e
  <2>1. N \in 0..N /\ s + N = e
    BY <1>2 DEF N
  <2> QED
    BY <1>4, <2>1
<1>6. ASSUME NEW k \in 1..N
      PROVE  /\ at[k - 1] \in s..e /\ at[k] \in s..e
             /\ at[k - 1] <= at[k]
             /\ at[k - 1] # e => at[k - 1] \in I /\ at[k] = NextInstr(c, at[k - 1])
             /\ at[k - 1] = e => at[k] = e
  <2>1. k - 1 \in 0..N /\ at[k - 1] \in s..e /\ at[k] \in s..e
    BY <1>2, <1>4
  <2>2. CASE at[k - 1] = e
    BY <1>2, <2>1, <2>2
  <2>3. CASE at[k - 1] # e
    <3>1. at[k - 1] \in I /\ at[k - 1] \in Nat /\ at[k] = NextInstr(c, at[k - 1])
      BY <1>1, <1>2, <2>1, <2>3
    <3> QED
      BY <1>3, <2>1, <2>3, <3>1
  <2> QED
    BY <2>2, <2>3
<1>7. \A j \in 0..N : \A k \in j..N : at[j] <= at[k]
  <2> TAKE j \in 0..N
  <2> DEFINE U == {k \in 0..N : k >= j => at[j] <= at[k]}
  <2>1. 0 \in U
    BY <1>2, <1>4
  <2>2. ASSUME NEW k \in 1..N, k - 1 \in U PROVE k \in U
    <3>1. CASE k >= j /\ k # j
      <4>1. k - 1 \in 0..N /\ k - 1 >= j
        BY <1>2, <3>1
      <4>2. at[j] <= at[k - 1] /\ at[k - 1] <= at[k]
        BY <1>6, <2>2, <4>1
      <4> QED
        BY <1>2, <1>4, <1>6, <4>2
    <3>2. CASE ~ (k >= j /\ k # j)
      BY <1>2, <1>4, <3>2
    <3> QED
      BY <3>1, <3>2
  <2> HIDE DEF U
  <2>3. 0..N \subseteq U
    BY <1>2, <2>1, <2>2, UpTo
  <2> QED
    BY <1>2, <2>3 DEF U
<1>8. ASSUME NEW p \in I
      PROVE  \E k \in 1..N : p = at[k - 1] /\ at[k] = NextInstr(c, p) /\ p \in s..(e - 1)
  <2>1. PICK j \in 0..N : p = at[j] /\ p # e
    BY <1>1
  <2>2. j # N /\ p \in s..(e - 1)
    BY <1>4, <1>5, <2>1
  <2>3. j + 1 \in 1..N /\ (j + 1) - 1 = j
    BY <1>2, <2>2
  <2>4. at[j + 1] = NextInstr(c, p)
    BY <1>6, <2>1, <2>3
  <2> QED
    BY <2>1, <2>2, <2>3, <2>4
<1>9. s \in I
  BY <1>1, <1>2
<1>10. I \subseteq s..(e - 1)
  BY <1>8
<1>11. ASSUME NEW p \in I
       PROVE  /\ NextInstr(c, p) \in I \cup {e}
              /\ p < NextInstr(c, p)
              /\ LabelSlots(c, p) \subseteq (p + 1)..(NextInstr(c, p) - 1)
  <2>1. p \in Nat
    BY <1>10
  <2>2. PICK k \in 1..N : p = at[k - 1] /\ at[k] = NextInstr(c, p)
    BY <1>8
  <2>3. NextInstr(c, p) \in I \cup {e}
    BY <1>1, <1>2, <2>2
  <2> QED
    BY <1>3, <2>1, <2>3
<1>12. ASSUME NEW p \in I, NEW q \in I, p < q PROVE NextInstr(c, p) <= q
  <2>1. PICK k \in 1..N : p = at[k - 1] /\ at[k] = NextInstr(c, p) /\ p \in s..(e - 1)
    BY <1>8
  <2>2. PICK j \in 1..N : q = at[j - 1] /\ q \in s..(e - 1)
    BY <1>8
  <2>3. k - 1 \in 0..N /\ j - 1 \in 0..N
    BY <1>2
  <2>4. CASE j - 1 >= k
    <3>1. k \in 0..N /\ j - 1 \in k..N
      BY <1>2, <2>3, <2>4
    <3>2. at[k] <= at[j - 1]
      BY <1>7, <3>1
    <3> QED
      BY <2>1, <2>2, <3>2
  <2>5. CASE j - 1 < k
    <3>1. k - 1 \in (j - 1)..N
      BY <1>2, <2>3, <2>5
    <3>2. at[j - 1] <= at[k - 1]
      BY <1>7, <2>3, <3>1
    <3> QED
      BY <1>12, <2>1, <2>2, <3>2
  <2> QED
    BY <1>2, <2>4, <2>5
<1>13. ASSUME NEW q \in (I \cup {e}) \ {s} PROVE \E p \in I : NextInstr(c, p) = q
  <2> DEFINE U == {k \in 0..N : at[k] = q => \E p \in I : NextInstr(c, p) = q}
  <2>1. 0 \in U
    BY <1>2, <1>13
  <2>2. ASSUME NEW k \in 1..N, k - 1 \in U PROVE k \in U
    <3>1. CASE at[k - 1] = e
      BY <1>6, <2>2, <3>1
    <3>2. CASE at[k - 1] # e
      BY <1>6, <3>2
    <3> QED
      BY <3>1, <3>2
  <2> HIDE DEF U
  <2>3. 0..N \subseteq U
    BY <1>2, <2>1, <2>2, UpTo
  <2>4. PICK k \in 0..N : at[k] = q
    <3>1. CASE q = e
      BY <1>2, <1>5, <3>1
    <3>2. CASE q # e
      BY <1>1, <1>13, <3>2
    <3> QED
      BY <3>1, <3>2
  <2> QED
    BY <2>3, <2>4 DEF U
<1> QED
  BY <1>9, <1>10, <1>11, <1>12, <1>13 DEF Consecutive, I

-----------------------------------------------------------------------------
(***************************************************************************)
(* Blocks: how deep they nest, where they end, and their numbers.          *)
(***************************************************************************)
Before(I, p) == {q \in I : q < p}

\* The static number decode_expr gives to the block at b.
Num(c, I, b) == 1 + Cardinality(Opens(c, Before(I, b)))

Body(c, I, s, e) ==
  /\ s \in Nat /\ e \in Nat
  /\ Consecutive(c, I, s, e)
  /\ \A p \in I : Nesting(c, I, NextInstr(c, p)) = 0 <=> NextInstr(c, p) = e

\* The addresses of a body are natural numbers.
LEMMA Addresses ==
  ASSUME NEW c, NEW I, NEW s, NEW e, Body(c, I, s, e)
  PROVE  /\ s \in Nat /\ e \in Nat /\ s \in I
         /\ \A p \in I : /\ p \in Nat /\ s <= p /\ p < e
                         /\ NextInstr(c, p) \in I \cup {e} /\ p < NextInstr(c, p)
                         /\ NextInstr(c, p) \in Nat /\ NextInstr(c, p) <= e
         /\ \A p, q \in I : p < q => NextInstr(c, p) <= q
         /\ \A q \in (I \cup {e}) \ {s} : \E p \in I : NextInstr(c, p) = q
<1>1. s \in Nat /\ e \in Nat /\ I \subseteq s..(e - 1) /\ s \in I
  BY DEF Body, Consecutive
<1>2. ASSUME NEW p \in I
      PROVE  /\ p \in Nat /\ s <= p /\ p < e
             /\ NextInstr(c, p) \in I \cup {e} /\ p < NextInstr(c, p)
             /\ NextInstr(c, p) \in Nat /\ NextInstr(c, p) <= e
  <2>1. p \in s..(e - 1) /\ p \in Nat /\ s <= p /\ p < e
    BY <1>1
  <2>2. NextInstr(c, p) \in I \cup {e} /\ p < NextInstr(c, p)
    BY DEF Body, Consecutive
  <2>3. CASE NextInstr(c, p) = e
    BY <1>1, <2>1, <2>2, <2>3
  <2>4. CASE NextInstr(c, p) \in I
    <3>1. NextInstr(c, p) \in s..(e - 1)
      BY <1>1, <2>4
    <3> QED
      BY <1>1, <2>1, <2>2, <3>1
  <2> QED
    BY <2>2, <2>3, <2>4
<1>3. /\ \A p, q \in I : p < q => NextInstr(c, p) <= q
      /\ \A q \in (I \cup {e}) \ {s} : \E p \in I : NextInstr(c, p) = q
  BY DEF Body, Consecutive
<1> QED
  BY <1>1, <1>2, <1>3

LEMMA Counted ==
  ASSUME NEW c, NEW I, NEW s, NEW e, Body(c, I, s, e), NEW p \in Int
  PROVE  /\ IsFiniteSet(I)
         /\ IsFiniteSet(Opens(c, Before(I, p))) /\ IsFiniteSet(Closes(c, Before(I, p)))
         /\ Cardinality(Opens(c, Before(I, p))) \in Nat
         /\ Cardinality(Closes(c, Before(I, p))) \in Nat
         /\ Nesting(c, I, p) = 1 + Cardinality(Opens(c, Before(I, p)))
                                 - Cardinality(Closes(c, Before(I, p)))
         /\ Nesting(c, I, p) \in Int
         /\ Num(c, I, p) \in Nat \ {0}
<1>1. IsFiniteSet(I)
  <2>1. I \subseteq s..(e - 1) /\ s \in Int /\ e - 1 \in Int
    BY DEF Body, Consecutive
  <2>2. IsFiniteSet(s..(e - 1))
    BY <2>1, FS_Interval
  <2> QED
    BY <2>1, <2>2, FS_Subset
<1>2. Opens(c, Before(I, p)) \subseteq I /\ Closes(c, Before(I, p)) \subseteq I
  BY DEF Opens, Closes, Before
<1>3. /\ IsFiniteSet(Opens(c, Before(I, p))) /\ IsFiniteSet(Closes(c, Before(I, p)))
      /\ Cardinality(Opens(c, Before(I, p))) \in Nat
      /\ Cardinality(Closes(c, Before(I, p))) \in Nat
  BY <1>1, <1>2, FS_Subset, FS_CardinalityType
<1>4. Nesting(c, I, p) = 1 + Cardinality(Opens(c, Before(I, p)))
                           - Cardinality(Closes(c, Before(I, p)))
  BY DEF Nesting, Before
<1> QED
  BY <1>1, <1>3, <1>4 DEF Num

\* What one instruction changes of the two counts.
LEMMA CountStep ==
  ASSUME NEW c, NEW I, NEW s, NEW e, Body(c, I, s, e), NEW p \in I
  PROVE  LET q == NextInstr(c, p)
         IN /\ q \in Nat
            /\ Opens(c, Before(I, q)) = IF c[p] \in BlockOps THEN Opens(c, Before(I, p)) \cup {p}
                                        ELSE Opens(c, Before(I, p))
            /\ Nesting(c, I, q) = IF c[p] \in BlockOps THEN Nesting(c, I, p) + 1
                                  ELSE IF c[p] = WASM_OP_END THEN Nesting(c, I, p) - 1
                                  ELSE Nesting(c, I, p)
            /\ Num(c, I, q) = IF c[p] \in BlockOps THEN Num(c, I, p) + 1 ELSE Num(c, I, p)
<1> DEFINE q == NextInstr(c, p)
           O == Opens(c, Before(I, p))
           C == Closes(c, Before(I, p))
<1>1. p \in Nat /\ q \in Nat /\ p < q
  BY Addresses
<1>2. Before(I, q) = Before(I, p) \cup {p}
  <2>1. \A r \in I : r < q <=> r < p \/ r = p
    <3> TAKE r \in I
    <3>1. r \in Nat
      BY Addresses
    <3>2. p < r => q <= r
      BY Addresses
    <3> QED
      BY <1>1, <3>1, <3>2
  <2> QED
    BY <2>1 DEF Before
<1>3. p \notin Before(I, p)
  BY <1>1 DEF Before
<1>4. /\ Opens(c, Before(I, q)) = IF c[p] \in BlockOps THEN O \cup {p} ELSE O
      /\ Closes(c, Before(I, q)) = IF c[p] = WASM_OP_END THEN C \cup {p} ELSE C
  BY <1>2 DEF Opens, Closes
<1>5. p \notin O /\ p \notin C
  BY <1>3 DEF Opens, Closes
<1>6. /\ IsFiniteSet(O) /\ IsFiniteSet(C) /\ Cardinality(O) \in Nat /\ Cardinality(C) \in Nat
      /\ Nesting(c, I, p) = 1 + Cardinality(O) - Cardinality(C)
      /\ Nesting(c, I, q) = 1 + Cardinality(Opens(c, Before(I, q)))
                              - Cardinality(Closes(c, Before(I, q)))
  BY <1>1, Counted
<1> HIDE DEF q, O, C
<1>7. /\ Cardinality(O \cup {p}) = Cardinality(O) + 1
      /\ Cardinality(C \cup {p}) = Cardinality(C) + 1
  BY <1>5, <1>6, FS_AddElement
<1>8. WASM_OP_END \notin BlockOps
  BY DEF WASM_OP_END, BlockOps, WASM_OP_BLOCK, WASM_OP_LOOP
<1>9. /\ Num(c, I, q) = 1 + Cardinality(Opens(c, Before(I, q)))
      /\ Num(c, I, p) = 1 + Cardinality(O)
  BY DEF Num, O
<1>10. CASE c[p] \in BlockOps
  BY <1>1, <1>4, <1>6, <1>7, <1>8, <1>9, <1>10 DEF q, O
<1>11. CASE c[p] = WASM_OP_END
  BY <1>1, <1>4, <1>6, <1>7, <1>8, <1>9, <1>11 DEF q, O
<1>12. CASE c[p] \notin BlockOps /\ c[p] # WASM_OP_END
  BY <1>1, <1>4, <1>6, <1>9, <1>12 DEF q, O
<1> QED
  BY <1>10, <1>11, <1>12

LEMMA CountStart ==
  ASSUME NEW c, NEW I, NEW s, NEW e, Body(c, I, s, e)
  PROVE  s \in I /\ Nesting(c, I, s) = 1 /\ Num(c, I, s) = 1
<1>1. s \in Nat /\ s \in I /\ Before(I, s) = {}
  BY Addresses DEF Before
<1>2. Opens(c, Before(I, s)) = {} /\ Closes(c, Before(I, s)) = {}
  BY <1>1 DEF Opens, Closes
<1>3. Cardinality({}) = 0
  BY FS_EmptySet
<1>4. Nesting(c, I, s) = 1 + 0 - 0
  BY <1>2, <1>3 DEF Nesting, Before
<1> QED
  BY <1>1, <1>2, <1>3, <1>4 DEF Num

\* Until its end, the function itself is open.
LEMMA NestingPositive ==
  ASSUME NEW c, NEW I, NEW s, NEW e, Body(c, I, s, e), NEW p \in I
  PROVE  Nesting(c, I, p) >= 1
<1> DEFINE M == {q \in I : ~ (Nesting(c, I, q) >= 1)}
<1> SUFFICES ASSUME M # {} PROVE FALSE
  OBVIOUS
<1>1. M \in SUBSET Nat
  BY Addresses
<1> HIDE DEF M
<1>2. PICK q \in M : \A m \in M : q <= m
  BY <1>1, Least
<1>3. q \in I /\ q \in Nat /\ q # s /\ q < e /\ ~ (Nesting(c, I, q) >= 1)
  BY <1>1, Addresses, CountStart DEF M
<1>4. PICK r \in I : NextInstr(c, r) = q
  BY <1>3, Addresses
<1>5. r \in Int /\ r < q
  BY <1>4, Addresses
<1>6. Nesting(c, I, r) >= 1
  BY <1>2, <1>3, <1>5 DEF M
<1>7. Nesting(c, I, r) \in Int /\ Nesting(c, I, q) \in Int
  BY <1>3, <1>5, Counted
<1>8. Nesting(c, I, q) >= Nesting(c, I, r) - 1
  BY <1>4, <1>7, CountStep
<1>9. Nesting(c, I, q) = 0
  BY <1>3, <1>6, <1>7, <1>8
<1> QED
  BY <1>3, <1>4, <1>9 DEF Body

\* The numbers of the blocks of a body differ, and none is that of the function.
LEMMA NumsDiffer ==
  ASSUME NEW c, NEW I, NEW s, NEW e, Body(c, I, s, e),
         NEW a \in Opens(c, I), NEW b \in I, a < b
  PROVE  Num(c, I, a) < Num(c, I, b)
<1>1. a \in I /\ c[a] \in BlockOps /\ a \in Nat /\ b \in Nat
  BY Addresses DEF Opens
<1>2. /\ Opens(c, Before(I, a)) \cup {a} \subseteq Opens(c, Before(I, b))
      /\ a \notin Opens(c, Before(I, a))
  <2>1. \A q \in Before(I, a) : q \in Before(I, b)
    BY <1>1, Addresses DEF Before
  <2>2. a \notin Before(I, a) /\ a \in Before(I, b)
    BY <1>1 DEF Before
  <2> QED
    BY <1>1, <2>1, <2>2 DEF Opens
<1>3. /\ IsFiniteSet(Opens(c, Before(I, a))) /\ IsFiniteSet(Opens(c, Before(I, b)))
      /\ Cardinality(Opens(c, Before(I, a))) \in Nat
      /\ Cardinality(Opens(c, Before(I, b))) \in Nat
  BY <1>1, Counted
<1>4. Cardinality(Opens(c, Before(I, a)) \cup {a}) = Cardinality(Opens(c, Before(I, a))) + 1
  BY <1>2, <1>3, FS_AddElement
<1>5. Cardinality(Opens(c, Before(I, a)) \cup {a}) <= Cardinality(Opens(c, Before(I, b)))
  BY <1>2, <1>3, FS_Subset
<1> QED
  BY <1>3, <1>4, <1>5 DEF Num

LEMMA NumInjective ==
  ASSUME NEW c, NEW I, NEW s, NEW e, Body(c, I, s, e),
         NEW a \in Opens(c, I), NEW b \in Opens(c, I), Num(c, I, a) = Num(c, I, b)
  PROVE  a = b
<1>1. a \in I /\ b \in I /\ a \in Nat /\ b \in Nat
  BY Addresses DEF Opens
<1>2. Num(c, I, a) \in Nat /\ Num(c, I, b) \in Nat
  BY <1>1, Counted
<1>3. ~ (a < b) /\ ~ (b < a)
  BY <1>1, <1>2, NumsDiffer
<1> QED
  BY <1>1, <1>3

\* Block b is open at p: nothing since it was opened has closed it.
OpenAt(c, I, b, p) ==
  b < p /\ \A q \in I : b < q /\ q <= p => Nesting(c, I, q) > Nesting(c, I, b)

\* The `end' at p closes block b.
ClosedBy(c, I, b, p) ==
  p \in Closes(c, I) /\ OpenAt(c, I, b, p)
    /\ Nesting(c, I, NextInstr(c, p)) = Nesting(c, I, b)

\* The counts of MatchingEnd compare the nesting before and behind.
LEMMA BalancedIs ==
  ASSUME NEW c, NEW I, NEW s, NEW e, Body(c, I, s, e), NEW b \in I, NEW p \in I, b <= p
  PROVE  LET between == {q \in I : b <= q /\ q <= p}
         IN Cardinality(Opens(c, between)) = Cardinality(Closes(c, between))
              <=> Nesting(c, I, NextInstr(c, p)) = Nesting(c, I, b)
<1> DEFINE between == {q \in I : b <= q /\ q <= p}
           n == NextInstr(c, p)
<1>1. b \in Nat /\ p \in Nat /\ n \in Nat /\ p < n
  BY Addresses
<1>2. Before(I, n) = Before(I, b) \cup between /\ Before(I, b) \cap between = {}
  <2>1. ASSUME NEW q \in I PROVE q < n <=> q < b \/ (b <= q /\ q <= p)
    <3>1. q \in Nat /\ (p < q => n <= q)
      BY Addresses
    <3> QED
      BY <1>1, <3>1
  <2>2. ASSUME NEW q \in I PROVE ~ (q < b /\ b <= q)
    BY <1>1, Addresses
  <2> QED
    BY <2>1, <2>2 DEF Before
<1>3. /\ Opens(c, Before(I, n)) = Opens(c, Before(I, b)) \cup Opens(c, between)
      /\ Opens(c, Before(I, b)) \cap Opens(c, between) = {}
      /\ Closes(c, Before(I, n)) = Closes(c, Before(I, b)) \cup Closes(c, between)
      /\ Closes(c, Before(I, b)) \cap Closes(c, between) = {}
      /\ Opens(c, between) \subseteq I /\ Closes(c, between) \subseteq I
  BY <1>2 DEF Opens, Closes
<1>4. IsFiniteSet(I) /\ IsFiniteSet(Opens(c, Before(I, b))) /\ IsFiniteSet(Closes(c, Before(I, b)))
  BY <1>1, Counted
<1> HIDE DEF between, n
<1>5. IsFiniteSet(Opens(c, between)) /\ IsFiniteSet(Closes(c, between))
  BY <1>3, <1>4, FS_Subset
<1>6. /\ Cardinality(Opens(c, Before(I, b))) \in Nat /\ Cardinality(Opens(c, between)) \in Nat
      /\ Cardinality(Closes(c, Before(I, b))) \in Nat /\ Cardinality(Closes(c, between)) \in Nat
  BY <1>4, <1>5, FS_CardinalityType
<1>7. Cardinality({}) = 0
  BY FS_EmptySet
<1>8. Cardinality(Opens(c, Before(I, n)))
        = Cardinality(Opens(c, Before(I, b))) + Cardinality(Opens(c, between)) - 0
  BY <1>3, <1>4, <1>5, <1>7, FS_Union
<1>9. Cardinality(Closes(c, Before(I, n)))
        = Cardinality(Closes(c, Before(I, b))) + Cardinality(Closes(c, between)) - 0
  BY <1>3, <1>4, <1>5, <1>7, FS_Union
<1>10. /\ Nesting(c, I, b) = 1 + Cardinality(Opens(c, Before(I, b)))
                               - Cardinality(Closes(c, Before(I, b)))
       /\ Nesting(c, I, n) = 1 + Cardinality(Opens(c, Before(I, n)))
                               - Cardinality(Closes(c, Before(I, n)))
  BY <1>1, Counted
<1> QED
  BY <1>6, <1>8, <1>9, <1>10 DEF between, n

\* Every block is closed.
LEMMA CloserExists ==
  ASSUME NEW c, NEW I, NEW s, NEW e, Body(c, I, s, e), NEW b \in Opens(c, I)
  PROVE  \E p \in I : ClosedBy(c, I, b, p)
<1> DEFINE d == Nesting(c, I, b)
           M == {q \in I \cup {e} : b < q /\ Nesting(c, I, q) <= d}
<1>1. b \in I /\ b \in Nat /\ c[b] \in BlockOps /\ b < e /\ e \in Nat /\ s \in Nat /\ s <= b
  BY Addresses DEF Opens
<1>2. d \in Int /\ d >= 1
  BY <1>1, Counted, NestingPositive
<1>3. e \in M
  <2>1. PICK r \in I : NextInstr(c, r) = e
    BY <1>1, Addresses
  <2>2. Nesting(c, I, e) = 0
    BY <2>1 DEF Body
  <2> QED
    BY <1>1, <1>2, <2>2
<1>4. M \in SUBSET Nat
  BY Addresses
<1> HIDE DEF d, M
<1>5. PICK q \in M : \A m \in M : q <= m
  BY <1>3, <1>4, Least
<1>6. q \in I \cup {e} /\ b < q /\ q \in Nat /\ Nesting(c, I, q) <= d
  BY <1>4 DEF M
<1>7. PICK p \in I : NextInstr(c, p) = q
  BY <1>1, <1>6, Addresses
<1>8. p \in Nat /\ p < q /\ b <= p
  <2>1. p < b => q <= b
    BY <1>1, <1>7, Addresses
  <2> QED
    BY <1>1, <1>6, <1>7, <2>1, Addresses
<1>9. Nesting(c, I, p) \in Int /\ Nesting(c, I, q) \in Int
  BY <1>6, <1>8, Counted
<1>10. p # b
  <2> SUFFICES ASSUME p = b PROVE FALSE
    OBVIOUS
  <2>1. Nesting(c, I, q) = d + 1
    BY <1>1, <1>7, CountStep DEF d
  <2> QED
    BY <1>2, <1>6, <2>1
<1>11. \A r \in I : b < r /\ r <= p => Nesting(c, I, r) > d
  <2> SUFFICES ASSUME NEW r \in I, b < r, r <= p, ~ (Nesting(c, I, r) > d) PROVE FALSE
    OBVIOUS
  <2>1. r \in Nat /\ Nesting(c, I, r) \in Int
    BY Addresses, Counted
  <2>2. r \in M
    BY <1>2, <2>1 DEF M
  <2> QED
    BY <1>5, <1>6, <1>8, <2>1, <2>2
<1>12. Nesting(c, I, p) > d
  BY <1>1, <1>8, <1>10, <1>11
<1>13. c[p] = WASM_OP_END /\ Nesting(c, I, q) = d
  BY <1>2, <1>6, <1>7, <1>9, <1>12, CountStep
<1> QED
  BY <1>1, <1>7, <1>8, <1>10, <1>11, <1>13 DEF ClosedBy, OpenAt, Closes, d

LEMMA MatchingEndIs ==
  ASSUME NEW c, NEW I, NEW s, NEW e, Body(c, I, s, e), NEW b \in Opens(c, I)
  PROVE  ClosedBy(c, I, b, MatchingEnd(c, I, b))
<1> DEFINE Between(p) == {q \in I : b <= q /\ q <= p}
           Balanced == {p \in Closes(c, I) :
                          /\ p > b
                          /\ Cardinality(Opens(c, Between(p)))
                               = Cardinality(Closes(c, Between(p)))}
<1>1. b \in I /\ b \in Nat
  BY Addresses DEF Opens
<1>2. \A p \in Closes(c, I) : p \in I /\ p \in Nat
  BY Addresses DEF Closes
<1>3. Balanced = {p \in Closes(c, I) :
                    p > b /\ Nesting(c, I, NextInstr(c, p)) = Nesting(c, I, b)}
  <2>1. ASSUME NEW p \in Closes(c, I), p > b
        PROVE  Cardinality(Opens(c, Between(p))) = Cardinality(Closes(c, Between(p)))
                 <=> Nesting(c, I, NextInstr(c, p)) = Nesting(c, I, b)
    <3>1. b <= p /\ p \in I
      BY <1>1, <1>2, <2>1
    <3> QED
      BY <1>1, <3>1, BalancedIs
  <2> QED
    BY <2>1
<1>4. MatchingEnd(c, I, b) = CHOOSE p \in Balanced : \A q \in Balanced : p <= q
  BY DEF MatchingEnd
<1> HIDE DEF Balanced
<1>5. PICK p \in I : ClosedBy(c, I, b, p)
  BY CloserExists
<1>6. p \in Balanced
  BY <1>1, <1>2, <1>3, <1>5 DEF ClosedBy, OpenAt
<1>7. ASSUME NEW q \in Balanced PROVE p <= q
  <2> SUFFICES ASSUME q < p PROVE FALSE
    BY <1>2, <1>3, <1>6
  <2>1. q \in I /\ b < q /\ Nesting(c, I, NextInstr(c, q)) = Nesting(c, I, b)
    BY <1>1, <1>2, <1>3
  <2>2. /\ NextInstr(c, q) \in I /\ b < NextInstr(c, q) /\ NextInstr(c, q) <= p
    <3>1. /\ NextInstr(c, q) <= p /\ q < NextInstr(c, q) /\ p < e
          /\ NextInstr(c, q) \in I \cup {e} /\ NextInstr(c, q) \in Nat
          /\ p \in Nat /\ e \in Nat /\ q \in Nat
      BY <2>1, Addresses
    <3> QED
      BY <1>1, <2>1, <3>1
  <2>3. Nesting(c, I, NextInstr(c, q)) > Nesting(c, I, b)
    BY <1>5, <2>2 DEF ClosedBy, OpenAt
  <2>4. Nesting(c, I, b) \in Int
    BY <1>1, Counted
  <2> QED
    BY <2>1, <2>3, <2>4
<1>8. \A q \in Balanced : (\A r \in Balanced : q <= r) => q = p
  BY <1>2, <1>3, <1>6, <1>7
<1>9. MatchingEnd(c, I, b) = p
  BY <1>4, <1>6, <1>7, <1>8
<1> QED
  BY <1>5, <1>9

\* A block is open from its header to its `end'.
LEMMA OpenUntilEnd ==
  ASSUME NEW c, NEW I, NEW s, NEW e, Body(c, I, s, e), NEW b \in Opens(c, I), NEW p \in I
  PROVE  OpenAt(c, I, b, p) <=> b < p /\ p <= MatchingEnd(c, I, b)
<1>1. PICK m : m = MatchingEnd(c, I, b)
  OBVIOUS
<1>2. m \in I /\ OpenAt(c, I, b, m) /\ Nesting(c, I, NextInstr(c, m)) = Nesting(c, I, b)
  BY <1>1, MatchingEndIs DEF ClosedBy, Closes
<1>3. b \in I /\ b \in Nat /\ p \in Nat /\ m \in Nat
  BY <1>2, Addresses DEF Opens
<1>4. ASSUME b < p, p <= m PROVE OpenAt(c, I, b, p)
  <2>1. \A q \in I : q <= p => q <= m
    BY <1>3, <1>4, Addresses
  <2> QED
    BY <1>2, <1>4, <2>1 DEF OpenAt
<1>5. ASSUME OpenAt(c, I, b, p), m < p PROVE FALSE
  <2>1. NextInstr(c, m) <= p /\ NextInstr(c, m) \in I \cup {e} /\ m < NextInstr(c, m) /\ p < e
    BY <1>2, <1>5, Addresses
  <2>2. NextInstr(c, m) \in I /\ b < NextInstr(c, m)
    <3>1. e \in Nat /\ NextInstr(c, m) \in Nat /\ b < m
      BY <1>2, Addresses DEF OpenAt
    <3> QED
      BY <1>3, <2>1, <3>1
  <2>3. Nesting(c, I, NextInstr(c, m)) > Nesting(c, I, b)
    BY <1>5, <2>1, <2>2 DEF OpenAt
  <2>4. Nesting(c, I, b) \in Int
    BY <1>3, Counted
  <2> QED
    BY <1>2, <2>3, <2>4
<1>6. OpenAt(c, I, b, p) => b < p
  BY DEF OpenAt
<1> QED
  BY <1>1, <1>3, <1>4, <1>5, <1>6

\* Of two open blocks the inner one is the one that was opened later.
LEMMA OpenOrdered ==
  ASSUME NEW c, NEW I, NEW s, NEW e, Body(c, I, s, e),
         NEW a \in Opens(c, I), NEW b \in Opens(c, I), NEW p \in I,
         OpenAt(c, I, a, p), OpenAt(c, I, b, p)
  PROVE  /\ a < b <=> Nesting(c, I, a) < Nesting(c, I, b)
         /\ Nesting(c, I, a) = Nesting(c, I, b) => a = b
         /\ Nesting(c, I, a) \in 1..(Nesting(c, I, p) - 1)
<1>1. a \in I /\ b \in I /\ a \in Nat /\ b \in Nat /\ p \in Nat
  BY Addresses DEF Opens
<1>2. Nesting(c, I, a) \in Int /\ Nesting(c, I, b) \in Int /\ Nesting(c, I, p) \in Int
  BY <1>1, Counted
<1>3. a < b => Nesting(c, I, b) > Nesting(c, I, a)
  BY <1>1 DEF OpenAt
<1>4. b < a => Nesting(c, I, a) > Nesting(c, I, b)
  BY <1>1 DEF OpenAt
<1>5. Nesting(c, I, a) >= 1 /\ Nesting(c, I, p) > Nesting(c, I, a)
  BY <1>1, NestingPositive DEF OpenAt
<1> QED
  BY <1>1, <1>2, <1>3, <1>4, <1>5

\* All the blocks that are open at p, one for each depth.
Reached(c, I, p) ==
  \A d \in 1..(Nesting(c, I, p) - 1) :
    \E b \in Opens(c, I) : OpenAt(c, I, b, p) /\ Nesting(c, I, b) = d

LEMMA EnclosingOpen ==
  ASSUME NEW c, NEW I, NEW s, NEW e, Body(c, I, s, e), NEW p \in I, c[p] # WASM_OP_END
  PROVE  Enclosing(c, I, p) = {b \in Opens(c, I) : OpenAt(c, I, b, p)}
<1>1. ASSUME NEW b \in Opens(c, I)
      PROVE  (b < p /\ p < MatchingEnd(c, I, b)) <=> OpenAt(c, I, b, p)
  <2>1. MatchingEnd(c, I, b) \in Closes(c, I)
    BY MatchingEndIs DEF ClosedBy
  <2>2. MatchingEnd(c, I, b) # p /\ MatchingEnd(c, I, b) \in Nat /\ p \in Nat
    BY <2>1, Addresses DEF Closes
  <2>3. OpenAt(c, I, b, p) <=> b < p /\ p <= MatchingEnd(c, I, b)
    BY OpenUntilEnd
  <2> QED
    BY <2>2, <2>3
<1> QED
  BY <1>1 DEF Enclosing

\* The number of the open blocks that are deeper than d.
LEMMA DeeperCount ==
  ASSUME NEW c, NEW I, NEW s, NEW e, Body(c, I, s, e), NEW p \in I, c[p] # WASM_OP_END,
         Reached(c, I, p), NEW d \in 0..(Nesting(c, I, p) - 1)
  PROVE  Cardinality({b \in Enclosing(c, I, p) : Nesting(c, I, b) > d})
           = Nesting(c, I, p) - 1 - d
<1> DEFINE X == {b \in Enclosing(c, I, p) : Nesting(c, I, b) > d}
           n == Nesting(c, I, p)
           f == [b \in X |-> Nesting(c, I, b)]
<1>1. Enclosing(c, I, p) = {b \in Opens(c, I) : OpenAt(c, I, b, p)}
  BY EnclosingOpen
<1>2. n \in Int /\ d \in Nat
  BY Addresses, Counted
<1>3. IsFiniteSet(X)
  <2>1. IsFiniteSet(I) /\ X \subseteq I
    BY <1>1, <1>2, Counted DEF Opens
  <2> QED
    BY <2>1, FS_Subset
<1>4. ASSUME NEW b \in X PROVE Nesting(c, I, b) \in (d + 1)..(n - 1)
  <2>1. b \in Opens(c, I) /\ OpenAt(c, I, b, p) /\ Nesting(c, I, b) > d
    BY <1>1
  <2>2. Nesting(c, I, b) \in 1..(n - 1)
    BY <2>1, OpenOrdered
  <2> QED
    BY <1>2, <2>1, <2>2
<1>5. ASSUME NEW a \in X, NEW b \in X, Nesting(c, I, a) = Nesting(c, I, b) PROVE a = b
  <2>1. /\ a \in Opens(c, I) /\ OpenAt(c, I, a, p)
        /\ b \in Opens(c, I) /\ OpenAt(c, I, b, p)
    BY <1>1
  <2> QED
    BY <1>5, <2>1, OpenOrdered
<1>6. ASSUME NEW x \in (d + 1)..(n - 1) PROVE \E b \in X : Nesting(c, I, b) = x
  <2>1. x \in 1..(n - 1) /\ x > d
    BY <1>2
  <2>2. PICK b \in Opens(c, I) : OpenAt(c, I, b, p) /\ Nesting(c, I, b) = x
    BY <2>1 DEF Reached
  <2> QED
    BY <1>1, <2>1, <2>2
<1>7. f \in Bijection(X, (d + 1)..(n - 1))
  <2>1. f \in [X -> (d + 1)..(n - 1)]
    BY <1>4
  <2>2. \A a, b \in X : f[a] = f[b] => a = b
    BY <1>5
  <2>3. \A x \in (d + 1)..(n - 1) : \E b \in X : f[b] = x
    BY <1>6
  <2> HIDE DEF f, X, n
  <2> QED
    BY <2>1, <2>2, <2>3 DEF Bijection, Injection, IsInjective, Surjection
<1>8. Cardinality((d + 1)..(n - 1)) = Cardinality(X)
  <2>1. ExistsBijection(X, (d + 1)..(n - 1))
    BY <1>7 DEF ExistsBijection
  <2> QED
    BY <1>3, <2>1, FS_Bijection
<1>9. Cardinality((d + 1)..(n - 1)) = n - 1 - d
  <2>1. d + 1 \in Int /\ n - 1 \in Int
    BY <1>2
  <2> HIDE DEF n
  <2>2. Cardinality((d + 1)..(n - 1)) = IF d + 1 > n - 1 THEN 0 ELSE (n - 1) - (d + 1) + 1
    BY <2>1, FS_Interval
  <2>3. d <= n - 1
    BY <1>2 DEF n
  <2> QED
    BY <1>2, <2>2, <2>3
<1> QED
  BY <1>8, <1>9

\* Label k of a branch at p goes to the k-th of the open blocks, from the inside.
LEMMA LabelTargetIs ==
  ASSUME NEW c, NEW s, NEW e, NEW I, I = InstrStarts(c, s, e), Body(c, I, s, e),
         NEW p \in I, c[p] # WASM_OP_END, Reached(c, I, p),
         NEW k \in 0..(Nesting(c, I, p) - 1)
  PROVE  /\ k = Nesting(c, I, p) - 1 => LabelTarget(c, s, e, p, k) = e - 1
         /\ \A b \in Opens(c, I) :
              OpenAt(c, I, b, p) /\ Nesting(c, I, b) = Nesting(c, I, p) - 1 - k =>
                LabelTarget(c, s, e, p, k) = IF c[b] = WASM_OP_LOOP THEN b + 2
                                             ELSE MatchingEnd(c, I, b)
<1> DEFINE around == Enclosing(c, I, p)
           n == Nesting(c, I, p)
           Inside(b) == {a \in around : a > b}
<1>1. around = {b \in Opens(c, I) : OpenAt(c, I, b, p)}
  BY EnclosingOpen
<1>2. n \in Int /\ k \in Nat /\ n >= 1
  BY Addresses, Counted, NestingPositive
<1>3. ASSUME NEW b \in around PROVE b \in Opens(c, I) /\ b \in I /\ b \in Nat /\ OpenAt(c, I, b, p)
  BY <1>1, Addresses DEF Opens
<1>4. Cardinality(around) = n - 1
  <2>1. \A b \in around : Nesting(c, I, b) > 0
    <3> TAKE b \in around
    <3>1. Nesting(c, I, b) \in 1..(n - 1)
      BY <1>3, OpenOrdered
    <3> QED
      BY <3>1
  <2> DEFINE Y == {b \in around : Nesting(c, I, b) > 0}
  <2>2. Y = around
    BY <2>1
  <2>3. 0 \in 0..(n - 1)
    BY <1>2
  <2>4. Cardinality(Y) = n - 1 - 0
    BY <2>3, DeeperCount
  <2>5. n - 1 - 0 = n - 1
    BY <1>2
  <2> HIDE DEF Y
  <2> QED
    BY <2>2, <2>4, <2>5
<1>5. ASSUME NEW b \in around
      PROVE  Nesting(c, I, b) \in 1..(n - 1) /\ Cardinality(Inside(b)) = n - 1 - Nesting(c, I, b)
  <2>1. Nesting(c, I, b) \in 1..(n - 1)
    BY <1>3, OpenOrdered
  <2>2. Inside(b) = {a \in around : Nesting(c, I, a) > Nesting(c, I, b)}
    <3>1. ASSUME NEW a \in around PROVE a > b <=> Nesting(c, I, a) > Nesting(c, I, b)
      <4>1. b < a <=> Nesting(c, I, b) < Nesting(c, I, a)
        BY <1>3, OpenOrdered
      <4>2. Nesting(c, I, a) \in Int /\ Nesting(c, I, b) \in Int
        BY <1>3, Counted
      <4> QED
        BY <1>3, <4>1, <4>2
    <3> QED
      BY <3>1
  <2>3. Nesting(c, I, b) \in 0..(n - 1)
    BY <1>2, <2>1
  <2> QED
    BY <2>1, <2>2, <2>3, DeeperCount
<1>6. LabelTarget(c, s, e, p, k) =
        IF k >= Cardinality(around) THEN e - 1
        ELSE LET b == CHOOSE a \in around : Cardinality(Inside(a)) = k
             IN IF c[b] = WASM_OP_LOOP THEN NextInstr(c, b) ELSE MatchingEnd(c, I, b)
  BY DEF LabelTarget
<1> HIDE DEF around, Inside
<1>7. k = n - 1 => LabelTarget(c, s, e, p, k) = e - 1
  BY <1>2, <1>4, <1>6
<1>8. ASSUME NEW b \in Opens(c, I), OpenAt(c, I, b, p), Nesting(c, I, b) = n - 1 - k
      PROVE  LabelTarget(c, s, e, p, k) = IF c[b] = WASM_OP_LOOP THEN b + 2
                                          ELSE MatchingEnd(c, I, b)
  <2>1. b \in around
    BY <1>1, <1>8
  <2>2. Cardinality(Inside(b)) = k
    BY <1>2, <1>5, <1>8, <2>1
  <2>3. ASSUME NEW a \in around, Cardinality(Inside(a)) = k PROVE a = b
    <3>1. Nesting(c, I, a) = Nesting(c, I, b)
      BY <1>2, <1>5, <1>8, <2>3
    <3> QED
      BY <1>3, <2>1, <3>1, OpenOrdered
  <2>4. (CHOOSE a \in around : Cardinality(Inside(a)) = k) = b
    BY <2>1, <2>2, <2>3
  <2>5. ~ (k >= Cardinality(around))
    BY <1>2, <1>4, <1>5, <1>8, <2>1
  <2>6. LabelTarget(c, s, e, p, k) = IF c[b] = WASM_OP_LOOP THEN NextInstr(c, b)
                                     ELSE MatchingEnd(c, I, b)
    BY <1>6, <2>4, <2>5
  <2>7. NextInstr(c, b) = b + 2
    <3>1. b \in Nat /\ c[b] \in BlockOps
      BY <1>3, <2>1 DEF Opens
    <3>2. c[b] # WASM_OP_BR_TABLE
      BY <3>1 DEF BlockOps, WASM_OP_BLOCK, WASM_OP_LOOP, WASM_OP_BR_TABLE
    <3> QED
      BY <3>1, <3>2, Instruction
  <2> QED
    BY <2>6, <2>7
<1> QED
  BY <1>7, <1>8

-----------------------------------------------------------------------------
(***************************************************************************)
(* The bodies of a section.                                                *)
(***************************************************************************)
InstrsOf(c, k) == InstrStarts(c, CodeStart(c, k), CodeEnd(c, k))

LEMMA HeadersAre ==
  ASSUME NEW c, c[1] \in Nat
  PROVE  \A k \in 0..c[1] :
           Headers(c)[k] =
             IF k = 0 THEN 2
             ELSE CHOOSE e \in 1..(Len(c) + 1) :
                    BodyOK(c, LocalsEnd(c, Headers(c)[k - 1] + 1), e)
<1> DEFINE N == c[1]
           After(h) == CHOOSE e \in 1..(Len(c) + 1) : BodyOK(c, LocalsEnd(c, h + 1), e)
           Good(at, k) == at = [j \in 0..k |-> IF j = 0 THEN 2 ELSE After(at[j - 1])]
           T == {k \in 0..N : \E at : Good(at, k)}
<1>1. N \in Nat
  OBVIOUS
<1>2. 0 \in T
  <2> DEFINE at == [j \in 0..0 |-> 2]
  <2>1. Good(at, 0)
    OBVIOUS
  <2> HIDE DEF at, Good
  <2> QED
    BY <1>1, <2>1
<1>3. ASSUME NEW k \in 1..N, k - 1 \in T PROVE k \in T
  <2>1. PICK r : Good(r, k - 1)
    BY <1>3
  <2> HIDE DEF After
  <2> DEFINE at == [j \in 0..k |-> IF j = k THEN After(r[k - 1]) ELSE r[j]]
  <2>2. \A j \in 0..(k - 1) : r[j] = IF j = 0 THEN 2 ELSE After(r[j - 1])
    BY <2>1
  <2>3. ASSUME NEW j \in 0..k PROVE at[j] = IF j = 0 THEN 2 ELSE After(at[j - 1])
    <3>1. CASE j = k
      BY <3>1
    <3>2. CASE j # k
      BY <2>2, <3>2
    <3> QED
      BY <3>1, <3>2
  <2>4. at = [j \in 0..k |-> at[j]]
    OBVIOUS
  <2> HIDE DEF at
  <2>5. Good(at, k)
    BY <2>3, <2>4
  <2> QED
    BY <2>5
<1> HIDE DEF Good
<1>4. N \in T
  <2> HIDE DEF T, N
  <2>1. 0..N \subseteq T
    BY <1>1, <1>2, <1>3, UpTo
  <2> QED
    BY <1>1, <2>1
<1>5. Good(CHOOSE at : Good(at, N), N)
  BY <1>4
<1>6. Headers(c) = CHOOSE at : Good(at, N)
  BY DEF Headers, Good
<1>7. Good(Headers(c), N)
  BY <1>5, <1>6
<1> HIDE DEF After
<1>8. \A k \in 0..N : Headers(c)[k] = IF k = 0 THEN 2 ELSE After(Headers(c)[k - 1])
  BY <1>7 DEF Good
<1> QED
  BY <1>8 DEF After

\* Where body k is.
LEMMA BodyIs ==
  ASSUME NEW c, WellFormed(c), NEW k \in 0..(c[1] - 1)
  PROVE  /\ Headers(c)[0] = 2
         /\ Headers(c)[k] \in Nat /\ 2 <= Headers(c)[k]
         /\ Headers(c)[k] + 1 \in DOMAIN c /\ c[Headers(c)[k] + 1] \in Nat
         /\ \A j \in 1..c[Headers(c)[k] + 1] : c[Headers(c)[k] + 1 + 2 * j - 1] \in Nat
         /\ CodeStart(c, k) \in Nat /\ CodeEnd(c, k) \in Nat
         /\ Headers(c)[k] + 2 <= CodeStart(c, k) /\ CodeStart(c, k) < CodeEnd(c, k)
         /\ CodeEnd(c, k) <= Len(c) + 1
         /\ BodyOK(c, CodeStart(c, k), CodeEnd(c, k))
<1>1. /\ c \in Seq(Int) /\ c[1] \in Nat /\ Len(c) \in Nat /\ DOMAIN c = 1..Len(c)
  BY DEF WellFormed
<1>2. /\ Headers(c)[0] = 2
      /\ \A j \in 1..c[1] : Headers(c)[j] = CHOOSE e \in 1..(Len(c) + 1) :
                                               BodyOK(c, LocalsEnd(c, Headers(c)[j - 1] + 1), e)
  BY <1>1, HeadersAre
<1>3. ASSUME NEW j \in 0..(c[1] - 1)
      PROVE  /\ Headers(c)[j] + 1 \in DOMAIN c /\ c[Headers(c)[j] + 1] \in Nat
             /\ \A n \in 1..c[Headers(c)[j] + 1] : c[Headers(c)[j] + 1 + 2 * n - 1] \in Nat
             /\ \E e \in 1..(Len(c) + 1) : BodyOK(c, CodeStart(c, j), e)
  BY DEF WellFormed, CodeStart
<1>4. ASSUME NEW j \in 0..(c[1] - 1)
      PROVE  /\ CodeEnd(c, j) \in 1..(Len(c) + 1)
             /\ BodyOK(c, CodeStart(c, j), CodeEnd(c, j))
  <2>1. j + 1 \in 1..c[1] /\ (j + 1) - 1 = j
    BY <1>1
  <2>2. CodeEnd(c, j) = CHOOSE e \in 1..(Len(c) + 1) : BodyOK(c, CodeStart(c, j), e)
    BY <1>2, <2>1 DEF CodeEnd, CodeStart
  <2> QED
    BY <1>3, <2>2
<1>5. ASSUME NEW j \in 0..(c[1] - 1) PROVE CodeStart(c, j) < CodeEnd(c, j)
  BY <1>4 DEF BodyOK
<1> DEFINE h == Headers(c)[k]
<1>6. h \in Nat /\ 2 <= h
  <2> DEFINE T == {j \in 0..(c[1] - 1) : Headers(c)[j] \in Nat /\ 2 <= Headers(c)[j]}
  <2>1. 0 \in T
    BY <1>1, <1>2
  <2>2. ASSUME NEW j \in 1..(c[1] - 1), j - 1 \in T PROVE j \in T
    <3>1. j - 1 \in 0..(c[1] - 1)
      BY <1>1
    <3>2. Headers(c)[j] = CodeEnd(c, j - 1) /\ Headers(c)[j] \in Nat
      BY <1>1, <1>4, <3>1 DEF CodeEnd
    <3>3. CodeStart(c, j - 1) = Headers(c)[j - 1] + 2 + 2 * c[Headers(c)[j - 1] + 1]
      BY <2>2 DEF CodeStart, LocalsEnd
    <3>4. Headers(c)[j - 1] \in Nat /\ 2 <= Headers(c)[j - 1]
      BY <2>2
    <3>5. c[Headers(c)[j - 1] + 1] \in Nat
      BY <1>3, <3>1
    <3>6. CodeStart(c, j - 1) < Headers(c)[j]
      BY <1>5, <3>1, <3>2
    <3> QED
      BY <1>1, <3>2, <3>3, <3>4, <3>5, <3>6, SMTT(60)
  <2> DEFINE N == c[1] - 1
  <2> HIDE DEF T
  <2>3. N \in Nat
    BY <1>1
  <2>4. 0..N \subseteq T
    <3> HIDE DEF N
    <3>1. ASSUME NEW j \in 1..N, j - 1 \in T PROVE j \in T
      BY <2>2, <3>1 DEF N
    <3> QED
      BY <2>1, <2>3, <3>1, UpTo
  <2> QED
    BY <2>4 DEF T
<1>7. CodeStart(c, k) = h + 2 + 2 * c[h + 1] /\ c[h + 1] \in Nat
  BY <1>3, <1>6 DEF CodeStart, LocalsEnd
<1> HIDE DEF h
<1>8. CodeStart(c, k) \in Nat /\ h + 2 <= CodeStart(c, k)
  BY <1>6, <1>7
<1> QED
  BY <1>1, <1>2, <1>3, <1>4, <1>5, <1>6, <1>8, SMTT(60) DEF h

LEMMA BodyFacts ==
  ASSUME NEW c, WellFormed(c), NEW k \in 0..(c[1] - 1)
  PROVE  /\ Body(c, InstrsOf(c, k), CodeStart(c, k), CodeEnd(c, k))
         /\ \A p \in InstrsOf(c, k) :
              /\ p \in DOMAIN c
              /\ c[p] = WASM_OP_BR_TABLE => c[p + 1] \in Nat /\ p + 1 \in DOMAIN c
              /\ \A a \in LabelSlots(c, p) :
                   /\ a \in DOMAIN c /\ p < a /\ a < NextInstr(c, p)
                   /\ c[a] \in 0..(Nesting(c, InstrsOf(c, k), p) - 1)
<1> DEFINE s == CodeStart(c, k)
           e == CodeEnd(c, k)
           I == InstrsOf(c, k)
<1>1. s \in Nat /\ e \in Nat /\ s < e /\ e <= Len(c) + 1 /\ BodyOK(c, s, e) /\ 2 <= s
  BY BodyIs
<1>2. c \in Seq(Int) /\ Len(c) \in Nat /\ DOMAIN c = 1..Len(c)
  BY DEF WellFormed
<1> HIDE DEF s, e
<1>3. \A p \in I :
        /\ c[p] = WASM_OP_BR_TABLE => c[p + 1] \in Nat
        /\ NextInstr(c, p) <= e
        /\ Nesting(c, I, NextInstr(c, p)) = 0 <=> NextInstr(c, p) = e
        /\ \A a \in LabelSlots(c, p) : c[a] \in 0..(Nesting(c, I, p) - 1)
  BY <1>1 DEF BodyOK, InstrsOf, s, e
<1>4. I = InstrStarts(c, s, e)
  BY DEF InstrsOf, s, e
<1> HIDE DEF I
<1>5. Consecutive(c, I, s, e)
  BY <1>1, <1>3, <1>4, InstrsConsecutive DEF Closed
<1>6. Body(c, I, s, e)
  BY <1>1, <1>3, <1>5 DEF Body
<1>7. ASSUME NEW p \in I
      PROVE  /\ p \in DOMAIN c
             /\ c[p] = WASM_OP_BR_TABLE => p + 1 \in DOMAIN c
             /\ \A a \in LabelSlots(c, p) : a \in DOMAIN c /\ p < a /\ a < NextInstr(c, p)
  <2>1. p \in Nat /\ s <= p /\ p < e /\ p < NextInstr(c, p) /\ NextInstr(c, p) <= e
        /\ NextInstr(c, p) \in Nat
    BY <1>6, Addresses
  <2>2. LabelSlots(c, p) \subseteq (p + 1)..(NextInstr(c, p) - 1)
    BY <1>5 DEF Consecutive
  <2>3. c[p] = WASM_OP_BR_TABLE => NextInstr(c, p) = p + 3 + c[p + 1]
    BY <1>3, <2>1, Instruction
  <2> QED
    BY <1>1, <1>2, <1>3, <2>1, <2>2, <2>3, SMTT(60)
<1> QED
  BY <1>3, <1>6, <1>7 DEF I, s, e

(***************************************************************************)
(* The function body is open as long as decode_expr runs; its number is 0.  *)
(* Closing a block uncovers the number of the one around it, which is        *)
(* smaller: so the order of all the numbers is needed, not only that of the *)
(* innermost ones.                                                          *)
(***************************************************************************)
Numbered ==
  phase = "expr" =>
    /\ scope \in Nat \ {0} /\ static_ctr \in Nat
    /\ \A d \in 0..(scope - 1) : dyn2static[d] \in Nat

IInv == Numbered /\ OpenBlocksNumbered

LEMMA EnterNumbers == ASSUME NEW start, EnterExpr(start) PROVE IInv'
<1>1. /\ scope' = 1 /\ static_ctr' = 1
      /\ DOMAIN dyn2static' = {0} /\ dyn2static'[0] = 0
  BY DEF EnterExpr
<1>2. scope' - 1 = 0 /\ 0..0 = {0} /\ 1..0 = {}
  BY <1>1
<1>3. Numbered'
  BY <1>1, <1>2 DEF Numbered
<1>4. OpenBlocksNumbered'
  BY <1>1, <1>2 DEF OpenBlocksNumbered
<1> QED
  BY <1>3, <1>4 DEF IInv

LEMMA BlockNumbers == IInv /\ DecodeBlock => IInv'
<1> SUFFICES ASSUME IInv, DecodeBlock PROVE IInv'
  OBVIOUS
<1>1. /\ scope' = scope + 1 /\ static_ctr' = static_ctr + 1
      /\ dyn2static' = Set(dyn2static, scope, static_ctr)
      /\ phase = "expr" /\ phase' = "expr"
  BY DEF DecodeBlock, Decode
<1>2. /\ scope \in Nat \ {0} /\ static_ctr \in Nat
      /\ \A d \in 0..(scope - 1) : dyn2static[d] \in Nat
      /\ 0..(scope - 1) \subseteq DOMAIN dyn2static
      /\ \A d \in 1..(scope - 1) : dyn2static[d - 1] < dyn2static[d]
      /\ dyn2static[0] = 0 /\ dyn2static[scope - 1] < static_ctr
  BY <1>1 DEF IInv, Numbered, OpenBlocksNumbered
<1>3. /\ DOMAIN dyn2static' = DOMAIN dyn2static \cup {scope}
      /\ dyn2static'[scope] = static_ctr
      /\ \A d \in 0..(scope - 1) : dyn2static'[d] = dyn2static[d]
  <2>1. \A d \in 0..(scope - 1) : d \in DOMAIN dyn2static /\ d # scope
    BY <1>2
  <2> QED
    BY <1>1, <2>1 DEF Set
<1>4. \A d \in 1..scope : dyn2static'[d - 1] < dyn2static'[d]
  <2> TAKE d \in 1..scope
  <2>1. CASE d = scope
    <3>1. scope - 1 \in 0..(scope - 1)
      BY <1>2
    <3> QED
      BY <1>2, <1>3, <2>1, <3>1
  <2>2. CASE d # scope
    <3>1. d \in 1..(scope - 1) /\ d - 1 \in 0..(scope - 1) /\ d \in 0..(scope - 1)
      BY <1>2, <2>2
    <3> QED
      BY <1>2, <1>3, <3>1
  <2> QED
    BY <2>1, <2>2
<1>5. \A d \in 0..scope : d \in DOMAIN dyn2static' /\ dyn2static'[d] \in Nat
  <2> TAKE d \in 0..scope
  <2>1. d = scope \/ d \in 0..(scope - 1)
    BY <1>2
  <2> QED
    BY <1>2, <1>3, <2>1
<1>6. scope' - 1 = scope /\ scope' \in Nat \ {0} /\ static_ctr' \in Nat
      /\ static_ctr < static_ctr' /\ 0 \in 0..(scope - 1)
  BY <1>1, <1>2
<1>7. Numbered'
  BY <1>1, <1>5, <1>6 DEF Numbered
<1>8. OpenBlocksNumbered'
  BY <1>1, <1>2, <1>3, <1>4, <1>5, <1>6 DEF OpenBlocksNumbered
<1> QED
  BY <1>7, <1>8 DEF IInv

LEMMA EndNumbers == IInv /\ DecodeEnd => IInv'
<1> SUFFICES ASSUME IInv, DecodeEnd PROVE IInv'
  OBVIOUS
<1>1. /\ scope' = scope - 1 /\ UNCHANGED <<static_ctr, dyn2static>>
      /\ phase = "expr"
      /\ phase' = IF scope = 1 THEN "expr_end" ELSE phase
  BY DEF DecodeEnd, Decode
<1>2. CASE scope = 1
  BY <1>1, <1>2 DEF IInv, Numbered, OpenBlocksNumbered
<1>3. CASE scope # 1
  <2>1. /\ scope \in Nat \ {0} /\ static_ctr \in Nat
        /\ \A d \in 0..(scope - 1) : dyn2static[d] \in Nat
        /\ 0..(scope - 1) \subseteq DOMAIN dyn2static
        /\ \A d \in 1..(scope - 1) : dyn2static[d - 1] < dyn2static[d]
        /\ dyn2static[0] = 0 /\ dyn2static[scope - 1] < static_ctr
    BY <1>1 DEF IInv, Numbered, OpenBlocksNumbered
  <2>2. /\ scope' \in Nat \ {0} /\ scope' - 1 = scope - 2
        /\ 0..(scope - 2) \subseteq 0..(scope - 1)
        /\ 1..(scope - 2) \subseteq 1..(scope - 1)
        /\ scope - 1 \in 1..(scope - 1) /\ scope - 1 - 1 = scope - 2
        /\ scope - 2 \in 0..(scope - 1) /\ scope - 1 \in 0..(scope - 1)
    BY <1>1, <1>3, <2>1
  <2>3. dyn2static[scope - 2] < static_ctr
    <3>1. dyn2static[scope - 2] < dyn2static[scope - 1]
      BY <2>1, <2>2
    <3>2. dyn2static[scope - 2] \in Nat /\ dyn2static[scope - 1] \in Nat
      BY <2>1, <2>2
    <3> QED
      BY <2>1, <3>1, <3>2
  <2>4. Numbered'
    BY <1>1, <2>1, <2>2 DEF Numbered
  <2>5. OpenBlocksNumbered'
    BY <1>1, <2>1, <2>2, <2>3 DEF OpenBlocksNumbered
  <2> QED
    BY <2>4, <2>5 DEF IInv
<1> QED
  BY <1>2, <1>3

LEMMA NextNumbers == IInv /\ [Next]_vars => IInv'
<1> SUFFICES ASSUME IInv, [Next]_vars PROVE IInv'
  OBVIOUS
<1>1. CASE StartSection
  BY <1>1 DEF StartSection, IInv, Numbered, OpenBlocksNumbered
<1>2. CASE StartBody
  BY <1>2, EnterNumbers DEF StartBody
<1>3. CASE DecodeBlock
  BY <1>3, BlockNumbers
<1>4. CASE DecodeEnd
  BY <1>4, EndNumbers
<1>5. CASE DecodeBr \/ DecodeBrTable \/ DecodeOther
  <2>1. UNCHANGED <<phase, scope, static_ctr, dyn2static>>
    BY <1>5 DEF DecodeBr, DecodeBrTable, DecodeOther
  <2> QED
    BY <2>1 DEF IInv, Numbered, OpenBlocksNumbered
<1>6. CASE ReplacePass
  BY <1>6, EnterNumbers DEF ReplacePass
<1>7. CASE NextBody
  BY <1>7 DEF NextBody, IInv, Numbered, OpenBlocksNumbered
<1>8. CASE UNCHANGED vars
  BY <1>8 DEF vars, IInv, Numbered, OpenBlocksNumbered
<1> QED
  BY <1>1, <1>2, <1>3, <1>4, <1>5, <1>6, <1>7, <1>8 DEF Next, Step, Loaded

(***************************************************************************)
(* Every open block has a number that this run of decode_expr gave it: a    *)
(* label that names one never goes, through a stale entry, to a block of    *)
(* another function.                                                        *)
(***************************************************************************)
THEOREM BlocksStayNumbered == Spec => []OpenBlocksNumbered
<1>1. Init => IInv
  BY DEF Init, Start, IInv, Numbered, OpenBlocksNumbered
<1>2. IInv => OpenBlocksNumbered
  BY DEF IInv
<1> QED
  BY <1>1, <1>2, NextNumbers, PTL DEF Spec

-----------------------------------------------------------------------------
(***************************************************************************)
(* The inductive invariant for the labels.  At p in a body I of c, what    *)
(* decode_expr keeps on its stack and in its table of blocks is what the   *)
(* body has before p.                                                      *)
(***************************************************************************)

\* Every open block has its number on the stack, at its depth.
Tracks(c, I, p, depth, ctr, dyn) ==
  /\ depth = Nesting(c, I, p) /\ ctr = Num(c, I, p)
  /\ dyn[0] = 0 /\ 0 \in DOMAIN dyn
  /\ \A d \in 1..(depth - 1) :
       /\ d \in DOMAIN dyn
       /\ \E b \in Opens(c, I) :
            OpenAt(c, I, b, p) /\ Nesting(c, I, b) = d /\ dyn[d] = Num(c, I, b)

\* The blocks before p are in the table, those that were closed with their ends.
Records(c, I, s, p, blocks) ==
  /\ 0 \in DOMAIN blocks /\ blocks[0].op = WASM_OP_BLOCK /\ blocks[0].start_addr = s
  /\ \A b \in Opens(c, I) :
       /\ b < p => /\ Num(c, I, b) \in DOMAIN blocks
                   /\ blocks[Num(c, I, b)].op = c[b]
                   /\ blocks[Num(c, I, b)].start_addr = b + 2
       /\ MatchingEnd(c, I, b) < p =>
            blocks[Num(c, I, b)].end_addr = MatchingEnd(c, I, b)

\* The labels before p are offsets.
Lands(c, cd, k, p) ==
  \A q \in InstrsOf(c, k) : q < p =>
    \A a \in LabelSlots(c, q) :
      (a + 1) + cd[a] = LabelTarget(c, CodeStart(c, k), CodeEnd(c, k), q, c[a])

BlockInfo == [op : Int, start_addr : Int, end_addr : Int]

InBody == phase \in {"expr", "expr_end"}

\* What the second run finds in the table, and the first one has put there.
Read == IF replace_last THEN CodeEnd(file, i) ELSE ptr

\* The address from which on the code is what the file has.
Frontier == IF InBody /\ ~replace_last THEN CodeStart(file, i) ELSE ptr

Typed ==
  /\ WellFormed(file)
  /\ DOMAIN code = DOMAIN file /\ \A a \in DOMAIN code : code[a] \in Int
  /\ replace_last \in BOOLEAN
  /\ scope \in Nat /\ static_ctr \in Nat
  /\ dyn2static \in UNION {[D -> Nat] : D \in SUBSET Nat}
  /\ static_blocks \in UNION {[D -> BlockInfo] : D \in SUBSET Nat}
  /\ \A f \in DOMAIN num_locals : num_locals[f] \in Nat

Placed ==
  /\ phase \in {"section", "body", "expr", "expr_end", "done"}
  /\ phase = "section" => ptr = 1 /\ i = 0 /\ ~replace_last
  /\ phase = "body" => i \in 0..(file[1] - 1) /\ ptr = Headers(file)[i]
  /\ InBody => i \in 0..(file[1] - 1)
  /\ phase = "expr" => ptr \in InstrsOf(file, i)
  /\ phase = "expr_end" => ptr = CodeEnd(file, i)
  /\ phase = "done" => i = file[1] /\ ptr \in 1..(Len(file) + 1)

\* Bodies lie one behind the other, and where the arrays say.
Listed ==
  /\ DOMAIN code_start = IF InBody THEN 0..i ELSE 0..(i - 1)
  /\ DOMAIN code_end = IF InBody /\ replace_last THEN 0..i ELSE 0..(i - 1)
  /\ \A k \in DOMAIN code_start : code_start[k] = CodeStart(file, k)
  /\ \A k \in DOMAIN code_end : code_end[k] = CodeEnd(file, k)
  /\ \A k \in 0..(i - 1) : CodeEnd(file, k) <= IF InBody THEN CodeStart(file, i) ELSE ptr

CodeAhead == \A a \in DOMAIN code : a >= Frontier => code[a] = file[a]

Tracked ==
  phase = "expr" => Tracks(file, InstrsOf(file, i), ptr, scope, static_ctr, dyn2static)

Recorded ==
  InBody =>
    /\ Records(file, InstrsOf(file, i), CodeStart(file, i), Read, static_blocks)
    /\ replace_last \/ phase = "expr_end" =>
         static_blocks[0].end_addr = CodeEnd(file, i) - 1

Landed ==
  /\ \A k \in 0..(i - 1) : Lands(file, code, k, CodeEnd(file, k))
  /\ InBody /\ replace_last => Lands(file, code, i, ptr)

LInv == /\ Typed /\ Placed /\ Listed /\ CodeAhead /\ Tracked /\ Recorded /\ Landed

-----------------------------------------------------------------------------
(***************************************************************************)
(* What one instruction does to the stack of open blocks ...               *)
(***************************************************************************)

\* What is open stays open until the nesting is back at its depth.
LEMMA OpenNext ==
  ASSUME NEW c, NEW I, NEW s, NEW e, Body(c, I, s, e), NEW p \in I
  PROVE  /\ \A b \in Opens(c, I) :
              OpenAt(c, I, b, p) /\ Nesting(c, I, NextInstr(c, p)) > Nesting(c, I, b) =>
                OpenAt(c, I, b, NextInstr(c, p))
         /\ c[p] \in BlockOps => p \in Opens(c, I) /\ OpenAt(c, I, p, NextInstr(c, p))
<1> DEFINE q == NextInstr(c, p)
<1>1. p \in Nat /\ q \in Nat /\ p < q
  BY Addresses
<1>2. ASSUME NEW r \in I, r <= q PROVE r = q \/ r <= p
  <2>1. r \in Nat /\ (p < r => q <= r)
    BY Addresses
  <2> QED
    BY <1>1, <1>2, <2>1
<1>3. ASSUME NEW b \in Opens(c, I), OpenAt(c, I, b, p), Nesting(c, I, q) > Nesting(c, I, b)
      PROVE  OpenAt(c, I, b, q)
  <2>1. b \in Nat
    BY Addresses DEF Opens
  <2>2. b < q
    BY <1>1, <1>3, <2>1 DEF OpenAt
  <2> QED
    BY <1>2, <1>3, <2>2 DEF OpenAt
<1>4. ASSUME c[p] \in BlockOps PROVE p \in Opens(c, I) /\ OpenAt(c, I, p, q)
  <2>1. p \in Opens(c, I)
    BY <1>4 DEF Opens
  <2>2. Nesting(c, I, q) = Nesting(c, I, p) + 1 /\ Nesting(c, I, p) \in Int
    BY <1>1, <1>4, CountStep, Counted
  <2>3. ASSUME NEW r \in I, p < r, r <= q PROVE Nesting(c, I, r) > Nesting(c, I, p)
    <3>1. r = q
      BY <1>1, <1>2, <2>3, Addresses
    <3> QED
      BY <2>2, <3>1
  <2> QED
    BY <1>1, <2>1, <2>3 DEF OpenAt
<1> QED
  BY <1>3, <1>4

LEMMA TracksStart ==
  ASSUME NEW c, NEW I, NEW s, NEW e, Body(c, I, s, e),
         NEW dyn, 0 \in DOMAIN dyn, dyn[0] = 0
  PROVE  Tracks(c, I, s, 1, 1, dyn)
BY CountStart DEF Tracks

LEMMA TracksBlock ==
  ASSUME NEW c, NEW I, NEW s, NEW e, Body(c, I, s, e), NEW p \in I, c[p] \in BlockOps,
         NEW depth, NEW ctr, NEW dyn, Tracks(c, I, p, depth, ctr, dyn)
  PROVE  Tracks(c, I, NextInstr(c, p), depth + 1, ctr + 1, Set(dyn, depth, ctr))
<1> DEFINE q == NextInstr(c, p)
           new == Set(dyn, depth, ctr)
<1>1. /\ depth = Nesting(c, I, p) /\ ctr = Num(c, I, p) /\ dyn[0] = 0 /\ 0 \in DOMAIN dyn
      /\ \A d \in 1..(depth - 1) :
           /\ d \in DOMAIN dyn
           /\ \E b \in Opens(c, I) :
                OpenAt(c, I, b, p) /\ Nesting(c, I, b) = d /\ dyn[d] = Num(c, I, b)
  BY DEF Tracks
<1>2. p \in Nat /\ depth \in Int /\ depth >= 1
  BY <1>1, Addresses, Counted, NestingPositive
<1>3. /\ Nesting(c, I, q) = depth + 1 /\ Num(c, I, q) = ctr + 1
  BY <1>1, CountStep
<1>4. /\ DOMAIN new = DOMAIN dyn \cup {depth} /\ new[depth] = ctr
      /\ \A d \in DOMAIN dyn : d # depth => new[d] = dyn[d]
  BY DEF Set
<1> HIDE DEF new, q
<1>5. new[0] = 0 /\ 0 \in DOMAIN new
  BY <1>1, <1>2, <1>4
<1>6. ASSUME NEW d \in 1..depth
      PROVE  /\ d \in DOMAIN new
             /\ \E b \in Opens(c, I) :
                  OpenAt(c, I, b, q) /\ Nesting(c, I, b) = d /\ new[d] = Num(c, I, b)
  <2>1. CASE d = depth
    <3>1. p \in Opens(c, I) /\ OpenAt(c, I, p, q)
      BY OpenNext DEF q
    <3> QED
      BY <1>1, <1>4, <2>1, <3>1
  <2>2. CASE d # depth
    <3>1. d \in 1..(depth - 1)
      BY <1>2, <2>2
    <3>2. PICK b \in Opens(c, I) :
             OpenAt(c, I, b, p) /\ Nesting(c, I, b) = d /\ dyn[d] = Num(c, I, b)
      BY <1>1, <3>1
    <3>3. Nesting(c, I, q) > Nesting(c, I, b)
      BY <1>2, <1>3, <3>1, <3>2
    <3>4. OpenAt(c, I, b, q)
      BY <3>2, <3>3, OpenNext DEF q
    <3> QED
      BY <1>1, <1>4, <2>2, <3>1, <3>2, <3>4
  <2> QED
    BY <2>1, <2>2
<1> DEFINE n == depth + 1
           k == ctr + 1
<1>7. n = Nesting(c, I, q) /\ k = Num(c, I, q)
  BY <1>3
<1>8. n - 1 = depth
  BY <1>2
<1> HIDE DEF n, k
<1>9. \A d \in 1..(n - 1) :
        /\ d \in DOMAIN new
        /\ \E b \in Opens(c, I) :
             OpenAt(c, I, b, q) /\ Nesting(c, I, b) = d /\ new[d] = Num(c, I, b)
  BY <1>6, <1>8
<1>10. Tracks(c, I, q, n, k, new)
  BY <1>5, <1>7, <1>9 DEF Tracks
<1> QED
  BY <1>10 DEF new, q, n, k

\* After an instruction that opens nothing, the stack is read as far as before.
LEMMA TracksNext ==
  ASSUME NEW c, NEW I, NEW s, NEW e, Body(c, I, s, e), NEW p \in I, c[p] \notin BlockOps,
         NEW depth, NEW ctr, NEW dyn, Tracks(c, I, p, depth, ctr, dyn)
  PROVE  Tracks(c, I, NextInstr(c, p), IF c[p] = WASM_OP_END THEN depth - 1 ELSE depth,
                ctr, dyn)
<1> DEFINE q == NextInstr(c, p)
           n == IF c[p] = WASM_OP_END THEN depth - 1 ELSE depth
<1>1. /\ depth = Nesting(c, I, p) /\ ctr = Num(c, I, p) /\ dyn[0] = 0 /\ 0 \in DOMAIN dyn
      /\ \A d \in 1..(depth - 1) :
           /\ d \in DOMAIN dyn
           /\ \E b \in Opens(c, I) :
                OpenAt(c, I, b, p) /\ Nesting(c, I, b) = d /\ dyn[d] = Num(c, I, b)
  BY DEF Tracks
<1>2. depth \in Int /\ n \in Int /\ n <= depth
  <2>1. p \in Int
    BY Addresses
  <2>2. depth \in Int
    BY <1>1, <2>1, Counted
  <2> QED
    BY <2>2
<1>3. Nesting(c, I, q) = n /\ Num(c, I, q) = ctr
  BY <1>1, CountStep
<1> HIDE DEF n, q
<1>4. ASSUME NEW d \in 1..(n - 1)
      PROVE  /\ d \in DOMAIN dyn
             /\ \E b \in Opens(c, I) :
                  OpenAt(c, I, b, q) /\ Nesting(c, I, b) = d /\ dyn[d] = Num(c, I, b)
  <2>1. d \in 1..(depth - 1) /\ n > d
    BY <1>2
  <2>2. PICK b \in Opens(c, I) :
           OpenAt(c, I, b, p) /\ Nesting(c, I, b) = d /\ dyn[d] = Num(c, I, b)
    BY <1>1, <2>1
  <2>3. OpenAt(c, I, b, q)
    BY <1>3, <2>1, <2>2, OpenNext DEF q
  <2> QED
    BY <1>1, <2>1, <2>2, <2>3
<1> QED
  BY <1>1, <1>3, <1>4 DEF Tracks, n, q

LEMMA TracksReached ==
  ASSUME NEW c, NEW I, NEW p, NEW depth, NEW ctr, NEW dyn, Tracks(c, I, p, depth, ctr, dyn)
  PROVE  Reached(c, I, p)
BY DEF Tracks, Reached

(***************************************************************************)
(* ... and to the table of blocks.                                         *)
(***************************************************************************)

\* No block but b is closed where b is.
LEMMA CloserIs ==
  ASSUME NEW c, NEW I, NEW s, NEW e, Body(c, I, s, e), NEW b \in Opens(c, I),
         NEW p \in I, ClosedBy(c, I, b, p)
  PROVE  /\ MatchingEnd(c, I, b) = p
         /\ \A a \in Opens(c, I) : MatchingEnd(c, I, a) = p => a = b
<1> DEFINE q == NextInstr(c, p)
<1>1. PICK m : m = MatchingEnd(c, I, b)
  OBVIOUS
<1>2. m \in I /\ m \in Nat /\ p \in Nat /\ e \in Nat /\ q \in Nat /\ m < e
      /\ OpenAt(c, I, b, m) /\ b \in Nat
  BY <1>1, MatchingEndIs, Addresses DEF ClosedBy, Closes, Opens
<1>3. OpenAt(c, I, b, p) /\ Nesting(c, I, q) = Nesting(c, I, b) /\ b < p
  BY DEF ClosedBy, OpenAt
<1>4. p <= m
  BY <1>1, <1>3, OpenUntilEnd
<1>5. ASSUME p < m PROVE FALSE
  <2>1. q <= m /\ p < q /\ q \in I \cup {e}
    BY <1>2, <1>5, Addresses
  <2>2. q \in I /\ b < q
    BY <1>2, <1>3, <2>1
  <2>3. Nesting(c, I, q) > Nesting(c, I, b)
    BY <1>2, <2>1, <2>2 DEF OpenAt
  <2>4. Nesting(c, I, b) \in Int
    BY <1>2, Counted
  <2> QED
    BY <1>3, <2>3, <2>4
<1>6. m = p
  BY <1>2, <1>4, <1>5
<1>7. ASSUME NEW a \in Opens(c, I), MatchingEnd(c, I, a) = p PROVE a = b
  <2>1. OpenAt(c, I, a, p) /\ Nesting(c, I, q) = Nesting(c, I, a)
    BY <1>7, MatchingEndIs DEF ClosedBy
  <2> QED
    BY <1>3, <2>1, OpenOrdered
<1> QED
  BY <1>1, <1>6, <1>7

\* Where the `end' of a block is.
LEMMA EndBehind ==
  ASSUME NEW c, NEW I, NEW s, NEW e, Body(c, I, s, e), NEW b \in Opens(c, I)
  PROVE  /\ b \in I /\ b \in Nat /\ c[b] \in BlockOps
         /\ MatchingEnd(c, I, b) \in I /\ MatchingEnd(c, I, b) \in Nat
         /\ c[MatchingEnd(c, I, b)] = WASM_OP_END
         /\ b < MatchingEnd(c, I, b) /\ MatchingEnd(c, I, b) < e
<1>1. MatchingEnd(c, I, b) \in Closes(c, I) /\ b < MatchingEnd(c, I, b)
  BY MatchingEndIs DEF ClosedBy, OpenAt
<1> QED
  BY <1>1, Addresses DEF Closes, Opens

\* The blocks before the next instruction are those before this one and itself.
LEMMA BeforeNext ==
  ASSUME NEW c, NEW I, NEW s, NEW e, Body(c, I, s, e), NEW p \in I, NEW r \in I,
         r < NextInstr(c, p)
  PROVE  r = p \/ r < p
<1>1. p \in Nat /\ r \in Nat /\ (p < r => NextInstr(c, p) <= r) /\ NextInstr(c, p) \in Nat
  BY Addresses
<1> QED
  BY <1>1

LEMMA RecordsStart ==
  ASSUME NEW c, NEW I, NEW s, NEW e, Body(c, I, s, e), NEW blocks, 0 \in DOMAIN blocks,
         blocks[0].op = WASM_OP_BLOCK, blocks[0].start_addr = s
  PROVE  Records(c, I, s, s, blocks)
<1>1. ASSUME NEW b \in Opens(c, I) PROVE ~ (b < s) /\ ~ (MatchingEnd(c, I, b) < s)
  <2>1. b \in I /\ b \in Nat /\ MatchingEnd(c, I, b) \in I
    BY EndBehind
  <2> QED
    BY <2>1, Addresses
<1> QED
  BY <1>1 DEF Records

LEMMA RecordsBlock ==
  ASSUME NEW c, NEW I, NEW s, NEW e, Body(c, I, s, e), NEW p \in I, c[p] \in BlockOps,
         NEW blocks, Records(c, I, s, p, blocks),
         NEW B, B.op = c[p], B.start_addr = p + 2
  PROVE  Records(c, I, s, NextInstr(c, p), Set(blocks, Num(c, I, p), B))
<1> DEFINE q == NextInstr(c, p)
           new == Set(blocks, Num(c, I, p), B)
<1>1. p \in Nat /\ p \in Opens(c, I) /\ Num(c, I, p) \in Nat \ {0} /\ q \in Nat
  <2>1. p \in Nat /\ p \in Opens(c, I) /\ q \in Nat
    BY Addresses DEF Opens
  <2> QED
    BY <2>1, Counted
<1>2. /\ Num(c, I, p) \in DOMAIN new /\ new[Num(c, I, p)] = B
      /\ DOMAIN blocks \subseteq DOMAIN new
      /\ \A x \in DOMAIN blocks : x # Num(c, I, p) => new[x] = blocks[x]
  BY DEF Set
<1> HIDE DEF new, q
<1>3. 0 \in DOMAIN new /\ new[0].op = WASM_OP_BLOCK /\ new[0].start_addr = s
  BY <1>1, <1>2 DEF Records
<1>4. ASSUME NEW b \in Opens(c, I), b # p, b < p
      PROVE  Num(c, I, b) \in DOMAIN new /\ new[Num(c, I, b)] = blocks[Num(c, I, b)]
  <2>1. Num(c, I, b) # Num(c, I, p)
    BY <1>1, <1>4, NumInjective
  <2> QED
    BY <1>2, <1>4, <2>1 DEF Records
<1>5. ASSUME NEW b \in Opens(c, I), b < q
      PROVE  /\ Num(c, I, b) \in DOMAIN new
             /\ new[Num(c, I, b)].op = c[b]
             /\ new[Num(c, I, b)].start_addr = b + 2
  <2>1. CASE b = p
    BY <1>2, <2>1
  <2>2. CASE b # p
    <3>1. b < p
      BY <1>5, <2>2, BeforeNext DEF q, Opens
    <3> QED
      BY <1>4, <2>2, <3>1 DEF Records
  <2> QED
    BY <2>1, <2>2
<1>6. ASSUME NEW b \in Opens(c, I), MatchingEnd(c, I, b) < q
      PROVE  new[Num(c, I, b)].end_addr = MatchingEnd(c, I, b)
  <2>1. /\ b \in Nat /\ b < MatchingEnd(c, I, b) /\ MatchingEnd(c, I, b) \in I
        /\ MatchingEnd(c, I, b) \in Nat /\ c[MatchingEnd(c, I, b)] = WASM_OP_END
    BY EndBehind
  <2>2. MatchingEnd(c, I, b) # p
    BY <2>1 DEF BlockOps, WASM_OP_END, WASM_OP_BLOCK, WASM_OP_LOOP
  <2>3. MatchingEnd(c, I, b) < p
    BY <1>6, <2>1, <2>2, BeforeNext DEF q
  <2>4. b < p /\ b # p
    BY <1>1, <2>1, <2>3
  <2> QED
    BY <1>4, <2>3, <2>4 DEF Records
<1> QED
  BY <1>3, <1>5, <1>6 DEF Records, new, q

LEMMA RecordsOther ==
  ASSUME NEW c, NEW I, NEW s, NEW e, Body(c, I, s, e), NEW p \in I,
         c[p] \notin BlockOps, c[p] # WASM_OP_END,
         NEW blocks, Records(c, I, s, p, blocks)
  PROVE  Records(c, I, s, NextInstr(c, p), blocks)
<1>1. ASSUME NEW b \in Opens(c, I)
      PROVE  /\ b < NextInstr(c, p) => b < p
             /\ MatchingEnd(c, I, b) < NextInstr(c, p) => MatchingEnd(c, I, b) < p
  BY EndBehind, BeforeNext
<1> QED
  BY <1>1 DEF Records

\* The `end' at p closes block b.
LEMMA RecordsEnd ==
  ASSUME NEW c, NEW I, NEW s, NEW e, Body(c, I, s, e), NEW p \in I, c[p] = WASM_OP_END,
         NEW blocks, Records(c, I, s, p, blocks),
         NEW b \in Opens(c, I), ClosedBy(c, I, b, p),
         NEW B, B.op = blocks[Num(c, I, b)].op,
         B.start_addr = blocks[Num(c, I, b)].start_addr, B.end_addr = p
  PROVE  Records(c, I, s, NextInstr(c, p), Set(blocks, Num(c, I, b), B))
<1> DEFINE q == NextInstr(c, p)
           new == Set(blocks, Num(c, I, b), B)
<1>1. b \in I /\ b \in Nat /\ Num(c, I, b) \in Nat \ {0} /\ b < p
  BY EndBehind, Counted DEF ClosedBy, OpenAt
<1>2. Num(c, I, b) \in DOMAIN blocks
  BY <1>1 DEF Records
<1>3. /\ DOMAIN blocks = DOMAIN new
      /\ new[Num(c, I, b)] = B
      /\ \A x \in DOMAIN blocks : x # Num(c, I, b) => new[x] = blocks[x]
  BY <1>2 DEF Set
<1> HIDE DEF new
<1>4. 0 \in DOMAIN new /\ new[0].op = WASM_OP_BLOCK /\ new[0].start_addr = s
  BY <1>1, <1>3 DEF Records
<1>5. ASSUME NEW a \in Opens(c, I), a < q
      PROVE  /\ Num(c, I, a) \in DOMAIN new
             /\ new[Num(c, I, a)].op = c[a]
             /\ new[Num(c, I, a)].start_addr = a + 2
  <2>1. a < p
    <3>1. a # p
      BY DEF BlockOps, WASM_OP_END, WASM_OP_BLOCK, WASM_OP_LOOP, Opens
    <3> QED
      BY <1>5, <3>1, BeforeNext DEF Opens
  <2>2. /\ Num(c, I, a) \in DOMAIN blocks
        /\ blocks[Num(c, I, a)].op = c[a]
        /\ blocks[Num(c, I, a)].start_addr = a + 2
    BY <2>1 DEF Records
  <2>3. CASE Num(c, I, a) = Num(c, I, b)
    BY <1>3, <2>2, <2>3
  <2>4. CASE Num(c, I, a) # Num(c, I, b)
    BY <1>3, <2>2, <2>4
  <2> QED
    BY <2>3, <2>4
<1>6. ASSUME NEW a \in Opens(c, I), MatchingEnd(c, I, a) < q
      PROVE  new[Num(c, I, a)].end_addr = MatchingEnd(c, I, a)
  <2>1. CASE a = b
    BY <1>3, <2>1, CloserIs
  <2>2. CASE a # b
    <3>1. MatchingEnd(c, I, a) < p
      BY <1>6, <2>2, CloserIs, EndBehind, BeforeNext
    <3>2. a < p
      <4>1. p \in Nat
        BY Addresses
      <4> QED
        BY <3>1, <4>1, EndBehind
    <3>3. Num(c, I, a) # Num(c, I, b)
      BY <2>2, NumInjective
    <3> QED
      BY <1>3, <3>1, <3>2, <3>3 DEF Records
  <2> QED
    BY <2>1, <2>2
<1> QED
  BY <1>4, <1>5, <1>6 DEF Records, new

\* The last `end' closes the function, block 0.
LEMMA RecordsLast ==
  ASSUME NEW c, NEW I, NEW s, NEW e, Body(c, I, s, e), NEW p \in I, c[p] = WASM_OP_END,
         NextInstr(c, p) = e, NEW blocks, Records(c, I, s, p, blocks),
         NEW B, B.op = blocks[0].op, B.start_addr = blocks[0].start_addr
  PROVE  Records(c, I, s, e, Set(blocks, 0, B))
<1> DEFINE new == Set(blocks, 0, B)
<1>1. /\ DOMAIN blocks = DOMAIN new /\ new[0] = B
      /\ \A x \in DOMAIN blocks : x # 0 => new[x] = blocks[x]
  BY DEF Records, Set
<1> HIDE DEF new
<1>2. 0 \in DOMAIN new /\ new[0].op = WASM_OP_BLOCK /\ new[0].start_addr = s
  BY <1>1 DEF Records
<1>3. ASSUME NEW a \in Opens(c, I)
      PROVE  a < p /\ MatchingEnd(c, I, a) < p /\ Num(c, I, a) # 0
  <2>1. /\ a \in I /\ a \in Nat /\ a < MatchingEnd(c, I, a) /\ MatchingEnd(c, I, a) \in I
        /\ MatchingEnd(c, I, a) \in Nat /\ MatchingEnd(c, I, a) < e /\ p \in Nat
    BY EndBehind, Addresses
  <2>2. MatchingEnd(c, I, a) # p
    <3>1. Nesting(c, I, e) = 0
      BY DEF Body
    <3>2. Nesting(c, I, a) >= 1 /\ Nesting(c, I, a) \in Int
      BY <2>1, NestingPositive, Counted
    <3> QED
      BY <3>1, <3>2, MatchingEndIs DEF ClosedBy
  <2>3. MatchingEnd(c, I, a) < p
    BY <2>1, <2>2, BeforeNext
  <2> QED
    BY <2>1, <2>3, Counted
<1>4. ASSUME NEW a \in Opens(c, I)
      PROVE  Num(c, I, a) \in DOMAIN new /\ new[Num(c, I, a)] = blocks[Num(c, I, a)]
  BY <1>1, <1>3 DEF Records
<1> QED
  BY <1>2, <1>3, <1>4 DEF Records, new

\* The labels behind p are still labels; those of p have been replaced.
LEMMA LandsNext ==
  ASSUME NEW c, NEW k, NEW p \in InstrsOf(c, k),
         Body(c, InstrsOf(c, k), CodeStart(c, k), CodeEnd(c, k)),
         NEW cd, NEW new, Lands(c, cd, k, p),
         \A q \in InstrsOf(c, k) : q < p => \A a \in LabelSlots(c, q) : new[a] = cd[a],
         \A a \in LabelSlots(c, p) :
           (a + 1) + new[a] = LabelTarget(c, CodeStart(c, k), CodeEnd(c, k), p, c[a])
  PROVE  Lands(c, new, k, NextInstr(c, p))
<1> SUFFICES ASSUME NEW q \in InstrsOf(c, k), q < NextInstr(c, p), NEW a \in LabelSlots(c, q)
             PROVE  (a + 1) + new[a] = LabelTarget(c, CodeStart(c, k), CodeEnd(c, k), q, c[a])
  BY DEF Lands
<1>1. CASE q = p
  BY <1>1
<1>2. CASE q # p
  <2>1. q < p
    BY <1>2, BeforeNext
  <2>2. (a + 1) + cd[a] = LabelTarget(c, CodeStart(c, k), CodeEnd(c, k), q, c[a])
    BY <2>1 DEF Lands
  <2> QED
    BY <2>1, <2>2
<1> QED
  BY <1>1, <1>2

\* A function ends with the `end' that leaves no block open, and nowhere else.
LEMMA InsideNext ==
  ASSUME NEW c, NEW I, NEW s, NEW e, Body(c, I, s, e), NEW p \in I
  PROVE  /\ c[p] # WASM_OP_END => NextInstr(c, p) \in I /\ NextInstr(c, p) # e
         /\ c[p] = WASM_OP_END => (NextInstr(c, p) = e <=> Nesting(c, I, p) = 1)
         /\ NextInstr(c, p) # e => NextInstr(c, p) \in I
<1> DEFINE q == NextInstr(c, p)
<1>1. q \in I \cup {e} /\ q \in Nat /\ p \in Nat
  BY Addresses
<1>2. Nesting(c, I, p) \in Int /\ Nesting(c, I, p) >= 1
  BY <1>1, Counted, NestingPositive
<1>3. Nesting(c, I, q) = 0 <=> q = e
  BY DEF Body
<1>4. c[p] = WASM_OP_END => Nesting(c, I, q) = Nesting(c, I, p) - 1
  BY CountStep DEF BlockOps, WASM_OP_END, WASM_OP_BLOCK, WASM_OP_LOOP
<1>5. c[p] # WASM_OP_END => Nesting(c, I, q) \in {Nesting(c, I, p), Nesting(c, I, p) + 1}
  BY CountStep
<1> HIDE DEF q
<1> QED
  BY <1>1, <1>2, <1>3, <1>4, <1>5 DEF q

\* Two codes that agree on an instruction have the same instruction.
LEMMA SameInstr ==
  ASSUME NEW c, NEW d, NEW p, c[p] = d[p], c[p] = WASM_OP_BR_TABLE => c[p + 1] = d[p + 1]
  PROVE  NextInstr(c, p) = NextInstr(d, p) /\ LabelSlots(c, p) = LabelSlots(d, p)
<1>1. Immediates(c, p) = Immediates(d, p)
  BY DEF Immediates
<1> QED
  BY <1>1 DEF NextInstr, LabelSlots

-----------------------------------------------------------------------------
(***************************************************************************)
(* Arrays that are written where they may not have been defined.           *)
(***************************************************************************)
Arrays(R) == UNION {[D -> R] : D \in SUBSET Nat}

LEMMA SetIs ==
  ASSUME NEW f, NEW x, NEW y
  PROVE  /\ DOMAIN Set(f, x, y) = DOMAIN f \cup {x}
         /\ Set(f, x, y)[x] = y
         /\ \A z \in DOMAIN f : z # x => Set(f, x, y)[z] = f[z]
BY DEF Set

LEMMA SetType ==
  ASSUME NEW R, NEW f \in Arrays(R), NEW x \in Nat, NEW y \in R
  PROVE  Set(f, x, y) \in Arrays(R)
<1>1. PICK D \in SUBSET Nat : f \in [D -> R]
  BY DEF Arrays
<1>2. Set(f, x, y) \in [D \cup {x} -> R]
  BY <1>1 DEF Set
<1>3. D \cup {x} \in SUBSET Nat
  OBVIOUS
<1> QED
  BY <1>2, <1>3 DEF Arrays

\* Writing what is there already changes nothing.
LEMMA SetSame ==
  ASSUME NEW R, NEW f \in Arrays(R), NEW x \in DOMAIN f
  PROVE  Set(f, x, f[x]) = f
<1>1. PICK D \in SUBSET Nat : f \in [D -> R]
  BY DEF Arrays
<1>2. DOMAIN f = D /\ D \cup {x} = D
  BY <1>1
<1>3. Set(f, x, f[x]) = [z \in D |-> f[z]]
  BY <1>2 DEF Set
<1> QED
  BY <1>1, <1>3

LEMMA BlockAtType ==
  ASSUME static_blocks \in Arrays(BlockInfo), NEW n PROVE BlockAt(n) \in BlockInfo
<1>1. PICK D \in SUBSET Nat : static_blocks \in [D -> BlockInfo]
  BY DEF Arrays
<1>2. NoBlock \in BlockInfo
  BY DEF NoBlock, BlockInfo
<1> QED
  BY <1>1, <1>2 DEF BlockAt

-----------------------------------------------------------------------------
(***************************************************************************)
(* The invariant holds at first, and every step keeps it.                  *)
(***************************************************************************)

\* What the invariant says of the instruction decode_expr is at.
LEMMA AtInstr ==
  ASSUME LInv, phase = "expr"
  PROVE  /\ WellFormed(file) /\ i \in 0..(file[1] - 1)
         /\ Body(file, InstrsOf(file, i), CodeStart(file, i), CodeEnd(file, i))
         /\ ptr \in InstrsOf(file, i) /\ ptr \in Nat /\ CodeStart(file, i) <= ptr
         /\ Frontier <= ptr /\ Frontier \in Nat
         /\ code[ptr] = file[ptr] /\ ptr \in DOMAIN code
         /\ code[ptr] = WASM_OP_BR_TABLE => code[ptr + 1] = file[ptr + 1] /\ file[ptr + 1] \in Nat
         /\ \A a \in LabelSlots(file, ptr) : code[a] = file[a] /\ a \in DOMAIN code
         /\ NextInstr(code, ptr) = NextInstr(file, ptr)
         /\ LabelSlots(code, ptr) = LabelSlots(file, ptr)
         /\ Nesting(file, InstrsOf(file, i), ptr) = scope
         /\ Num(file, InstrsOf(file, i), ptr) = static_ctr
         /\ scope \in Nat /\ scope >= 1 /\ static_ctr \in Nat
<1>1. /\ WellFormed(file) /\ i \in 0..(file[1] - 1) /\ ptr \in InstrsOf(file, i)
      /\ DOMAIN code = DOMAIN file /\ scope \in Nat /\ static_ctr \in Nat
      /\ Nesting(file, InstrsOf(file, i), ptr) = scope
      /\ Num(file, InstrsOf(file, i), ptr) = static_ctr
      /\ \A a \in DOMAIN code : a >= Frontier => code[a] = file[a]
  BY DEF LInv, Typed, Placed, Tracked, Tracks, InBody, CodeAhead
<1>2. Body(file, InstrsOf(file, i), CodeStart(file, i), CodeEnd(file, i))
  BY <1>1, BodyFacts
<1>3. /\ ptr \in DOMAIN file
      /\ file[ptr] = WASM_OP_BR_TABLE => file[ptr + 1] \in Nat /\ ptr + 1 \in DOMAIN file
      /\ \A a \in LabelSlots(file, ptr) : a \in DOMAIN file /\ ptr < a
  BY <1>1, BodyFacts
<1>4. ptr \in Nat /\ CodeStart(file, i) <= ptr /\ CodeStart(file, i) \in Nat
  BY <1>1, <1>2, Addresses
<1>5. Frontier <= ptr /\ Frontier \in Nat
  BY <1>4 DEF Frontier
<1>6. code[ptr] = file[ptr]
  BY <1>1, <1>3, <1>5
<1>7. file[ptr] = WASM_OP_BR_TABLE => code[ptr + 1] = file[ptr + 1]
  <2>1. ptr + 1 >= Frontier
    BY <1>4, <1>5
  <2> QED
    BY <1>1, <1>3, <2>1
<1>8. ASSUME NEW a \in LabelSlots(file, ptr) PROVE code[a] = file[a] /\ a \in DOMAIN code
  <2>1. a \in DOMAIN file /\ ptr < a /\ a \in Nat
    BY <1>1, <1>3 DEF WellFormed
  <2>2. a >= Frontier
    BY <1>4, <1>5, <2>1
  <2> QED
    BY <1>1, <2>1, <2>2
<1>9. NextInstr(code, ptr) = NextInstr(file, ptr) /\ LabelSlots(code, ptr) = LabelSlots(file, ptr)
  BY <1>6, <1>7, SameInstr
<1>10. scope >= 1
  BY <1>1, <1>2, NestingPositive
<1> QED
  BY <1>1, <1>2, <1>3, <1>4, <1>5, <1>6, <1>7, <1>8, <1>9, <1>10

\* Where a label of that instruction leads, in the second run.
LEMMA TargetIs ==
  ASSUME LInv, phase = "expr", replace_last, NEW a \in LabelSlots(file, ptr)
  PROVE  /\ Target(code[a]) \in Int
         /\ Target(code[a]) = LabelTarget(file, CodeStart(file, i), CodeEnd(file, i), ptr, file[a])
<1> DEFINE I == InstrsOf(file, i)
           e == CodeEnd(file, i)
           d == scope - file[a] - 1
<1>1. /\ WellFormed(file) /\ i \in 0..(file[1] - 1) /\ ptr \in I /\ ptr \in Nat
      /\ Body(file, I, CodeStart(file, i), e) /\ code[a] = file[a]
      /\ Nesting(file, I, ptr) = scope /\ scope \in Nat /\ scope >= 1
  BY AtInstr
<1>2. file[a] \in 0..(scope - 1)
  BY <1>1, BodyFacts
<1>3. file[ptr] # WASM_OP_END
  BY DEF LabelSlots, WASM_OP_END, WASM_OP_BR, WASM_OP_BR_IF, WASM_OP_BR_TABLE
<1>4. /\ Tracks(file, I, ptr, scope, static_ctr, dyn2static)
      /\ Records(file, I, CodeStart(file, i), e, static_blocks)
      /\ static_blocks[0].end_addr = e - 1
      /\ static_blocks \in UNION {[D -> BlockInfo] : D \in SUBSET Nat}
  BY DEF LInv, Tracked, Recorded, Typed, InBody, Read
<1>5. Reached(file, I, ptr)
  BY <1>4, TracksReached
<1>6. e \in Nat
  BY <1>1, Addresses
<1>7. \A x \in DOMAIN static_blocks : static_blocks[x] \in BlockInfo
  BY <1>4
<1>8. I = InstrStarts(file, CodeStart(file, i), e)
  BY DEF InstrsOf
<1>9. d \in 0..(scope - 1) /\ Target(code[a]) =
        LET block == BlockAt(dyn2static[d])
        IN IF block.op = WASM_OP_LOOP THEN block.start_addr ELSE block.end_addr
  BY <1>1, <1>2 DEF Target
<1> DEFINE T == LabelTarget(file, CodeStart(file, i), e, ptr, file[a])
<1>10. /\ file[a] = scope - 1 => T = e - 1
       /\ \A b \in Opens(file, I) :
            OpenAt(file, I, b, ptr) /\ Nesting(file, I, b) = scope - 1 - file[a] =>
              T = IF file[b] = WASM_OP_LOOP THEN b + 2 ELSE MatchingEnd(file, I, b)
  <2> HIDE DEF I, e
  <2>1. file[a] \in 0..(Nesting(file, I, ptr) - 1)
    BY <1>1, <1>2
  <2>2. /\ file[a] = Nesting(file, I, ptr) - 1 => T = e - 1
        /\ \A b \in Opens(file, I) :
             OpenAt(file, I, b, ptr) /\ Nesting(file, I, b) = Nesting(file, I, ptr) - 1 - file[a] =>
               T = IF file[b] = WASM_OP_LOOP THEN b + 2 ELSE MatchingEnd(file, I, b)
    BY <1>1, <1>3, <1>5, <1>8, <2>1, LabelTargetIs
  <2> QED
    BY <1>1, <2>2
<1> HIDE DEF I, e, T, d
<1>11. CASE d = 0
  <2>1. T = e - 1
    BY <1>1, <1>2, <1>10, <1>11 DEF d
  <2>2. dyn2static[d] = 0
    BY <1>4, <1>11 DEF Tracks
  <2>3. BlockAt(0) = static_blocks[0] /\ static_blocks[0].op = WASM_OP_BLOCK
    BY <1>4 DEF BlockAt, Records
  <2>4. WASM_OP_BLOCK # WASM_OP_LOOP
    BY DEF WASM_OP_BLOCK, WASM_OP_LOOP
  <2>5. Target(code[a]) = e - 1
    BY <1>4, <1>9, <2>2, <2>3, <2>4
  <2> QED
    BY <1>6, <2>1, <2>5 DEF T, e
<1>12. CASE d # 0
  <2>1. d \in 1..(scope - 1)
    BY <1>1, <1>9, <1>12
  <2>2. PICK b \in Opens(file, I) : /\ OpenAt(file, I, b, ptr) /\ Nesting(file, I, b) = d
                                    /\ dyn2static[d] = Num(file, I, b)
    BY <1>4, <2>1 DEF Tracks
  <2>3. /\ b \in Nat /\ MatchingEnd(file, I, b) \in Nat /\ b < e /\ MatchingEnd(file, I, b) < e
    BY <1>1, <1>6, EndBehind
  <2>4. /\ Num(file, I, b) \in DOMAIN static_blocks
        /\ static_blocks[Num(file, I, b)].op = file[b]
        /\ static_blocks[Num(file, I, b)].start_addr = b + 2
        /\ static_blocks[Num(file, I, b)].end_addr = MatchingEnd(file, I, b)
    BY <1>4, <2>3 DEF Records
  <2>5. BlockAt(dyn2static[d]) = static_blocks[Num(file, I, b)]
    BY <2>2, <2>4 DEF BlockAt
  <2>6. Target(code[a]) = IF file[b] = WASM_OP_LOOP THEN b + 2 ELSE MatchingEnd(file, I, b)
    BY <1>9, <2>4, <2>5
  <2>7. d = scope - 1 - file[a]
    BY <1>1, <1>2 DEF d
  <2>8. T = IF file[b] = WASM_OP_LOOP THEN b + 2 ELSE MatchingEnd(file, I, b)
    BY <1>10, <2>2, <2>7
  <2> QED
    BY <2>3, <2>6, <2>8 DEF T, e
<1> QED
  BY <1>11, <1>12

\* decode_expr reads the instruction it is at, and returns behind the last one.
Advances ==
  /\ phase = "expr"
  /\ UNCHANGED <<file, i, replace_last, code_start, code_end, num_locals>>
  /\ ptr' = NextInstr(file, ptr)
  /\ phase' = IF NextInstr(file, ptr) = CodeEnd(file, i) THEN "expr_end" ELSE "expr"

\* The code it leaves: only the second run writes, offsets for the labels.
Patches ==
  /\ DOMAIN code' = DOMAIN code /\ \A a \in DOMAIN code : code'[a] \in Int
  /\ \A a \in DOMAIN code : a \notin LabelSlots(file, ptr) => code'[a] = code[a]
  /\ ~replace_last => code' = code
  /\ replace_last =>
       \A a \in LabelSlots(file, ptr) :
         (a + 1) + code'[a] = LabelTarget(file, CodeStart(file, i), CodeEnd(file, i), ptr, file[a])

LEMMA AdvanceKeeps ==
  ASSUME LInv, Advances, Patches
  PROVE  Placed' /\ Listed' /\ CodeAhead' /\ Landed'
<1> DEFINE I == InstrsOf(file, i)
           s == CodeStart(file, i)
           e == CodeEnd(file, i)
           q == NextInstr(file, ptr)
<1>1. /\ phase = "expr" /\ ptr' = q
      /\ phase' = IF q = e THEN "expr_end" ELSE "expr"
      /\ UNCHANGED <<file, i, replace_last, code_start, code_end, num_locals>>
  BY DEF Advances
<1>2. /\ WellFormed(file) /\ i \in 0..(file[1] - 1) /\ ptr \in I /\ ptr \in Nat
      /\ Body(file, I, s, e) /\ s <= ptr /\ Frontier <= ptr /\ Frontier \in Nat
  BY <1>1, AtInstr
<1>3. q \in Nat /\ ptr < q /\ s \in Nat /\ e \in Nat
  BY <1>2, Addresses
<1>4. q # e => q \in I
  BY <1>2, InsideNext
<1>5. InBody /\ InBody'
  BY <1>1 DEF InBody
<1> HIDE DEF I, s, e, q
<1>6. Placed'
  BY <1>1, <1>2, <1>4 DEF Placed, InBody, I, e
<1>7. Listed'
  <2>1. InBody' <=> InBody
    BY <1>5
  <2> QED
    BY <1>1, <1>5, <2>1 DEF LInv, Listed
<1>8. Frontier' \in Nat /\ Frontier <= Frontier' /\ (replace_last => Frontier' = q)
  <2>1. ~replace_last => Frontier = s /\ Frontier' = s
    BY <1>1, <1>5 DEF Frontier, s
  <2>2. replace_last => Frontier = ptr /\ Frontier' = q
    BY <1>1, <1>5 DEF Frontier
  <2> QED
    BY <1>2, <1>3, <2>1, <2>2
<1>9. DOMAIN code' = DOMAIN code /\ DOMAIN code = DOMAIN file /\ file \in Seq(Int)
  BY DEF Patches, LInv, Typed, WellFormed
<1>10. CodeAhead'
  <2> SUFFICES ASSUME NEW a \in DOMAIN code, a >= Frontier' PROVE code'[a] = file[a]
    BY <1>1, <1>9 DEF CodeAhead
  <2>1. a \in Nat
    BY <1>9
  <2>2. code[a] = file[a]
    BY <1>2, <1>8, <2>1 DEF LInv, CodeAhead
  <2>3. CASE ~replace_last
    BY <2>2, <2>3 DEF Patches
  <2>4. CASE replace_last
    <3>1. a >= q
      BY <1>8, <2>4
    <3>2. a \notin LabelSlots(file, ptr)
      BY <1>2, <1>3, <2>1, <3>1, BodyFacts DEF I, q
    <3> QED
      BY <2>2, <3>2 DEF Patches
  <2> QED
    BY <2>3, <2>4
<1>11. \A k \in 0..(i - 1) : Lands(file, code', k, CodeEnd(file, k))
  <2> TAKE k \in 0..(i - 1)
  <2>1. k \in 0..(file[1] - 1) /\ i \in Nat /\ k \in Nat
    <3>1. file[1] \in Nat
      BY <1>2 DEF WellFormed
    <3> QED
      BY <1>2, <3>1
  <2>2. Lands(file, code, k, CodeEnd(file, k)) /\ CodeEnd(file, k) <= s
    BY <1>5 DEF LInv, Landed, Listed, s
  <2>3. CodeEnd(file, k) \in Nat
    BY <1>2, <2>1, BodyIs
  <2> SUFFICES ASSUME NEW r \in InstrsOf(file, k), r < CodeEnd(file, k),
                      NEW a \in LabelSlots(file, r)
               PROVE  code'[a] = code[a]
    BY <2>2 DEF Lands
  <2>4. a \in DOMAIN file /\ a < NextInstr(file, r)
    BY <1>2, <2>1, BodyFacts
  <2>5. NextInstr(file, r) <= CodeEnd(file, k) /\ NextInstr(file, r) \in Nat
    BY <1>2, <2>1, BodyFacts, Addresses
  <2>6. a \in Nat /\ a < ptr
    BY <1>2, <1>3, <1>9, <2>2, <2>3, <2>4, <2>5
  <2>7. a \notin LabelSlots(file, ptr)
    BY <1>2, <2>6, BodyFacts DEF I
  <2> QED
    BY <1>9, <2>4, <2>7 DEF Patches
<1>12. replace_last => Lands(file, code', i, q)
  <2> SUFFICES ASSUME replace_last PROVE Lands(file, code', i, q)
    OBVIOUS
  <2>1. Lands(file, code, i, ptr)
    BY <1>5 DEF LInv, Landed
  <2>2. ASSUME NEW r \in I, r < ptr, NEW a \in LabelSlots(file, r) PROVE code'[a] = code[a]
    <3>1. a \in DOMAIN file /\ a < NextInstr(file, r)
      BY <1>2, BodyFacts DEF I
    <3>2. NextInstr(file, r) <= ptr /\ NextInstr(file, r) \in Nat
      BY <1>2, <2>2, Addresses
    <3>3. a \in Nat /\ a < ptr
      BY <1>2, <1>9, <3>1, <3>2
    <3>4. a \notin LabelSlots(file, ptr)
      BY <1>2, <3>3, BodyFacts DEF I
    <3> QED
      BY <1>9, <3>1, <3>4 DEF Patches
  <2>3. \A a \in LabelSlots(file, ptr) :
          (a + 1) + code'[a] = LabelTarget(file, s, e, ptr, file[a])
    BY DEF Patches, s, e
  <2> QED
    BY <1>2, <2>1, <2>2, <2>3, LandsNext DEF I, s, e, q
<1>13. Landed'
  BY <1>1, <1>5, <1>11, <1>12 DEF Landed
<1> QED
  BY <1>6, <1>7, <1>10, <1>13

LEMMA UnpatchedPatches ==
  ASSUME LInv, phase = "expr", code' = code, LabelSlots(file, ptr) = {}
  PROVE  Patches
BY DEF Patches, LInv, Typed

LEMMA BlockKeeps ==
  LInv /\ DecodeBlock => LInv' /\ (replace_last => static_blocks' = static_blocks)
<1> SUFFICES ASSUME LInv, DecodeBlock
             PROVE  LInv' /\ (replace_last => static_blocks' = static_blocks)
  OBVIOUS
<1> DEFINE I == InstrsOf(file, i)
           s == CodeStart(file, i)
           e == CodeEnd(file, i)
           new == [BlockAt(static_ctr) EXCEPT !.op = code[ptr], !.start_addr = ptr + 2]
<1>1. /\ phase = "expr" /\ code[ptr] \in BlockOps /\ ptr' = ptr + 2
      /\ static_blocks' = Set(static_blocks, static_ctr, new)
      /\ dyn2static' = Set(dyn2static, scope, static_ctr)
      /\ static_ctr' = static_ctr + 1 /\ scope' = scope + 1
      /\ UNCHANGED <<file, code, phase, i, replace_last, code_start, code_end, num_locals>>
  BY DEF DecodeBlock, Decode, StartBlock, sectionVars
<1>2. /\ WellFormed(file) /\ i \in 0..(file[1] - 1) /\ ptr \in I /\ ptr \in Nat
      /\ Body(file, I, s, e) /\ code[ptr] = file[ptr] /\ ptr \in DOMAIN code
      /\ file[ptr] \in BlockOps /\ file[ptr] # WASM_OP_END /\ file[ptr] # WASM_OP_BR_TABLE
      /\ Nesting(file, I, ptr) = scope /\ Num(file, I, ptr) = static_ctr
      /\ scope \in Nat /\ scope >= 1 /\ static_ctr \in Nat
  BY <1>1, AtInstr DEF BlockOps, WASM_OP_BLOCK, WASM_OP_LOOP, WASM_OP_END, WASM_OP_BR_TABLE
<1>3. /\ NextInstr(file, ptr) = ptr + 2 /\ NextInstr(file, ptr) # e
      /\ NextInstr(file, ptr) \in I
  BY <1>2, Instruction, InsideNext
<1>4. LabelSlots(file, ptr) = {}
  BY <1>2 DEF LabelSlots, BlockOps, WASM_OP_BLOCK, WASM_OP_LOOP, WASM_OP_BR, WASM_OP_BR_IF,
     WASM_OP_BR_TABLE
<1>5. Advances
  BY <1>1, <1>3 DEF Advances
<1>6. Placed' /\ Listed' /\ CodeAhead' /\ Landed'
  BY <1>1, <1>4, <1>5, UnpatchedPatches, AdvanceKeeps
<1>7. /\ dyn2static \in Arrays(Nat) /\ static_blocks \in Arrays(BlockInfo)
      /\ \A a \in DOMAIN code : code[a] \in Int
      /\ Tracks(file, I, ptr, scope, static_ctr, dyn2static)
      /\ Records(file, I, s, Read, static_blocks)
      /\ replace_last => static_blocks[0].end_addr = e - 1
  BY <1>1 DEF LInv, Typed, Tracked, Recorded, InBody, Arrays
<1>8. /\ new \in BlockInfo /\ new.op = file[ptr] /\ new.start_addr = ptr + 2
      /\ new.end_addr = BlockAt(static_ctr).end_addr
  <2>1. BlockAt(static_ctr) \in BlockInfo
    BY <1>7, BlockAtType
  <2>2. code[ptr] \in Int /\ ptr + 2 \in Int
    BY <1>2, <1>7
  <2> QED
    BY <1>2, <2>1, <2>2 DEF BlockInfo
<1> HIDE DEF I, s, e, new
<1>9. Typed'
  <2>1. /\ dyn2static' \in Arrays(Nat) /\ static_blocks' \in Arrays(BlockInfo)
        /\ scope' \in Nat /\ static_ctr' \in Nat
    BY <1>1, <1>2, <1>7, <1>8, SetType
  <2> QED
    BY <1>1, <2>1 DEF LInv, Typed, Arrays
<1>10. Tracked'
  <2>1. Tracks(file, I, ptr', scope', static_ctr', dyn2static')
    BY <1>1, <1>2, <1>3, <1>7, TracksBlock
  <2> QED
    BY <1>1, <2>1 DEF Tracked, I
<1>11. CASE ~replace_last
  <2>1. Records(file, I, s, ptr, static_blocks)
    BY <1>7, <1>11 DEF Read
  <2>2. Records(file, I, s, ptr', static_blocks')
    BY <1>1, <1>2, <1>3, <1>8, <2>1, RecordsBlock
  <2>3. Recorded'
    BY <1>1, <1>11, <2>2 DEF Recorded, Read, I, s, e
  <2> QED
    BY <1>6, <1>9, <1>10, <1>11, <2>3 DEF LInv
<1>12. CASE replace_last
  <2>1. Records(file, I, s, e, static_blocks) /\ static_blocks[0].end_addr = e - 1
    BY <1>7, <1>12 DEF Read, e
  <2>2. static_blocks' = static_blocks
    <3>1. ptr < e /\ ptr \in Opens(file, I)
      BY <1>2, Addresses DEF Opens
    <3>2. /\ static_ctr \in DOMAIN static_blocks /\ static_blocks[static_ctr].op = file[ptr]
          /\ static_blocks[static_ctr].start_addr = ptr + 2
      BY <1>2, <2>1, <3>1 DEF Records
    <3>3. static_blocks[static_ctr] \in BlockInfo /\ BlockAt(static_ctr) = static_blocks[static_ctr]
      BY <1>7, <3>2 DEF Arrays, BlockAt
    <3>4. new = static_blocks[static_ctr]
      BY <1>8, <3>2, <3>3 DEF BlockInfo
    <3> QED
      BY <1>1, <1>7, <3>2, <3>4, SetSame
  <2>3. Recorded'
    BY <1>1, <1>12, <2>1, <2>2 DEF Recorded, Read, I, s, e
  <2> QED
    BY <1>6, <1>9, <1>10, <2>2, <2>3 DEF LInv
<1> QED
  BY <1>11, <1>12

LEMMA EndKeeps ==
  LInv /\ DecodeEnd => LInv' /\ (replace_last => static_blocks' = static_blocks)
<1> SUFFICES ASSUME LInv, DecodeEnd
             PROVE  LInv' /\ (replace_last => static_blocks' = static_blocks)
  OBVIOUS
<1> DEFINE I == InstrsOf(file, i)
           s == CodeStart(file, i)
           e == CodeEnd(file, i)
           q == NextInstr(file, ptr)
           n == dyn2static[scope - 1]
           new == [BlockAt(n) EXCEPT !.end_addr = ptr]
<1>1. /\ phase = "expr" /\ code[ptr] = WASM_OP_END /\ ptr' = ptr + 1
      /\ scope' = scope - 1 /\ static_blocks' = Set(static_blocks, n, new)
      /\ phase' = IF scope = 1 THEN "expr_end" ELSE "expr"
      /\ UNCHANGED <<file, code, static_ctr, dyn2static, i, replace_last, code_start,
                     code_end, num_locals>>
  BY DEF DecodeEnd, Decode, sectionVars
<1>2. /\ WellFormed(file) /\ i \in 0..(file[1] - 1) /\ ptr \in I /\ ptr \in Nat
      /\ Body(file, I, s, e) /\ file[ptr] = WASM_OP_END
      /\ file[ptr] \notin BlockOps /\ file[ptr] # WASM_OP_BR_TABLE
      /\ Nesting(file, I, ptr) = scope /\ Num(file, I, ptr) = static_ctr
      /\ scope \in Nat /\ scope >= 1 /\ static_ctr \in Nat
  BY <1>1, AtInstr DEF BlockOps, WASM_OP_BLOCK, WASM_OP_LOOP, WASM_OP_END, WASM_OP_BR_TABLE
<1>3. /\ q = ptr + 1 /\ (q = e <=> scope = 1) /\ (q # e => q \in I)
      /\ e \in Nat /\ s \in Nat
  BY <1>2, Instruction, InsideNext, Addresses
<1>4. LabelSlots(file, ptr) = {}
  BY <1>2 DEF LabelSlots, WASM_OP_END, WASM_OP_BR, WASM_OP_BR_IF, WASM_OP_BR_TABLE
<1>5. Advances
  BY <1>1, <1>3 DEF Advances
<1>6. Placed' /\ Listed' /\ CodeAhead' /\ Landed'
  BY <1>1, <1>4, <1>5, UnpatchedPatches, AdvanceKeeps
<1>7. /\ dyn2static \in Arrays(Nat) /\ static_blocks \in Arrays(BlockInfo)
      /\ Tracks(file, I, ptr, scope, static_ctr, dyn2static)
      /\ Records(file, I, s, Read, static_blocks)
      /\ replace_last => static_blocks[0].end_addr = e - 1
  BY <1>1 DEF LInv, Typed, Tracked, Recorded, InBody, Arrays
\* What is closed is the function or the innermost open block.
<1>8. CASE scope = 1
  <2>1. n = 0
    BY <1>7, <1>8 DEF Tracks
  <2>2. 0 \in DOMAIN static_blocks
    BY <1>7 DEF Records
  <2>3. BlockAt(0) = static_blocks[0] /\ static_blocks[0] \in BlockInfo
    BY <1>7, <2>2, BlockAtType DEF BlockAt
  <2>4. /\ new \in BlockInfo /\ new.op = static_blocks[0].op /\ new.end_addr = ptr
        /\ new.start_addr = static_blocks[0].start_addr
    BY <1>2, <2>1, <2>3 DEF BlockInfo
  <2> HIDE DEF I, s, e, q, n, new
  <2>5. Typed'
    <3>1. scope' \in Nat /\ static_blocks' \in Arrays(BlockInfo)
      BY <1>1, <1>2, <1>7, <2>1, <2>4, SetType
    <3> QED
      BY <1>1, <3>1 DEF LInv, Typed, Arrays
  <2>6. Tracked' /\ phase' = "expr_end" /\ InBody'
    BY <1>1, <1>8 DEF Tracked, InBody
  <2>7. CASE ~replace_last
    <3>1. Records(file, I, s, ptr, static_blocks)
      BY <1>7, <2>7 DEF Read
    <3>2. Records(file, I, s, e, static_blocks')
      BY <1>1, <1>2, <1>3, <1>8, <2>1, <2>4, <3>1, RecordsLast DEF q
    <3>3. static_blocks'[0].end_addr = e - 1
      <4>1. Set(static_blocks, n, new)[n] = new
        BY DEF Set
      <4>2. static_blocks'[0] = new /\ ptr = e - 1
        BY <1>1, <1>2, <1>3, <1>8, <2>1, <4>1
      <4> QED
        BY <2>4, <4>2
    <3>4. Recorded'
      BY <1>1, <1>3, <1>8, <2>7, <3>2, <3>3 DEF Recorded, Read, I, s, e
    <3> QED
      BY <1>6, <2>5, <2>6, <2>7, <3>4 DEF LInv
  <2>8. CASE replace_last
    <3>1. Records(file, I, s, e, static_blocks) /\ static_blocks[0].end_addr = e - 1
      BY <1>7, <2>8 DEF Read, e
    <3>2. static_blocks' = static_blocks
      <4>1. new = static_blocks[0]
        BY <1>2, <1>3, <1>8, <2>3, <2>4, <3>1 DEF BlockInfo
      <4> QED
        BY <1>1, <1>7, <2>1, <2>2, <4>1, SetSame
    <3>3. Recorded'
      BY <1>1, <2>8, <3>1, <3>2 DEF Recorded, Read, I, s, e
    <3> QED
      BY <1>6, <2>5, <2>6, <3>2, <3>3 DEF LInv
  <2> QED
    BY <2>7, <2>8
<1>9. CASE scope # 1
  <2>1. scope - 1 \in 1..(scope - 1)
    BY <1>2, <1>9
  <2>2. PICK b \in Opens(file, I) : /\ OpenAt(file, I, b, ptr) /\ Nesting(file, I, b) = scope - 1
                                    /\ n = Num(file, I, b)
    BY <1>7, <2>1 DEF Tracks
  <2>3. Nesting(file, I, q) = scope - 1
    BY <1>2, CountStep
  <2>4. ClosedBy(file, I, b, ptr)
    BY <1>2, <2>2, <2>3 DEF ClosedBy, Closes
  <2>5. MatchingEnd(file, I, b) = ptr /\ b \in Nat /\ b < ptr /\ ptr < e
    BY <1>2, <2>4, CloserIs, EndBehind
  <2>6. n \in Nat
    BY <1>2, <2>2, <2>5, Counted
  <2>7. n \in DOMAIN static_blocks
    <3>1. b < Read
      BY <1>1, <1>3, <1>2, <2>5 DEF Read
    <3> QED
      BY <1>7, <2>2, <3>1 DEF Records
  <2>8. BlockAt(n) = static_blocks[n] /\ static_blocks[n] \in BlockInfo
    BY <1>7, <2>7, BlockAtType DEF BlockAt
  <2>9. /\ new \in BlockInfo /\ new.op = static_blocks[n].op /\ new.end_addr = ptr
        /\ new.start_addr = static_blocks[n].start_addr
    BY <1>2, <2>8 DEF BlockInfo
  <2> HIDE DEF I, s, e, q, n, new
  <2>10. Typed'
    <3>1. scope' \in Nat /\ static_blocks' \in Arrays(BlockInfo)
      BY <1>1, <1>2, <1>7, <2>6, <2>9, SetType
    <3> QED
      BY <1>1, <3>1 DEF LInv, Typed, Arrays
  <2>11. Tracked' /\ phase' = "expr" /\ InBody'
    <3>1. Tracks(file, I, ptr', scope', static_ctr', dyn2static')
      BY <1>1, <1>2, <1>3, <1>7, TracksNext DEF q
    <3> QED
      BY <1>1, <1>9, <3>1 DEF Tracked, InBody, I
  <2>12. CASE ~replace_last
    <3>1. Records(file, I, s, ptr, static_blocks)
      BY <1>7, <2>12 DEF Read
    <3>2. Records(file, I, s, ptr', static_blocks')
      BY <1>1, <1>2, <1>3, <2>2, <2>4, <2>9, <3>1, RecordsEnd DEF q
    <3>3. Recorded'
      BY <1>1, <2>11, <2>12, <3>2 DEF Recorded, Read, I, s, e
    <3> QED
      BY <1>6, <2>10, <2>11, <2>12, <3>3 DEF LInv
  <2>13. CASE replace_last
    <3>1. Records(file, I, s, e, static_blocks) /\ static_blocks[0].end_addr = e - 1
      BY <1>7, <2>13 DEF Read, e
    <3>2. static_blocks' = static_blocks
      <4>1. static_blocks[n].end_addr = ptr
        BY <2>2, <2>5, <3>1 DEF Records
      <4>2. new = static_blocks[n]
        BY <2>8, <2>9, <4>1 DEF BlockInfo
      <4> QED
        BY <1>1, <1>7, <2>7, <4>2, SetSame
    <3>3. Recorded'
      BY <1>1, <2>13, <3>1, <3>2 DEF Recorded, Read, I, s, e
    <3> QED
      BY <1>6, <2>10, <2>11, <3>2, <3>3 DEF LInv
  <2> QED
    BY <2>12, <2>13
<1> QED
  BY <1>8, <1>9

\* What the instructions have in common that open and close nothing.
LEMMA StraightKeeps ==
  ASSUME LInv, Advances, Patches, file[ptr] \notin BlockOps, file[ptr] # WASM_OP_END,
         UNCHANGED <<scope, static_ctr, dyn2static, static_blocks>>
  PROVE  LInv'
<1> DEFINE I == InstrsOf(file, i)
           s == CodeStart(file, i)
           e == CodeEnd(file, i)
           q == NextInstr(file, ptr)
<1>1. /\ phase = "expr" /\ ptr' = q
      /\ UNCHANGED <<file, i, replace_last, code_start, code_end, num_locals>>
  BY DEF Advances
<1>2. /\ ptr \in I /\ Body(file, I, s, e) /\ q # e
  BY <1>1, AtInstr, InsideNext
<1>3. phase' = "expr"
  BY <1>2 DEF Advances
<1>4. Placed' /\ Listed' /\ CodeAhead' /\ Landed'
  BY AdvanceKeeps
<1>5. /\ Tracks(file, I, ptr, scope, static_ctr, dyn2static)
      /\ Records(file, I, s, Read, static_blocks)
      /\ replace_last => static_blocks[0].end_addr = e - 1
  BY <1>1 DEF LInv, Tracked, Recorded, InBody
<1> HIDE DEF I, s, e, q
<1>6. Typed'
  BY <1>1 DEF LInv, Typed, Patches
<1>7. Tracked'
  <2>1. Tracks(file, I, q, scope, static_ctr, dyn2static)
    BY <1>2, <1>5, TracksNext DEF q
  <2> QED
    BY <1>1, <2>1 DEF Tracked, I
<1>8. Recorded'
  <2>1. CASE ~replace_last
    <3>1. Records(file, I, s, q, static_blocks)
      BY <1>2, <1>5, <2>1, RecordsOther DEF Read, q
    <3> QED
      BY <1>1, <1>3, <2>1, <3>1 DEF Recorded, Read, I, s, e
  <2>2. CASE replace_last
    BY <1>1, <1>3, <1>5, <2>2 DEF Recorded, Read, I, s, e
  <2> QED
    BY <2>1, <2>2
<1> QED
  BY <1>4, <1>6, <1>7, <1>8 DEF LInv

\* The offsets ReplaceOffsets writes.
LEMMA ReplacePatches ==
  ASSUME LInv, phase = "expr", ReplaceOffsets(LabelSlots(file, ptr)) PROVE Patches
<1>1. /\ DOMAIN code = DOMAIN file /\ file \in Seq(Int)
      /\ \A a \in DOMAIN code : code[a] \in Int
      /\ \A a \in LabelSlots(file, ptr) : a \in DOMAIN code
  BY AtInstr DEF LInv, Typed, WellFormed
<1>2. CASE ~replace_last
  BY <1>1, <1>2 DEF ReplaceOffsets, Patches
<1>3. CASE replace_last
  <2>1. code' = [a \in DOMAIN code |->
                   IF a \in LabelSlots(file, ptr) THEN Target(code[a]) - (a + 1) ELSE code[a]]
    BY <1>3 DEF ReplaceOffsets
  <2>2. ASSUME NEW a \in LabelSlots(file, ptr)
        PROVE  /\ a \in Int /\ Target(code[a]) \in Int
               /\ Target(code[a]) = LabelTarget(file, CodeStart(file, i), CodeEnd(file, i),
                                                ptr, file[a])
    BY <1>1, <1>3, TargetIs
  <2>3. ASSUME NEW a \in LabelSlots(file, ptr)
        PROVE  /\ code'[a] \in Int
               /\ (a + 1) + code'[a] = LabelTarget(file, CodeStart(file, i), CodeEnd(file, i),
                                                   ptr, file[a])
    <3>1. code'[a] = Target(code[a]) - (a + 1)
      BY <1>1, <2>1
    <3> QED
      BY <2>2, <3>1
  <2>4. ASSUME NEW a \in DOMAIN code, a \notin LabelSlots(file, ptr)
        PROVE  code'[a] = code[a] /\ code'[a] \in Int
    BY <1>1, <2>1, <2>4
  <2>5. DOMAIN code' = DOMAIN code
    BY <2>1
  <2> QED
    BY <1>3, <2>3, <2>4, <2>5 DEF Patches
<1> QED
  BY <1>2, <1>3

LEMMA StraightAdvances ==
  ASSUME LInv, phase = "expr", file[ptr] # WASM_OP_END, ptr' = NextInstr(file, ptr),
         UNCHANGED <<file, phase, sectionVars>>
  PROVE  Advances
<1>1. NextInstr(file, ptr) # CodeEnd(file, i)
  BY AtInstr, InsideNext
<1> QED
  BY <1>1 DEF Advances, sectionVars

LEMMA BrKeeps == LInv /\ (DecodeBr \/ DecodeBrTable \/ DecodeOther) => LInv'
<1> SUFFICES ASSUME LInv, DecodeBr \/ DecodeBrTable \/ DecodeOther PROVE LInv'
  OBVIOUS
<1>1. phase = "expr"
  BY DEF DecodeBr, DecodeBrTable, DecodeOther, Decode
<1>2. /\ ptr \in Nat /\ code[ptr] = file[ptr]
      /\ file[ptr] = WASM_OP_BR_TABLE => code[ptr + 1] = file[ptr + 1] /\ file[ptr + 1] \in Nat
      /\ NextInstr(code, ptr) = NextInstr(file, ptr)
  BY <1>1, AtInstr
<1>3. CASE DecodeBr
  <2>1. /\ file[ptr] \in {WASM_OP_BR, WASM_OP_BR_IF} /\ ptr' = ptr + 2
        /\ ReplaceOffsets({ptr + 1})
        /\ UNCHANGED <<file, phase, scope, static_ctr, dyn2static, static_blocks, sectionVars>>
    BY <1>2, <1>3 DEF DecodeBr, Decode
  <2>2. /\ LabelSlots(file, ptr) = {ptr + 1} /\ file[ptr] \notin BlockOps
        /\ file[ptr] # WASM_OP_END /\ file[ptr] # WASM_OP_BR_TABLE
    BY <2>1 DEF LabelSlots, BlockOps, WASM_OP_BLOCK, WASM_OP_LOOP, WASM_OP_END, WASM_OP_BR,
       WASM_OP_BR_IF, WASM_OP_BR_TABLE
  <2>3. NextInstr(file, ptr) = ptr + 2
    BY <1>2, <2>1, <2>2, Instruction
  <2> QED
    BY <1>1, <2>1, <2>2, <2>3, StraightAdvances, ReplacePatches, StraightKeeps
<1>4. CASE DecodeBrTable
  <2>1. file[ptr] = WASM_OP_BR_TABLE /\ code[ptr + 1] = file[ptr + 1] /\ file[ptr + 1] \in Nat
    BY <1>2, <1>4 DEF DecodeBrTable, Decode
  <2>2. /\ ptr' = ptr + 2 + file[ptr + 1] + 1
        /\ ReplaceOffsets((ptr + 2)..(ptr + 2 + file[ptr + 1]))
        /\ UNCHANGED <<file, phase, scope, static_ctr, dyn2static, static_blocks, sectionVars>>
    BY <1>4, <2>1 DEF DecodeBrTable
  <2>3. /\ LabelSlots(file, ptr) = (ptr + 2)..(ptr + 2 + file[ptr + 1])
        /\ file[ptr] \notin BlockOps /\ file[ptr] # WASM_OP_END
    BY <2>1 DEF LabelSlots, BlockOps, WASM_OP_BLOCK, WASM_OP_LOOP, WASM_OP_END, WASM_OP_BR,
       WASM_OP_BR_IF, WASM_OP_BR_TABLE
  <2>4. NextInstr(file, ptr) = ptr + 3 + file[ptr + 1]
    BY <1>2, <2>1, Instruction
  <2>5. ptr' = NextInstr(file, ptr)
    BY <1>2, <2>1, <2>2, <2>4
  <2> QED
    BY <1>1, <2>2, <2>3, <2>5, StraightAdvances, ReplacePatches, StraightKeeps
<1>5. CASE DecodeOther
  <2>1. /\ file[ptr] \notin BlockOps \cup {WASM_OP_END, WASM_OP_BR, WASM_OP_BR_IF,
                                           WASM_OP_BR_TABLE}
        /\ ptr' = NextInstr(file, ptr)
        /\ UNCHANGED <<file, code, phase, scope, static_ctr, dyn2static, static_blocks,
                       sectionVars>>
    BY <1>2, <1>5 DEF DecodeOther
  <2>2. LabelSlots(file, ptr) = {}
    BY <2>1 DEF LabelSlots
  <2> QED
    BY <1>1, <2>1, <2>2, StraightAdvances, UnpatchedPatches, StraightKeeps
<1> QED
  BY <1>3, <1>4, <1>5

\* decode_expr enters a body: what EnterExpr leaves.
LEMMA EnterTracks ==
  ASSUME static_blocks \in Arrays(BlockInfo), NEW start \in Nat, EnterExpr(start)
  PROVE  /\ phase' = "expr" /\ ptr' = start /\ scope' = 1 /\ static_ctr' = 1
         /\ dyn2static' \in Arrays(Nat) /\ 0 \in DOMAIN dyn2static' /\ dyn2static'[0] = 0
         /\ static_blocks' \in Arrays(BlockInfo) /\ 0 \in DOMAIN static_blocks'
         /\ static_blocks'[0].op = WASM_OP_BLOCK /\ static_blocks'[0].start_addr = start
         /\ 0 \in DOMAIN static_blocks /\ static_blocks[0].op = WASM_OP_BLOCK
              /\ static_blocks[0].start_addr = start => static_blocks' = static_blocks
<1> DEFINE new == [BlockAt(0) EXCEPT !.op = WASM_OP_BLOCK, !.start_addr = start]
<1>1. /\ phase' = "expr" /\ ptr' = start /\ scope' = 1 /\ static_ctr' = 1
      /\ dyn2static' = [d \in {0} |-> 0]
      /\ static_blocks' = Set(static_blocks, 0, new)
  BY DEF EnterExpr, StartBlock
<1>2. BlockAt(0) \in BlockInfo
  BY BlockAtType
<1>3. /\ new \in BlockInfo /\ new.op = WASM_OP_BLOCK /\ new.start_addr = start
      /\ new.end_addr = BlockAt(0).end_addr
  <2>1. PICK B \in BlockInfo : B = BlockAt(0)
    BY <1>2
  <2>2. WASM_OP_BLOCK \in Int /\ start \in Int
    BY DEF WASM_OP_BLOCK
  <2>3. new = [B EXCEPT !.op = WASM_OP_BLOCK, !.start_addr = start]
    BY <2>1
  <2> HIDE DEF new
  <2> QED
    BY <2>1, <2>2, <2>3 DEF BlockInfo
<1> HIDE DEF new
<1>4. dyn2static' \in Arrays(Nat) /\ 0 \in DOMAIN dyn2static' /\ dyn2static'[0] = 0
  <2>1. dyn2static' \in [{0} -> Nat] /\ {0} \in SUBSET Nat
    BY <1>1
  <2> QED
    BY <1>1, <2>1 DEF Arrays
<1>5. static_blocks' \in Arrays(BlockInfo)
  BY <1>1, <1>3, SetType
<1>6. 0 \in DOMAIN static_blocks' /\ static_blocks'[0] = new
  BY <1>1 DEF Set
<1>7. ASSUME 0 \in DOMAIN static_blocks, static_blocks[0].op = WASM_OP_BLOCK,
             static_blocks[0].start_addr = start
      PROVE  static_blocks' = static_blocks
  <2>1. BlockAt(0) = static_blocks[0]
    BY <1>7 DEF BlockAt
  <2>2. new = static_blocks[0]
    BY <1>2, <1>3, <1>7, <2>1 DEF BlockInfo
  <2> QED
    BY <1>1, <1>7, <2>2, SetSame
<1> QED
  BY <1>1, <1>3, <1>4, <1>5, <1>6, <1>7

\* DeclaredLocals adds up the declarations ...
Sums(c, p, sum) ==
  /\ sum[0] = 0
  /\ \A k \in 1..c[p] : sum[k] = sum[k - 1] + c[p + 2 * k - 1]
  /\ DeclaredLocals(c, p) = sum[c[p]]

LEMMA DeclaredLocalsSum ==
  ASSUME NEW c, NEW p \in Nat, c[p] \in Nat
  PROVE  \E sum : Sums(c, p, sum)
<1> DEFINE n == c[p]
           Good(sum, k) == sum = [j \in 0..k |-> IF j = 0 THEN 0
                                                 ELSE sum[j - 1] + c[p + 2 * j - 1]]
           T == {k \in 0..n : \E sum : Good(sum, k)}
<1>1. n \in Nat
  OBVIOUS
<1>2. 0 \in T
  <2> DEFINE sum == [j \in 0..0 |-> 0]
  <2>1. Good(sum, 0)
    OBVIOUS
  <2> HIDE DEF sum, Good
  <2> QED
    BY <1>1, <2>1
<1>3. ASSUME NEW k \in 1..n, k - 1 \in T PROVE k \in T
  <2>1. PICK r : Good(r, k - 1)
    BY <1>3
  <2> DEFINE sum == [j \in 0..k |-> IF j = k THEN r[k - 1] + c[p + 2 * k - 1] ELSE r[j]]
  <2>2. \A j \in 0..(k - 1) : r[j] = IF j = 0 THEN 0 ELSE r[j - 1] + c[p + 2 * j - 1]
    BY <2>1
  <2>3. ASSUME NEW j \in 0..k
        PROVE  sum[j] = IF j = 0 THEN 0 ELSE sum[j - 1] + c[p + 2 * j - 1]
    <3>1. CASE j = k
      BY <3>1
    <3>2. CASE j # k
      BY <2>2, <3>2
    <3> QED
      BY <3>1, <3>2
  <2>4. sum = [j \in 0..k |-> sum[j]]
    OBVIOUS
  <2> HIDE DEF sum
  <2>5. Good(sum, k)
    BY <2>3, <2>4
  <2> QED
    BY <1>1, <2>5
<1>4. \E sum : Good(sum, n)
  <2> HIDE DEF T, Good, n
  <2>1. 0..n \subseteq T
    BY <1>1, <1>2, <1>3, UpTo
  <2>2. n \in T
    BY <1>1, <2>1
  <2> QED
    BY <2>2 DEF T
<1> DEFINE sum == CHOOSE sum : Good(sum, n)
<1>5. Good(sum, n)
  BY <1>4
<1>6. DeclaredLocals(c, p) = sum[n]
  BY DEF DeclaredLocals
<1> HIDE DEF sum
<1>7. \A j \in 0..n : sum[j] = IF j = 0 THEN 0 ELSE sum[j - 1] + c[p + 2 * j - 1]
  BY <1>5
<1>8. Sums(c, p, sum)
  BY <1>1, <1>6, <1>7 DEF Sums
<1> QED
  BY <1>8

\* ... and reads nothing but them.
LEMMA DeclaredLocalsIs ==
  ASSUME NEW c, NEW d, NEW p \in Nat, c[p] \in Nat, d[p] = c[p],
         \A j \in 1..c[p] : c[p + 2 * j - 1] \in Nat /\ d[p + 2 * j - 1] = c[p + 2 * j - 1]
  PROVE  DeclaredLocals(c, p) \in Nat /\ DeclaredLocals(d, p) = DeclaredLocals(c, p)
<1>1. PICK n \in Nat : n = c[p]
  OBVIOUS
<1>2. PICK sum : Sums(c, p, sum)
  BY DeclaredLocalsSum
<1>3. PICK other : Sums(d, p, other)
  BY DeclaredLocalsSum
<1> DEFINE U == {k \in 0..n : sum[k] \in Nat /\ other[k] = sum[k]}
<1>4. 0 \in U
  BY <1>1, <1>2, <1>3 DEF Sums
<1>5. ASSUME NEW k \in 1..n, k - 1 \in U PROVE k \in U
  <2>1. sum[k] = sum[k - 1] + c[p + 2 * k - 1] /\ sum[k - 1] \in Nat
    BY <1>1, <1>2, <1>5 DEF Sums
  <2>2. other[k] = other[k - 1] + d[p + 2 * k - 1] /\ other[k - 1] = sum[k - 1]
    BY <1>1, <1>3, <1>5 DEF Sums
  <2>3. c[p + 2 * k - 1] \in Nat /\ d[p + 2 * k - 1] = c[p + 2 * k - 1]
    BY <1>1
  <2> QED
    BY <1>1, <2>1, <2>2, <2>3
<1>6. n \in U
  <2> HIDE DEF U
  <2>1. 0..n \subseteq U
    BY <1>1, <1>4, <1>5, UpTo
  <2> QED
    BY <1>1, <2>1
<1> QED
  BY <1>1, <1>2, <1>3, <1>6 DEF Sums

\* What StartBody reads of the header of a body is still as in the file.
LEMMA StartBodyReads ==
  ASSUME LInv, StartBody
  PROVE  /\ LocalsEnd(code, ptr + 1) = CodeStart(file, i)
         /\ DeclaredLocals(code, ptr + 1) = LocalsOf(file, i)
         /\ LocalsOf(file, i) \in Nat
<1> DEFINE s == CodeStart(file, i)
           e == CodeEnd(file, i)
           h == Headers(file)[i]
<1>1. phase = "body"
  BY DEF StartBody
<1>2. /\ WellFormed(file) /\ i \in 0..(file[1] - 1) /\ ptr = h /\ file \in Seq(Int)
      /\ DOMAIN code = DOMAIN file /\ ~InBody /\ Frontier = ptr
      /\ \A a \in DOMAIN code : a >= ptr => code[a] = file[a]
  BY <1>1 DEF LInv, Typed, Placed, InBody, WellFormed, CodeAhead, Frontier
<1>3. /\ h \in Nat /\ h + 1 \in DOMAIN file /\ file[h + 1] \in Nat
      /\ \A j \in 1..file[h + 1] : file[h + 1 + 2 * j - 1] \in Nat
      /\ s \in Nat /\ e \in Nat /\ h + 2 <= s /\ s < e /\ e <= Len(file) + 1
      /\ s = LocalsEnd(file, h + 1)
  BY <1>2, BodyIs DEF CodeStart
<1> HIDE DEF s, e, h
<1>4. code[h + 1] = file[h + 1]
  BY <1>2, <1>3
<1>5. LocalsEnd(code, ptr + 1) = s
  BY <1>2, <1>3, <1>4 DEF LocalsEnd
<1>6. \A j \in 1..file[h + 1] : code[h + 1 + 2 * j - 1] = file[h + 1 + 2 * j - 1]
  <2> TAKE j \in 1..file[h + 1]
  <2>1. s = h + 2 + 2 * file[h + 1]
    BY <1>3 DEF LocalsEnd
  <2>2. j \in Nat
    BY <1>3
  <2>3. /\ h + 1 + 2 * j - 1 \in Nat /\ h + 1 + 2 * j - 1 >= h
        /\ h + 1 + 2 * j - 1 >= 1 /\ h + 1 + 2 * j - 1 <= Len(file)
    BY <1>2, <1>3, <2>1, <2>2
  <2>4. h + 1 + 2 * j - 1 \in DOMAIN file
    BY <1>2, <2>3
  <2> QED
    BY <1>2, <2>3, <2>4
<1>7. DeclaredLocals(file, h + 1) \in Nat /\ DeclaredLocals(code, h + 1) = DeclaredLocals(file, h + 1)
  <2> DEFINE n == h + 1
  <2>1. /\ n \in Nat /\ file[n] \in Nat /\ code[n] = file[n]
        /\ \A j \in 1..file[n] : file[n + 2 * j - 1] \in Nat /\ code[n + 2 * j - 1] = file[n + 2 * j - 1]
    BY <1>3, <1>4, <1>6
  <2> HIDE DEF n
  <2>2. DeclaredLocals(file, n) \in Nat /\ DeclaredLocals(code, n) = DeclaredLocals(file, n)
    BY <2>1, DeclaredLocalsIs
  <2> QED
    BY <2>2 DEF n
<1> QED
  BY <1>2, <1>5, <1>7 DEF s, h, LocalsOf

LEMMA StartBodyKeeps == LInv /\ StartBody => LInv'
<1> SUFFICES ASSUME LInv, StartBody PROVE LInv'
  OBVIOUS
<1> DEFINE I == InstrsOf(file, i)
           s == CodeStart(file, i)
           e == CodeEnd(file, i)
           h == Headers(file)[i]
<1>1. /\ phase = "body" /\ code_start' = Set(code_start, i, LocalsEnd(code, ptr + 1))
      /\ EnterExpr(LocalsEnd(code, ptr + 1))
      /\ num_locals' = Set(num_locals, i, DeclaredLocals(code, ptr + 1)) /\ replace_last' = FALSE
      /\ UNCHANGED <<file, code, i, code_end>>
  BY DEF StartBody
<1>2. /\ WellFormed(file) /\ i \in 0..(file[1] - 1) /\ ptr = h /\ file \in Seq(Int)
      /\ DOMAIN code = DOMAIN file /\ ~InBody /\ Frontier = ptr
      /\ \A a \in DOMAIN code : a >= ptr => code[a] = file[a]
  BY <1>1 DEF LInv, Typed, Placed, InBody, WellFormed, CodeAhead, Frontier
<1>3. /\ h \in Nat /\ h + 1 \in DOMAIN file /\ file[h + 1] \in Nat
      /\ \A j \in 1..file[h + 1] : file[h + 1 + 2 * j - 1] \in Nat
      /\ s \in Nat /\ e \in Nat /\ h + 2 <= s /\ s < e /\ e <= Len(file) + 1
      /\ s = LocalsEnd(file, h + 1)
  BY <1>2, BodyIs DEF CodeStart
<1>4. Body(file, I, s, e)
  BY <1>2, BodyFacts
<1> HIDE DEF I, s, e, h
<1>5. LocalsEnd(code, ptr + 1) = s /\ DeclaredLocals(code, ptr + 1) \in Nat
  BY StartBodyReads DEF s
<1>6. static_blocks \in Arrays(BlockInfo)
  BY DEF LInv, Typed, Arrays
<1>7. /\ phase' = "expr" /\ ptr' = s /\ scope' = 1 /\ static_ctr' = 1 /\ InBody'
       /\ dyn2static' \in Arrays(Nat) /\ 0 \in DOMAIN dyn2static' /\ dyn2static'[0] = 0
       /\ static_blocks' \in Arrays(BlockInfo) /\ 0 \in DOMAIN static_blocks'
       /\ static_blocks'[0].op = WASM_OP_BLOCK /\ static_blocks'[0].start_addr = s
  BY <1>1, <1>3, <1>5, <1>6, EnterTracks DEF InBody
<1>8. Typed'
  <2>1. \A f \in DOMAIN num_locals' : num_locals'[f] \in Nat
    BY <1>1, <1>2, <1>5 DEF Set, LInv, Typed
  <2> QED
    BY <1>1, <1>7, <2>1 DEF LInv, Typed, Arrays
<1>9. Placed'
  <2>1. s \in I
    BY <1>4, CountStart
  <2> QED
    BY <1>1, <1>2, <1>7, <2>1 DEF Placed, InBody, I
<1>10. Listed'
  <2>1. /\ DOMAIN code_start = 0..(i - 1) /\ DOMAIN code_end = 0..(i - 1)
        /\ \A k \in 0..(i - 1) : code_start[k] = CodeStart(file, k)
        /\ \A k \in 0..(i - 1) : code_end[k] = CodeEnd(file, k)
        /\ \A k \in 0..(i - 1) : CodeEnd(file, k) <= ptr
    BY <1>2 DEF LInv, Listed
  <2>2. i \in Nat /\ (0..(i - 1)) \cup {i} = 0..i /\ file[1] \in Nat
    BY <1>2 DEF WellFormed
  <2>3. /\ DOMAIN code_start' = 0..i /\ code_start'[i] = s
        /\ \A k \in 0..(i - 1) : code_start'[k] = CodeStart(file, k)
    BY <1>1, <1>5, <2>1, <2>2 DEF Set
  <2>4. \A k \in 0..i : code_start'[k] = CodeStart(file, k)
    BY <2>2, <2>3 DEF s
  <2>5. \A k \in 0..(i - 1) : CodeEnd(file, k) <= s
    <3> TAKE k \in 0..(i - 1)
    <3>1. CodeEnd(file, k) \in Nat
      BY <1>2, <2>2, BodyIs
    <3> QED
      BY <1>2, <1>3, <2>1, <3>1
  <2> QED
    BY <1>1, <1>7, <2>1, <2>3, <2>4, <2>5 DEF Listed, s
<1>11. CodeAhead'
  <2>1. Frontier' = s
    BY <1>1, <1>7 DEF Frontier, s
  <2> SUFFICES ASSUME NEW a \in DOMAIN code, a >= s PROVE code[a] = file[a]
    BY <1>1, <2>1 DEF CodeAhead
  <2>2. a \in Nat /\ a >= ptr
    BY <1>2, <1>3, SMTT(60)
  <2> QED
    BY <1>2, <2>2
<1>12. Tracked' /\ Recorded'
  <2>1. Tracks(file, I, s, 1, 1, dyn2static')
    BY <1>4, <1>7, TracksStart
  <2>2. Records(file, I, s, s, static_blocks')
    BY <1>4, <1>7, RecordsStart
  <2> QED
    BY <1>1, <1>7, <2>1, <2>2 DEF Tracked, Recorded, Read, I, s, e
<1>13. Landed'
  BY <1>1, <1>2 DEF LInv, Landed
<1> QED
  BY <1>8, <1>9, <1>10, <1>11, <1>12, <1>13 DEF LInv

LEMMA ReplacePassKeeps == LInv /\ ReplacePass => LInv' /\ static_blocks' = static_blocks
<1> SUFFICES ASSUME LInv, ReplacePass PROVE LInv' /\ static_blocks' = static_blocks
  OBVIOUS
<1> DEFINE I == InstrsOf(file, i)
           s == CodeStart(file, i)
           e == CodeEnd(file, i)
<1>1. /\ phase = "expr_end" /\ ~replace_last /\ replace_last' = TRUE
      /\ code_end' = Set(code_end, i, ptr) /\ EnterExpr(code_start[i])
      /\ UNCHANGED <<file, code, i, code_start, num_locals>>
  BY DEF ReplacePass
<1>2. /\ WellFormed(file) /\ i \in 0..(file[1] - 1) /\ ptr = e /\ InBody
      /\ DOMAIN code = DOMAIN file /\ Frontier = s
  BY <1>1 DEF LInv, Typed, Placed, InBody, Frontier
<1>3. /\ DOMAIN code_start = 0..i /\ DOMAIN code_end = 0..(i - 1)
      /\ \A k \in 0..i : code_start[k] = CodeStart(file, k)
      /\ \A k \in 0..(i - 1) : code_end[k] = CodeEnd(file, k)
      /\ \A k \in 0..(i - 1) : CodeEnd(file, k) <= s
  BY <1>1, <1>2 DEF LInv, Listed
<1>4. i \in Nat /\ (0..(i - 1)) \cup {i} = 0..i /\ code_start[i] = s
  <2>1. file[1] \in Nat
    BY <1>2 DEF WellFormed
  <2>2. i \in Nat
    BY <1>2, <2>1
  <2> QED
    BY <1>3, <2>2
<1>5. Body(file, I, s, e) /\ s \in Nat /\ e \in Nat
  BY <1>2, BodyFacts, BodyIs
<1>6. /\ static_blocks \in Arrays(BlockInfo)
      /\ Records(file, I, s, e, static_blocks) /\ static_blocks[0].end_addr = e - 1
  BY <1>1, <1>2 DEF LInv, Typed, Recorded, Read, Arrays
<1> HIDE DEF I, s, e
<1>7. /\ phase' = "expr" /\ ptr' = s /\ scope' = 1 /\ static_ctr' = 1 /\ InBody'
      /\ dyn2static' \in Arrays(Nat) /\ 0 \in DOMAIN dyn2static' /\ dyn2static'[0] = 0
      /\ static_blocks' = static_blocks
  <2>1. /\ 0 \in DOMAIN static_blocks /\ static_blocks[0].op = WASM_OP_BLOCK
        /\ static_blocks[0].start_addr = s
    BY <1>6 DEF Records
  <2>2. EnterExpr(s)
    BY <1>1, <1>4
  <2> QED
    BY <1>5, <1>6, <2>1, <2>2, EnterTracks DEF InBody
<1>8. Typed'
  BY <1>1, <1>6, <1>7 DEF LInv, Typed, Arrays
<1>9. Placed'
  <2>1. s \in I
    BY <1>5, CountStart
  <2> QED
    BY <1>1, <1>2, <1>7, <2>1 DEF Placed, InBody, I
<1>10. Listed'
  <2>1. DOMAIN code_end' = 0..i /\ \A k \in 0..i : code_end'[k] = CodeEnd(file, k)
    <3>1. /\ DOMAIN code_end' = (0..(i - 1)) \cup {i} /\ code_end'[i] = e
          /\ \A k \in 0..(i - 1) : k # i => code_end'[k] = CodeEnd(file, k)
      BY <1>1, <1>2, <1>3 DEF Set
    <3>2. \A k \in 0..i : k = i \/ (k \in 0..(i - 1) /\ k # i)
      BY <1>4
    <3> QED
      BY <1>4, <3>1, <3>2 DEF e
  <2> QED
    BY <1>1, <1>3, <1>7, <2>1 DEF Listed, s
<1>11. CodeAhead'
  <2>1. Frontier' = s
    BY <1>1, <1>7 DEF Frontier
  <2> QED
    BY <1>1, <1>2, <2>1 DEF LInv, CodeAhead
<1>12. Tracked' /\ Recorded'
  <2>1. Tracks(file, I, s, 1, 1, dyn2static')
    BY <1>5, <1>7, TracksStart
  <2> QED
    BY <1>1, <1>6, <1>7, <2>1 DEF Tracked, Recorded, Read, I, s, e
<1>13. Landed'
  <2>1. Lands(file, code, i, s)
    <3>1. \A q \in I : ~ (q < s)
      BY <1>5, Addresses
    <3> QED
      BY <3>1 DEF Lands, I
  <2> QED
    BY <1>1, <1>7, <2>1 DEF LInv, Landed
<1> QED
  BY <1>7, <1>8, <1>9, <1>10, <1>11, <1>12, <1>13 DEF LInv

LEMMA NextBodyKeeps == LInv /\ NextBody => LInv'
<1> SUFFICES ASSUME LInv, NextBody PROVE LInv'
  OBVIOUS
<1> DEFINE e == CodeEnd(file, i)
<1>1. /\ phase = "expr_end" /\ replace_last /\ i' = i + 1
      /\ phase' = IF i + 1 = file[1] THEN "done" ELSE "body"
      /\ UNCHANGED <<file, code, ptr, replace_last, scope, static_ctr, dyn2static, static_blocks,
                     code_start, code_end, num_locals>>
  BY DEF NextBody
<1>2. /\ WellFormed(file) /\ i \in 0..(file[1] - 1) /\ ptr = e /\ InBody /\ ~InBody'
      /\ DOMAIN code = DOMAIN file /\ Frontier = ptr /\ Frontier' = ptr
  BY <1>1 DEF LInv, Typed, Placed, InBody, Frontier
<1>3. file[1] \in Nat /\ i \in Nat /\ i + 1 \in Nat /\ i + 1 - 1 = i
  BY <1>2 DEF WellFormed
<1>4. /\ CodeStart(file, i) \in Nat /\ e \in Nat /\ CodeStart(file, i) < e
      /\ e <= Len(file) + 1 /\ Len(file) \in Nat /\ e >= 1
  <2>1. Len(file) \in Nat
    BY <1>2 DEF WellFormed
  <2> QED
    BY <1>2, <2>1, BodyIs
<1>5. Typed'
  BY <1>1 DEF LInv, Typed
<1>6. Placed'
  <2>1. ptr = Headers(file)[i + 1]
    BY <1>2 DEF CodeEnd
  <2>2. ptr \in 1..(Len(file) + 1)
    BY <1>2, <1>4
  <2>3. i + 1 # file[1] => i + 1 \in 0..(file[1] - 1)
    BY <1>2, <1>3
  <2> QED
    BY <1>1, <1>2, <2>1, <2>2, <2>3 DEF Placed
<1> HIDE DEF e
<1>7. Listed'
  <2>1. /\ DOMAIN code_start = 0..i /\ DOMAIN code_end = 0..i
        /\ \A k \in 0..i : code_start[k] = CodeStart(file, k)
        /\ \A k \in 0..i : code_end[k] = CodeEnd(file, k)
        /\ \A k \in 0..(i - 1) : CodeEnd(file, k) <= CodeStart(file, i)
    BY <1>1, <1>2 DEF LInv, Listed
  <2>2. \A k \in 0..i : CodeEnd(file, k) <= ptr
    <3> TAKE k \in 0..i
    <3>1. CASE k = i
      BY <1>2, <1>4, <3>1 DEF e
    <3>2. CASE k # i
      <4>1. k \in 0..(i - 1) /\ k \in 0..(file[1] - 1)
        BY <1>2, <1>3, <3>2
      <4>2. CodeEnd(file, k) \in Nat
        BY <1>2, <4>1, BodyIs
      <4> QED
        BY <1>2, <1>4, <2>1, <4>1, <4>2
    <3> QED
      BY <3>1, <3>2
  <2> QED
    BY <1>1, <1>2, <1>3, <2>1, <2>2 DEF Listed
<1>8. CodeAhead'
  BY <1>1, <1>2 DEF LInv, CodeAhead
<1>9. Tracked' /\ Recorded'
  BY <1>1, <1>2 DEF Tracked, Recorded
<1>10. Landed'
  <2>1. /\ \A k \in 0..(i - 1) : Lands(file, code, k, CodeEnd(file, k))
        /\ Lands(file, code, i, e)
    BY <1>1, <1>2 DEF LInv, Landed
  <2>2. \A k \in 0..i : k = i \/ k \in 0..(i - 1)
    BY <1>3
  <2>3. \A k \in 0..i : Lands(file, code, k, CodeEnd(file, k))
    BY <2>1, <2>2 DEF e
  <2> QED
    BY <1>1, <1>2, <1>3, <2>3 DEF Landed
<1> QED
  BY <1>5, <1>6, <1>7, <1>8, <1>9, <1>10 DEF LInv

LEMMA StartSectionKeeps == LInv /\ StartSection => LInv'
<1> SUFFICES ASSUME LInv, StartSection PROVE LInv'
  OBVIOUS
<1>1. /\ phase = "section" /\ i' = 0 /\ ptr' = ptr + 1
      /\ phase' = IF code[ptr] = 0 THEN "done" ELSE "body"
      /\ UNCHANGED <<file, code, replace_last, scope, static_ctr, dyn2static, static_blocks,
                     code_start, code_end, num_locals>>
  BY DEF StartSection
<1>2. /\ WellFormed(file) /\ ptr = 1 /\ i = 0 /\ ~replace_last /\ ~InBody /\ ~InBody'
      /\ DOMAIN code = DOMAIN file /\ Frontier = 1 /\ Frontier' = 2 /\ ptr' = 2
  BY <1>1 DEF LInv, Typed, Placed, InBody, Frontier
<1>3. file[1] \in Nat /\ file \in Seq(Int) /\ 1 \in DOMAIN file /\ Len(file) \in Nat \ {0}
  BY <1>2 DEF WellFormed
<1>4. code[1] = file[1]
  BY <1>2, <1>3 DEF LInv, CodeAhead
<1>5. Typed'
  BY <1>1 DEF LInv, Typed
<1>6. Placed'
  <2>1. Headers(file)[0] = 2
    BY <1>3, HeadersAre
  <2>2. file[1] # 0 => 0 \in 0..(file[1] - 1)
    BY <1>3
  <2>3. 2 \in 1..(Len(file) + 1)
    BY <1>3
  <2> QED
    BY <1>1, <1>2, <1>4, <2>1, <2>2, <2>3 DEF Placed
<1>7. Listed'
  <2>1. 0..(0 - 1) = {}
    OBVIOUS
  <2> QED
    BY <1>1, <1>2, <2>1 DEF LInv, Listed
<1>8. CodeAhead'
  <2>1. \A a \in DOMAIN code : a >= 2 => a >= 1
    BY <1>2, <1>3
  <2> QED
    BY <1>1, <1>2, <2>1 DEF LInv, CodeAhead
<1>9. Tracked' /\ Recorded'
  BY <1>1, <1>2 DEF Tracked, Recorded, InBody
<1>10. Landed'
  BY <1>1, <1>2 DEF LInv, Landed
<1> QED
  BY <1>5, <1>6, <1>7, <1>8, <1>9, <1>10 DEF LInv

LEMMA StartLands == Init => LInv
<1> SUFFICES ASSUME Init PROVE LInv
  OBVIOUS
<1>1. /\ file \in Images /\ code = file /\ phase = "section" /\ ptr = 1 /\ i = 0
      /\ replace_last = FALSE /\ scope = 0 /\ static_ctr = 0 /\ dyn2static = <<>>
      /\ static_blocks = <<>> /\ code_start = <<>> /\ code_end = <<>> /\ num_locals = <<>>
  BY DEF Init, Start
<1>2. WellFormed(file) /\ file \in Seq(Int) /\ ~InBody
  BY <1>1, ImagesAssumption DEF WellFormed, InBody
<1>3. DOMAIN <<>> = {} /\ 0..(0 - 1) = {}
  OBVIOUS
<1>4. <<>> \in UNION {[D -> Nat] : D \in SUBSET Nat}
      /\ <<>> \in UNION {[D -> BlockInfo] : D \in SUBSET Nat}
  <2>1. <<>> \in [{} -> Nat] /\ <<>> \in [{} -> BlockInfo] /\ {} \in SUBSET Nat
    OBVIOUS
  <2> QED
    BY <2>1
<1>5. Typed
  <2>1. \A a \in DOMAIN code : code[a] \in Int
    BY <1>1, <1>2
  <2>2. \A f \in DOMAIN num_locals : num_locals[f] \in Nat
    BY <1>1, <1>3
  <2> QED
    BY <1>1, <1>2, <1>4, <2>1, <2>2 DEF Typed
<1>6. Placed
  BY <1>1, <1>2 DEF Placed
<1>7. Listed
  BY <1>1, <1>2, <1>3 DEF Listed
<1>8. CodeAhead /\ Tracked /\ Recorded
  BY <1>1, <1>2 DEF CodeAhead, Tracked, Recorded
<1>9. Landed
  BY <1>1, <1>2, <1>3 DEF Landed
<1> QED
  BY <1>5, <1>6, <1>7, <1>8, <1>9 DEF LInv

LEMMA NextLands == LInv /\ [Next]_vars => LInv'
<1> SUFFICES ASSUME LInv, [Next]_vars PROVE LInv'
  OBVIOUS
<1>1. CASE UNCHANGED vars
  BY <1>1 DEF vars, LInv, Typed, Placed, Listed, CodeAhead, Tracked, Recorded, Landed,
     InBody, Read, Frontier
<1>2. CASE Step
  BY <1>2, StartSectionKeeps, StartBodyKeeps, BlockKeeps, EndKeeps, BrKeeps, ReplacePassKeeps,
     NextBodyKeeps DEF Step
<1> QED
  BY <1>1, <1>2 DEF Next, Loaded

-----------------------------------------------------------------------------
(***************************************************************************)
(* The registers of decode_code_section stay in range: the pointer inside  *)
(* the section, the tables where the bodies are.                           *)
(***************************************************************************)
THEOREM TypeCorrect == Spec => []TypeOK
<1>1. LInv => TypeOK
  <2> SUFFICES ASSUME LInv PROVE TypeOK
    OBVIOUS
  <2>1. /\ WellFormed(file) /\ file \in Seq(Int) /\ file[1] \in Nat /\ Len(file) \in Nat
        /\ DOMAIN file = 1..Len(file) /\ 1 \in DOMAIN file
    BY DEF LInv, Typed, WellFormed
  <2>2. ptr \in 1..(Len(file) + 1) /\ i \in 0..file[1]
    <3>1. CASE phase = "section"
      BY <2>1, <3>1 DEF LInv, Placed
    <3>2. CASE phase = "body"
      <4>1. i \in 0..(file[1] - 1) /\ ptr = Headers(file)[i]
        BY <3>2 DEF LInv, Placed
      <4>2. Headers(file)[i] \in Nat /\ 2 <= Headers(file)[i] /\ Headers(file)[i] + 1 \in DOMAIN file
        BY <2>1, <4>1, BodyIs
      <4> QED
        BY <2>1, <4>1, <4>2
    <3>3. CASE phase = "expr"
      <4>1. i \in 0..(file[1] - 1) /\ ptr \in DOMAIN file
        BY <2>1, <3>3, AtInstr, BodyFacts
      <4> QED
        BY <2>1, <4>1
    <3>4. CASE phase = "expr_end"
      <4>1. i \in 0..(file[1] - 1) /\ ptr = CodeEnd(file, i)
        BY <3>4 DEF LInv, Placed, InBody
      <4>2. /\ CodeStart(file, i) \in Nat /\ CodeEnd(file, i) \in Nat
            /\ CodeStart(file, i) < CodeEnd(file, i) /\ CodeEnd(file, i) <= Len(file) + 1
        BY <2>1, <4>1, BodyIs
      <4> QED
        BY <2>1, <4>1, <4>2
    <3>5. CASE phase = "done"
      BY <2>1, <3>5 DEF LInv, Placed
    <3> QED
      BY <3>1, <3>2, <3>3, <3>4, <3>5 DEF LInv, Placed
  <2>3. DOMAIN code_end \subseteq DOMAIN code_start /\ DOMAIN code_start \subseteq 0..(file[1] - 1)
    <3>1. i \in Nat /\ i <= file[1] /\ (InBody => i <= file[1] - 1)
      BY <2>1, <2>2 DEF LInv, Placed
    <3> QED
      BY <2>1, <3>1 DEF LInv, Listed
  <2> QED
    BY <2>2, <2>3 DEF LInv, Typed, Placed, TypeOK
<1> QED
  BY <1>1, StartLands, NextLands, PTL DEF Spec

\* The offsets lead where BranchesLand says.
LEMMA LandsAll == LInv => BranchesLand
<1> SUFFICES ASSUME LInv, phase = "done", NEW f \in DOMAIN code_start,
                    NEW a \in DOMAIN Targets(file, code_start[f], code_end[f])
             PROVE  (a + 1) + code[a] = Targets(file, code_start[f], code_end[f])[a]
  BY DEF BranchesLand
<1> DEFINE s == CodeStart(file, f)
           e == CodeEnd(file, f)
           I == InstrsOf(file, f)
           Owner == CHOOSE p \in I : a \in LabelSlots(file, p)
<1>1. /\ f \in 0..(i - 1) /\ i = file[1] /\ WellFormed(file)
      /\ code_start[f] = s /\ code_end[f] = e
      /\ Lands(file, code, f, e)
  BY DEF LInv, Placed, Listed, Landed, InBody, Typed
<1>2. Targets(file, s, e) =
        [x \in UNION {LabelSlots(file, p) : p \in I} |->
           LabelTarget(file, s, e, CHOOSE p \in I : x \in LabelSlots(file, p), file[x])]
  BY DEF Targets, InstrsOf
<1> HIDE DEF s, e, I
<1>3. a \in UNION {LabelSlots(file, p) : p \in I}
  BY <1>1, <1>2
<1>4. Targets(file, s, e)[a] = LabelTarget(file, s, e, Owner, file[a])
  BY <1>2, <1>3
<1>5. Owner \in I /\ a \in LabelSlots(file, Owner)
  <2>1. \E p \in I : a \in LabelSlots(file, p)
    BY <1>3
  <2> QED
    BY <2>1
<1> HIDE DEF Owner
<1>6. Owner < e
  BY <1>1, <1>5, BodyFacts, Addresses DEF I, e
<1>7. (a + 1) + code[a] = LabelTarget(file, s, e, Owner, file[a])
  BY <1>1, <1>5, <1>6 DEF Lands, I, s, e
<1> QED
  BY <1>1, <1>4, <1>7

(***************************************************************************)
(* The point of the loader: when it is done, every offset in every body    *)
(* leads to where the label it replaced meant to, which LabelTarget says   *)
(* from the body alone.                                                    *)
(***************************************************************************)
THEOREM EveryBranchLands == Spec => []BranchesLand
BY LandsAll, StartLands, NextLands, PTL DEF Spec

(***************************************************************************)
(* The two runs number the blocks alike: the second finds in static_blocks *)
(* what it writes there, although it reads the code it is overwriting.     *)
(***************************************************************************)
THEOREM RunsAgree == Spec => SecondRunAgrees
<1>1. LInv /\ [Next]_vars => [replace_last' => static_blocks' = static_blocks]_vars
  <2> SUFFICES ASSUME LInv, Step, replace_last' PROVE static_blocks' = static_blocks
    BY DEF Next, Loaded
  <2>1. CASE StartSection
    BY <2>1 DEF StartSection
  <2>2. CASE StartBody
    BY <2>2 DEF StartBody
  <2>3. CASE DecodeBlock
    BY <2>3, BlockKeeps DEF DecodeBlock, sectionVars
  <2>4. CASE DecodeEnd
    BY <2>4, EndKeeps DEF DecodeEnd, sectionVars
  <2>5. CASE DecodeBr \/ DecodeBrTable \/ DecodeOther
    BY <2>5 DEF DecodeBr, DecodeBrTable, DecodeOther
  <2>6. CASE ReplacePass
    BY <2>6, ReplacePassKeeps
  <2>7. CASE NextBody
    BY <2>7 DEF NextBody
  <2> QED
    BY <2>1, <2>2, <2>3, <2>4, <2>5, <2>6, <2>7 DEF Step
<1> QED
  BY <1>1, StartLands, NextLands, PTL DEF Spec, SecondRunAgrees

\* The one write to the code goes to a label of the body decode_expr is in.
LEMMA WritesLabels ==
  ASSUME LInv, Step, NEW a \in DOMAIN code, code'[a] # code[a]
  PROVE  phase = "expr" /\ replace_last /\ a \in LabelSlots(file, ptr)
<1>1. DecodeBr \/ DecodeBrTable
  BY DEF Step, StartSection, StartBody, DecodeBlock, DecodeEnd, DecodeOther, ReplacePass, NextBody
<1>2. phase = "expr"
  BY <1>1 DEF DecodeBr, DecodeBrTable, Decode
<1>3. code[ptr] \in {WASM_OP_BR, WASM_OP_BR_IF, WASM_OP_BR_TABLE}
        /\ ReplaceOffsets(LabelSlots(code, ptr))
  <2>1. CASE DecodeBr
    <3>1. code[ptr] \in {WASM_OP_BR, WASM_OP_BR_IF}
      BY <2>1 DEF DecodeBr, Decode
    <3>2. LabelSlots(code, ptr) = {ptr + 1}
      BY <3>1 DEF LabelSlots, WASM_OP_BR, WASM_OP_BR_IF, WASM_OP_BR_TABLE
    <3> QED
      BY <2>1, <3>1, <3>2 DEF DecodeBr
  <2>2. CASE DecodeBrTable
    <3>1. LabelSlots(code, ptr) = (ptr + 2)..(ptr + 2 + code[ptr + 1])
      BY <2>2 DEF DecodeBrTable, Decode, LabelSlots, WASM_OP_BR, WASM_OP_BR_IF, WASM_OP_BR_TABLE
    <3> QED
      BY <2>2, <3>1 DEF DecodeBrTable, Decode
  <2> QED
    BY <1>1, <2>1, <2>2
<1> QED
  BY <1>2, <1>3, AtInstr DEF ReplaceOffsets

(***************************************************************************)
(* BR_REPLACE_OFFSET writes to labels of the body decode_expr is in, and   *)
(* to none of them twice: the label it reads there is that of the file.    *)
(***************************************************************************)
THEOREM LabelsAreReplacedOnce == Spec => LabelsReplacedOnce
<1> DEFINE Once == \A a \in DOMAIN code : code'[a] # code[a] =>
                     /\ code[a] = file[a]
                     /\ \E p \in InstrStarts(file, code_start[i], code_end[i]) :
                          a \in LabelSlots(file, p)
<1>1. LInv /\ [Next]_vars => [Once]_vars
  <2> SUFFICES ASSUME LInv, Step, NEW a \in DOMAIN code, code'[a] # code[a]
               PROVE  /\ code[a] = file[a]
                      /\ \E p \in InstrStarts(file, code_start[i], code_end[i]) :
                           a \in LabelSlots(file, p)
    BY DEF Next, Loaded
  <2>1. phase = "expr"
    BY WritesLabels
  <2>2. replace_last /\ a \in LabelSlots(file, ptr)
    BY WritesLabels
  <2>3. code[a] = file[a] /\ ptr \in InstrsOf(file, i)
    BY <2>1, <2>2, AtInstr
  <2>4. code_start[i] = CodeStart(file, i) /\ code_end[i] = CodeEnd(file, i)
    <3>1. InBody /\ i \in Nat
      BY <2>1, AtInstr DEF InBody, WellFormed
    <3>2. i \in 0..i
      BY <3>1
    <3> QED
      BY <2>2, <3>1, <3>2 DEF LInv, Listed
  <2> QED
    BY <2>2, <2>3, <2>4 DEF InstrsOf
<1> QED
  BY <1>1, StartLands, NextLands, PTL DEF Spec, LabelsReplacedOnce

-----------------------------------------------------------------------------
(***************************************************************************)
(* No slot but that of a label changes, and a body is listed with as many  *)
(* locals as its header declares.                                          *)
(***************************************************************************)
InLabel(c, a) == \E k \in 0..(c[1] - 1) : a \in DOMAIN BodyTargets(c, k)

KInv ==
  /\ code = [a \in DOMAIN code |-> code[a]]
  /\ \A a \in DOMAIN code : code[a] # file[a] => InLabel(file, a)
  /\ DOMAIN num_locals = DOMAIN code_start
  /\ \A k \in DOMAIN num_locals : num_locals[k] = LocalsOf(file, k)

LEMMA TargetsDomain ==
  ASSUME NEW c, NEW k
  PROVE  DOMAIN BodyTargets(c, k) = UNION {LabelSlots(c, p) : p \in InstrsOf(c, k)}
BY DEF BodyTargets, Targets, InstrsOf

LEMMA StartKeeps == Init => KInv
<1> SUFFICES ASSUME Init PROVE KInv
  OBVIOUS
<1>1. file \in Seq(Int) /\ code = file /\ code_start = <<>> /\ num_locals = <<>>
  BY ImagesAssumption DEF Init, Start, WellFormed
<1>2. file = [a \in DOMAIN file |-> file[a]]
  BY <1>1
<1> QED
  BY <1>1, <1>2 DEF KInv

LEMMA NextKeeps == LInv /\ KInv /\ [Next]_vars => KInv'
<1> SUFFICES ASSUME LInv, KInv, Step PROVE KInv'
  BY DEF KInv, vars, Next, Loaded
<1>1. file' = file /\ DOMAIN code' = DOMAIN code /\ code' = [a \in DOMAIN code' |-> code'[a]]
  BY DEF KInv, Step, StartSection, StartBody, DecodeBlock, DecodeEnd, DecodeBr, DecodeBrTable,
     DecodeOther, ReplacePass, NextBody, ReplaceOffsets
<1>2. ASSUME NEW a \in DOMAIN code, code'[a] # file[a] PROVE InLabel(file, a)
  <2>1. CASE code'[a] = code[a]
    BY <1>2, <2>1 DEF KInv
  <2>2. CASE code'[a] # code[a]
    <3>1. phase = "expr" /\ a \in LabelSlots(file, ptr)
      BY <2>2, WritesLabels
    <3>2. i \in 0..(file[1] - 1) /\ ptr \in InstrsOf(file, i)
      BY <3>1, AtInstr
    <3>3. a \in DOMAIN BodyTargets(file, i)
      BY <3>1, <3>2, TargetsDomain
    <3> QED
      BY <3>2, <3>3 DEF InLabel
  <2> QED
    BY <2>1, <2>2
<1>3. /\ DOMAIN num_locals' = DOMAIN code_start'
      /\ \A k \in DOMAIN num_locals' : num_locals'[k] = LocalsOf(file, k)
  <2>1. CASE StartBody
    <3>1. /\ code_start' = Set(code_start, i, LocalsEnd(code, ptr + 1))
          /\ num_locals' = Set(num_locals, i, DeclaredLocals(code, ptr + 1))
      BY <2>1 DEF StartBody
    <3>2. DeclaredLocals(code, ptr + 1) = LocalsOf(file, i)
      BY <2>1, StartBodyReads
    <3> QED
      BY <3>1, <3>2 DEF Set, KInv
  <2>2. CASE ~StartBody
    <3>1. UNCHANGED <<code_start, num_locals>>
      BY <2>2 DEF Step, StartSection, DecodeBlock, DecodeEnd, DecodeBr, DecodeBrTable,
         DecodeOther, ReplacePass, NextBody, sectionVars
    <3> QED
      BY <3>1 DEF KInv
  <2> QED
    BY <2>1, <2>2
<1> QED
  BY <1>1, <1>2, <1>3 DEF KInv

HandedOver ==
  /\ code = [a \in DOMAIN file |-> code[a]]
  /\ \A a \in DOMAIN file : code[a] # file[a] => InLabel(file, a)
  /\ \A k \in 0..(file[1] - 1) :
       /\ code_start[k] = CodeStart(file, k)
       /\ code_end[k]   = CodeEnd(file, k)
       /\ num_locals[k] = LocalsOf(file, k)
       /\ \A a \in DOMAIN BodyTargets(file, k) : (a + 1) + code[a] = BodyTargets(file, k)[a]

LEMMA DoneHandsOver == LInv /\ KInv /\ phase = "done" => HandedOver
<1> SUFFICES ASSUME LInv, KInv, phase = "done" PROVE HandedOver
  OBVIOUS
<1>1. i = file[1] /\ ~InBody /\ DOMAIN code = DOMAIN file
  BY DEF LInv, Typed, Placed, InBody
<1>2. /\ DOMAIN code_start = 0..(file[1] - 1)
      /\ \A k \in 0..(file[1] - 1) : code_start[k] = CodeStart(file, k) /\ code_end[k] = CodeEnd(file, k)
  BY <1>1 DEF LInv, Listed
<1>3. \A k \in 0..(file[1] - 1) : \A a \in DOMAIN BodyTargets(file, k) :
        (a + 1) + code[a] = BodyTargets(file, k)[a]
  BY <1>2, LandsAll DEF BranchesLand, BodyTargets
<1> QED
  BY <1>1, <1>2, <1>3 DEF HandedOver, KInv

(***************************************************************************)
(* What the interpreter is given: the section with its labels replaced and *)
(* nothing else changed, and the bounds and the locals of every body.      *)
(***************************************************************************)
THEOREM SectionIsLinked == Spec => [](phase = "done" => HandedOver)
<1>1. Init => LInv /\ KInv
  BY StartLands, StartKeeps
<1>2. LInv /\ KInv /\ [Next]_vars => (LInv /\ KInv)'
  BY NextLands, NextKeeps
<1>3. LInv /\ KInv => (phase = "done" => HandedOver)
  BY DoneHandsOver
<1> QED
  BY <1>1, <1>2, <1>3, PTL DEF Spec

-----------------------------------------------------------------------------
(***************************************************************************)
(* A label belongs to one instruction of one body.                         *)
(***************************************************************************)
\* The bodies lie one behind the other.
LEMMA BodiesInOrder ==
  ASSUME NEW c, WellFormed(c), NEW j \in 0..(c[1] - 1), NEW k \in 0..(c[1] - 1), j < k
  PROVE  CodeEnd(c, j) < CodeStart(c, k)
<1>1. PICK n \in Nat : n = c[1]
  BY DEF WellFormed
<1>2. PICK N \in Nat : N = n - 1
  <2>1. n - 1 \in Nat
    BY <1>1
  <2> QED
    BY <2>1, Zenon
<1>3. \A m \in 0..N : /\ Headers(c)[m] \in Nat
                      /\ CodeStart(c, m) \in Nat /\ CodeEnd(c, m) \in Nat
                      /\ Headers(c)[m] + 2 <= CodeStart(c, m)
                      /\ CodeStart(c, m) < CodeEnd(c, m)
                      /\ CodeEnd(c, m) = Headers(c)[m + 1]
  <2> TAKE m \in 0..N
  <2>1. m \in 0..(c[1] - 1)
    BY <1>1, <1>2
  <2> QED
    BY <2>1, BodyIs DEF CodeEnd
<1> DEFINE H(m) == Headers(c)[m]
           T == {m \in 0..N : m > j => CodeEnd(c, j) <= H(m)}
<1>4. j \in 0..N /\ k \in 0..N
  BY <1>1, <1>2
<1>5. 0 \in T
  BY <1>4
<1>6. ASSUME NEW m \in 1..N, m - 1 \in T PROVE m \in T
  <2>1. PICK l \in 0..N : l = m - 1
    BY <1>6
  <2>2. H(l) \in Nat /\ H(m) \in Nat /\ CodeEnd(c, l) = H(m) /\ H(l) < H(m)
    <3>1. l + 1 = m /\ m \in 0..N
      BY <2>1
    <3> QED
      BY <1>3, <3>1
  <2>3. CodeEnd(c, j) \in Nat /\ (l > j => CodeEnd(c, j) <= H(l))
    BY <1>3, <1>4, <1>6, <2>1
  <2>4. m > j => l = j \/ l > j
    BY <1>4, <2>1
  <2>5. m > j => CodeEnd(c, j) <= H(m)
    <3> HIDE DEF H
    <3> QED
      BY <2>2, <2>3, <2>4
  <2> QED
    BY <2>5
<1>7. 0..N \subseteq T
  <2> HIDE DEF T
  <2> QED
    BY <1>5, <1>6, UpTo
<1>8. CodeEnd(c, j) <= H(k)
  BY <1>4, <1>7
<1>9. H(k) \in Nat /\ H(k) + 2 <= CodeStart(c, k) /\ CodeStart(c, k) \in Nat /\ CodeEnd(c, j) \in Nat
  BY <1>3, <1>4
<1> HIDE DEF H
<1> QED
  BY <1>8, <1>9

\* The slots of an instruction, and the labels among them.
LEMMA OwnLabels ==
  ASSUME NEW c, WellFormed(c), NEW k \in 0..(c[1] - 1), NEW p \in InstrsOf(c, k)
  PROVE  /\ p \in Nat /\ NextInstr(c, p) \in Nat /\ p < NextInstr(c, p)
         /\ p..(NextInstr(c, p) - 1) \subseteq DOMAIN c
         /\ LabelSlots(c, p) \subseteq (p + 1)..(NextInstr(c, p) - 1)
         /\ LabelSlots(c, p) \subseteq DOMAIN BodyTargets(c, k)
         /\ \A j \in 0..(c[1] - 1) : \A a \in DOMAIN BodyTargets(c, j) :
              a \in p..(NextInstr(c, p) - 1) => a \in LabelSlots(c, p)
<1> DEFINE I(j) == InstrsOf(c, j)
<1>1. \A j \in 0..(c[1] - 1) :
        /\ CodeStart(c, j) \in Nat /\ CodeEnd(c, j) \in Nat /\ 2 <= CodeStart(c, j)
        /\ CodeEnd(c, j) <= Len(c) + 1
        /\ \A q \in I(j) : /\ q \in Nat /\ NextInstr(c, q) \in Nat /\ CodeStart(c, j) <= q
                           /\ q < NextInstr(c, q) /\ NextInstr(c, q) <= CodeEnd(c, j)
                           /\ \A a \in LabelSlots(c, q) : a \in (q + 1)..(NextInstr(c, q) - 1)
        /\ \A x, y \in I(j) : x < y => NextInstr(c, x) <= y
  <2> TAKE j \in 0..(c[1] - 1)
  <2>1. /\ CodeStart(c, j) \in Nat /\ CodeEnd(c, j) \in Nat /\ 2 <= CodeStart(c, j)
        /\ CodeEnd(c, j) <= Len(c) + 1
    <3>1. /\ Headers(c)[j] \in Nat /\ CodeStart(c, j) \in Nat /\ CodeEnd(c, j) \in Nat
          /\ 2 <= Headers(c)[j] /\ Headers(c)[j] + 2 <= CodeStart(c, j)
          /\ CodeEnd(c, j) <= Len(c) + 1
      BY BodyIs
    <3>2. PICK h \in Nat : h = Headers(c)[j]
      BY <3>1
    <3>3. 2 <= h /\ h + 2 <= CodeStart(c, j)
      BY <3>1, <3>2
    <3> QED
      BY <3>1, <3>3
  <2>2. Body(c, I(j), CodeStart(c, j), CodeEnd(c, j))
    BY BodyFacts
  <2> HIDE DEF I
  <2>3. /\ \A q \in I(j) : /\ q \in Nat /\ NextInstr(c, q) \in Nat /\ CodeStart(c, j) <= q
                           /\ q < NextInstr(c, q) /\ NextInstr(c, q) <= CodeEnd(c, j)
        /\ \A x, y \in I(j) : x < y => NextInstr(c, x) <= y
    BY <2>2, Addresses
  <2>4. \A q \in I(j) : \A a \in LabelSlots(c, q) : a \in (q + 1)..(NextInstr(c, q) - 1)
    BY <2>2 DEF Body, Consecutive
  <2> QED
    BY <2>1, <2>3, <2>4
<1>2. \A j : DOMAIN BodyTargets(c, j) = UNION {LabelSlots(c, q) : q \in I(j)}
  BY DEF BodyTargets, Targets, InstrsOf
<1> HIDE DEF I
<1>3. PICK a0 \in Nat, b0 \in Nat : a0 = p /\ b0 = NextInstr(c, p)
  BY <1>1 DEF I
<1>4. /\ a0 < b0 /\ 2 <= a0 /\ b0 <= Len(c) + 1 /\ Len(c) \in Nat /\ DOMAIN c = 1..Len(c)
      /\ LabelSlots(c, p) \subseteq (a0 + 1)..(b0 - 1)
  <2>1. Len(c) \in Nat /\ DOMAIN c = 1..Len(c)
    BY DEF WellFormed
  <2>2. /\ CodeStart(c, k) \in Nat /\ CodeEnd(c, k) \in Nat /\ 2 <= CodeStart(c, k)
        /\ CodeEnd(c, k) <= Len(c) + 1 /\ CodeStart(c, k) <= a0 /\ a0 < b0 /\ b0 <= CodeEnd(c, k)
    BY <1>1, <1>3 DEF I
  <2>3. LabelSlots(c, p) \subseteq (a0 + 1)..(b0 - 1)
    BY <1>1, <1>3 DEF I
  <2> QED
    BY <2>1, <2>2, <2>3
<1>5. ASSUME NEW j \in 0..(c[1] - 1), NEW a \in DOMAIN BodyTargets(c, j), a \in a0..(b0 - 1)
      PROVE  a \in LabelSlots(c, p)
  <2>0. a \in UNION {LabelSlots(c, q) : q \in I(j)}
    BY <1>2, Zenon
  <2>1. PICK q \in I(j) : a \in LabelSlots(c, q)
    BY <2>0
  <2>2. PICK a1 \in Nat, b1 \in Nat : a1 = q /\ b1 = NextInstr(c, q)
    BY <1>1
  <2>3. /\ CodeStart(c, j) \in Nat /\ CodeEnd(c, j) \in Nat
        /\ CodeStart(c, j) <= a1 /\ b1 <= CodeEnd(c, j) /\ a \in (a1 + 1)..(b1 - 1)
    BY <1>1, <2>1, <2>2
  <2>4. /\ CodeStart(c, k) \in Nat /\ CodeEnd(c, k) \in Nat
        /\ CodeStart(c, k) <= a0 /\ b0 <= CodeEnd(c, k)
    BY <1>1, <1>3 DEF I
  <2>5. ~ (j < k)
    <3>1. j < k => CodeEnd(c, j) < CodeStart(c, k)
      BY BodiesInOrder
    <3> QED
      BY <1>5, <2>3, <2>4, <3>1
  <2>6. ~ (k < j)
    <3>1. k < j => CodeEnd(c, k) < CodeStart(c, j)
      BY BodiesInOrder
    <3> QED
      BY <1>5, <2>3, <2>4, <3>1
  <2>7. j = k
    <3>1. c[1] \in Nat
      BY DEF WellFormed
    <3> QED
      BY <2>5, <2>6, <3>1
  <2>8. (a0 < a1 => b0 <= a1) /\ (a1 < a0 => b1 <= a0)
    BY <1>1, <1>3, <2>2, <2>7 DEF I
  <2>9. a0 = a1
    BY <1>5, <2>3, <2>8
  <2> QED
    BY <1>3, <2>1, <2>2, <2>9
<1>6. LabelSlots(c, p) \subseteq DOMAIN BodyTargets(c, k)
  BY <1>2 DEF I
<1>7. a0..(b0 - 1) \subseteq DOMAIN c
  BY <1>4
<1> QED
  BY <1>3, <1>4, <1>5, <1>6, <1>7

=============================================================================
