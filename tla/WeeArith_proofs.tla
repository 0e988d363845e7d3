--------------------------- MODULE WeeArith_proofs ---------------------------
(***************************************************************************)
(* For numbers of any width: the checks of the four division handlers keep *)
(* idiv from faulting, their quotients and remainders are those of         *)
(* WebAssembly, and so are the conversions between doubles and integers    *)
(* and every bit the handlers on words push.                               *)
(***************************************************************************)
EXTENDS WeeArith, TLAPS, FiniteSetTheorems, WellFoundedInduction

\* A quotient is at most its dividend, and smaller when it divides by 2 or more.
LEMMA QuotientBound ==
  ASSUME NEW a \in Nat, NEW b \in Nat \ {0}
  PROVE  /\ a \div b \in Nat /\ a \div b <= a
         /\ a # 0 /\ b # 1 => a \div b < a
<1>1. a \div b \in Nat /\ a \div b <= a
  BY SMTT(30)
<1>2. ASSUME a # 0, b # 1 PROVE a \div b < a
  BY <1>2, SMTT(30)
<1> QED
  BY <1>1, <1>2

LEMMA Ranges ==
  /\ Half \in Nat \ {0} /\ Modulus = 2 * Half
  /\ INT_MIN = -Half /\ INT_MAX = Half - 1
<1>1. PICK one \in 0..Width, m \in 0..Width : one = 1 /\ m = Width - 1 /\ one + m = Width
  BY WidthAssumption
<1>2. 2^(one + m) = 2^one * 2^m /\ 2^m \in Nat \ {0}
  <2>1. one + m <= Width
    BY <1>1
  <2> QED
    BY <2>1, PowerAssumption
<1> QED
  BY <1>1, <1>2, PowerAssumption DEF Half, Modulus, INT_MIN, INT_MAX

LEMMA SignedRange ==
  ASSUME NEW x \in Int
  PROVE  Signed(x) \in Int /\ -Half <= Signed(x) /\ Signed(x) < Half
<1>1. Half \in Nat \ {0} /\ Modulus = 2 * Half
  BY Ranges
<1>2. (x + Half) % Modulus \in 0..(Modulus - 1)
  BY <1>1
<1> QED
  BY <1>1, <1>2 DEF Signed, Unsigned

\* idiv faults on a zero divisor and on INT_MIN / -1, and on nothing else.
LEMMA FaultsOnly ==
  ASSUME NEW x \in Int, NEW y \in Int, -Half <= x, x < Half, y # 0,
         ~(x = INT_MIN /\ y = -1)
  PROVE  ~IdivFaults(x, y) /\ Idiv(x, y) \in Int
<1> DEFINE q == Abs(x) \div Abs(y)
<1>1. Half \in Nat \ {0} /\ INT_MIN = -Half /\ INT_MAX = Half - 1
  BY Ranges
<1>2. /\ Abs(x) \in Nat /\ Abs(x) <= Half /\ Abs(y) \in Nat \ {0}
  BY <1>1 DEF Abs
<1>3. q \in Nat /\ q <= Abs(x) /\ (Abs(x) # 0 /\ Abs(y) # 1 => q < Abs(x))
  BY <1>2, QuotientBound
<1>4. Sign(x) \in {-1, 1} /\ Sign(y) \in {-1, 1}
  BY DEF Sign
<1> HIDE DEF q
<1>5. Idiv(x, y) \in {q, -q}
  BY <1>3, <1>4 DEF Idiv, q
<1>6. Idiv(x, y) <= INT_MAX
  <2>1. CASE q < Half
    BY <2>1, <1>1, <1>3, <1>5
  <2>2. CASE q = Half
    <3>1. Abs(x) = Half /\ Abs(y) = 1
      BY <2>2, <1>1, <1>2, <1>3
    <3>2. x = INT_MIN
      BY <3>1, <1>1 DEF Abs
    <3>3. y = 1
      BY <3>1, <3>2 DEF Abs
    <3>4. Sign(x) = -1 /\ Sign(y) = 1
      BY <3>2, <3>3, <1>1 DEF Sign
    <3>5. Idiv(x, y) = -q
      BY <3>4, <1>3 DEF Idiv, q
    <3> QED
      BY <3>5, <1>1, <1>3
  <2> QED
    BY <2>1, <2>2, <1>1, <1>2, <1>3
<1> QED
  BY <1>1, <1>3, <1>5, <1>6 DEF IdivFaults

\* The cast of an i32 to int32_t is 0 for 0 only, and a word is a number.
LEMMA SignedZero ==
  ASSUME NEW y \in Words, y # 0 PROVE Signed(y) # 0 /\ y \in Int
<1>1. Half \in Nat \ {0} /\ Modulus = 2 * Half
  BY Ranges
<1>2. y \in 1..(2 * Half - 1)
  BY <1>1 DEF Words
<1>3. CASE y < Half
  <2>1. (y + Half) % Modulus = y + Half
    BY <1>1, <1>2, <1>3
  <2> QED
    BY <2>1, <1>1, <1>2 DEF Signed, Unsigned
<1>4. CASE y >= Half
  <2>1. (y + Half) % Modulus = y - Half
    BY <1>1, <1>2, <1>4
  <2> QED
    BY <2>1, <1>1, <1>2, <1>4 DEF Signed, Unsigned
<1> QED
  BY <1>1, <1>2, <1>3, <1>4

-----------------------------------------------------------------------------
LEMMA UnsignedInt == ASSUME NEW x \in Int PROVE Unsigned(x) \in Int
<1>1. Modulus \in Nat \ {0}
  BY Ranges
<1> QED
  BY <1>1 DEF Unsigned

\* None of the four handlers ends in a fault.
LEMMA HandlersNeverFault ==
  ASSUME NEW x \in Words, NEW y \in Words
  PROVE  SigFpe \notin {DivOpI32(x, y), DivOpU32(x, y), RemOpI32(x, y), RemOpU32(x, y)}
<1>1. x \in Int /\ y \in Int /\ x \in Nat /\ y \in Nat
  BY Ranges DEF Words
<1>2. CASE y = 0
  BY <1>2, OutcomesAssumption DEF DivOpI32, DivOpU32, RemOpI32, RemOpU32
<1>3. CASE y # 0 /\ Signed(x) = INT_MIN /\ Signed(y) = -1
  <2>1. x \div y \in Int /\ x % y \in Int
    BY <1>1, <1>3
  <2> QED
    BY <1>3, <2>1, OutcomesAssumption DEF DivOpI32, DivOpU32, RemOpI32, RemOpU32
<1>4. CASE y # 0 /\ ~(Signed(x) = INT_MIN /\ Signed(y) = -1)
  <2>1. Signed(y) # 0
    BY <1>4, SignedZero
  <2>2. /\ Signed(x) \in Int /\ -Half <= Signed(x) /\ Signed(x) < Half
        /\ Signed(y) \in Int
    BY <1>1, SignedRange
  <2>3. ~IdivFaults(Signed(x), Signed(y)) /\ Idiv(Signed(x), Signed(y)) \in Int
    BY <1>4, <2>1, <2>2, FaultsOnly
  <2>4. Irem(Signed(x), Signed(y)) \in Int
    BY <2>2, <2>3 DEF Irem
  <2>5. x \div y \in Int /\ x % y \in Int
    BY <1>1, <1>4
  <2>6. DivOpI32(x, y) \in Int /\ RemOpI32(x, y) \in Int
    BY <1>4, <2>3, <2>4, UnsignedInt DEF DivOpI32, RemOpI32
  <2>7. DivOpU32(x, y) \in Int /\ RemOpU32(x, y) \in Int
    BY <1>4, <2>5 DEF DivOpU32, RemOpU32
  <2> QED
    BY <2>6, <2>7, OutcomesAssumption
<1> QED
  BY <1>2, <1>3, <1>4

-----------------------------------------------------------------------------
\* The operands of a division are words, and it never faulted.
DivInv == op \in DivOps => v1 \in Words /\ v2 \in Words /\ res # SigFpe

LEMMA InitDivInv == Init => DivInv
BY OutcomesAssumption DEF Init, DivInv, DivOps, UnaryOps

LEMMA NextDivInv == DivInv /\ [Next]_vars => DivInv'
<1> SUFFICES ASSUME DivInv, [Next]_vars, op \in DivOps PROVE DivInv'
  BY DEF DivInv, Next, Handler, vars
<1>1. CASE UNCHANGED vars
  BY <1>1 DEF vars, DivInv
<1>2. CASE Next
  <2>1. v1 \in Words /\ v2 \in Words
    BY DEF DivInv
  <2>2. op' = op /\ v1' = v1 /\ v2' = v2
    BY <1>2 DEF Next, Handler
  <2>3. res' \in {DivOpI32(v2, v1), DivOpU32(v2, v1), RemOpI32(v2, v1), RemOpU32(v2, v1)}
    BY <1>2 DEF Next, Handler, DivOps, BinaryOps
  <2>4. res' # SigFpe
    BY <2>1, <2>3, HandlersNeverFault
  <2> QED
    BY <2>1, <2>2, <2>4 DEF DivInv
<1> QED
  BY <1>1, <1>2

\* No division or remainder ends the process, whatever its operands: DIV_OP_I32
\* and REM_OP_I32 check for exactly the pairs on which idiv faults.
THEOREM DivisionsSafe == Spec => []NeverFaults
<1>1. Init => DivInv
  BY InitDivInv
<1>2. DivInv /\ [Next]_vars => DivInv'
  BY NextDivInv
<1>3. DivInv => NeverFaults
  BY DEF DivInv, NeverFaults
<1> QED
  BY <1>1, <1>2, <1>3, PTL DEF Spec

-----------------------------------------------------------------------------
(***************************************************************************)
(* What the quotients and remainders are.                                  *)
(***************************************************************************)
LEMMA DivMod ==
  ASSUME NEW a \in Nat, NEW b \in Nat \ {0}
  PROVE  /\ a \div b \in Nat /\ a % b \in Nat /\ a % b < b
         /\ a - (a \div b) * b = a % b
<1>1. a \div b \in Nat /\ a % b \in Nat /\ a % b < b
  BY SMTT(30)
<1>2. a - (a \div b) * b = a % b
  BY SMTT(30)
<1> QED
  BY <1>1, <1>2

\* The cast of a word is the number WebAssembly reads in it.
LEMMA SignedIs ==
  ASSUME NEW x \in Words
  PROVE  Signed(x) = Wasm!Signed32(x) /\ x \in Int
<1>1. Half \in Nat \ {0} /\ Modulus = 2 * Half /\ 2^(Width - 1) = Half /\ 2^Width = Modulus
  BY Ranges DEF Half, Modulus
<1>2. x \in 0..(2 * Half - 1)
  BY <1>1 DEF Words
<1>3. CASE x < Half
  <2>1. (x + Half) % Modulus = x + Half
    BY <1>1, <1>2, <1>3
  <2> QED
    BY <2>1, <1>1, <1>2, <1>3 DEF Signed, Unsigned, Wasm!Signed32
<1>4. CASE x >= Half
  <2>1. (x + Half) % Modulus = x - Half
    BY <1>1, <1>2, <1>4
  <2> QED
    BY <2>1, <1>1, <1>2, <1>4 DEF Signed, Unsigned, Wasm!Signed32
<1> QED
  BY <1>1, <1>2, <1>3, <1>4

LEMMA UnsignedIs ==
  ASSUME NEW z \in Int, -Half <= z, z < Half
  PROVE  Unsigned(z) \in Words /\ Wasm!Signed32(Unsigned(z)) = z
<1>1. Half \in Nat \ {0} /\ Modulus = 2 * Half /\ 2^(Width - 1) = Half /\ 2^Width = Modulus
  BY Ranges DEF Half, Modulus
<1>2. CASE z >= 0
  <2>1. z % Modulus = z
    BY <1>1, <1>2
  <2> QED
    BY <2>1, <1>1, <1>2 DEF Unsigned, Words, Wasm!Signed32
<1>3. CASE z < 0
  <2>1. z % Modulus = z + Modulus
    BY <1>1, <1>3
  <2> QED
    BY <2>1, <1>1, <1>3 DEF Unsigned, Words, Wasm!Signed32
<1> QED
  BY <1>2, <1>3

LEMMA MinusTimes ==
  ASSUME NEW x \in Int, NEW y \in Int
  PROVE  /\ x * y \in Int /\ x * y = y * x
         /\ (-x) * y = -(x * y) /\ x * (-y) = -(x * y) /\ (-x) * (-y) = x * y
OBVIOUS

\* idiv rounds towards zero.
LEMMA IdivIsQuotient ==
  ASSUME NEW x \in Int, NEW y \in Int, y # 0
  PROVE  /\ Idiv(x, y) \in Int /\ Irem(x, y) \in Int
         /\ Wasm!IsQuotient(x, y, Idiv(x, y))
         /\ x - Idiv(x, y) * y = Irem(x, y)
         /\ Abs(Irem(x, y)) < Abs(y)
<1> DEFINE q == Abs(x) \div Abs(y)
           m == Abs(x) % Abs(y)
<1>1. Abs(x) \in Nat /\ Abs(y) \in Nat \ {0}
  BY DEF Abs
<1>2. /\ q \in Nat /\ m \in Nat /\ m < Abs(y)
      /\ Abs(x) - q * Abs(y) = m
  BY <1>1, DivMod
<1>3. Idiv(x, y) = Sign(x) * Sign(y) * q
  BY DEF Idiv
<1> HIDE DEF q, m
<1>4. /\ q * y \in Int /\ q * y = y * q
      /\ (-q) * y = -(q * y) /\ q * (-y) = -(q * y) /\ y * (-q) = -(q * y)
  BY <1>2, MinusTimes
<1>5. Idiv(x, y) = IF (x < 0) = (y < 0) THEN q ELSE -q
  BY <1>2, <1>3 DEF Sign
<1>6. Idiv(x, y) \in Int /\ Idiv(x, y) * y \in Int /\ y * Idiv(x, y) = Idiv(x, y) * y
  BY <1>2, <1>4, <1>5
<1>7. x - Idiv(x, y) * y = IF x < 0 THEN -m ELSE m
  <2>1. CASE x >= 0 /\ y > 0
    BY <2>1, <1>2, <1>4, <1>5 DEF Abs
  <2>2. CASE x >= 0 /\ y < 0
    BY <2>2, <1>2, <1>4, <1>5 DEF Abs
  <2>3. CASE x < 0 /\ y > 0
    BY <2>3, <1>2, <1>4, <1>5 DEF Abs
  <2>4. CASE x < 0 /\ y < 0
    BY <2>4, <1>2, <1>4, <1>5 DEF Abs
  <2> QED
    BY <2>1, <2>2, <2>3, <2>4
<1>8. Irem(x, y) = IF x < 0 THEN -m ELSE m
  BY <1>6, <1>7 DEF Irem
<1>9. Wasm!IsQuotient(x, y, Idiv(x, y))
  BY <1>2, <1>7 DEF Wasm!IsQuotient, Wasm!Magnitude, Abs
<1> QED
  BY <1>2, <1>6, <1>7, <1>8, <1>9 DEF Abs

\* What is left over has the magnitude of a smaller number than the divisor,
\* and a quotient none above that of the dividend.
LEMMA IdivRange ==
  ASSUME NEW x \in Int, NEW y \in Int, -Half <= x, x < Half, -Half <= y, y < Half, y # 0
  PROVE  /\ Idiv(x, y) \in Int /\ -Half <= Idiv(x, y) /\ Idiv(x, y) <= Half
         /\ Irem(x, y) \in Int /\ -Half <= Irem(x, y) /\ Irem(x, y) < Half
<1> DEFINE q == Abs(x) \div Abs(y)
<1>1. Half \in Nat \ {0}
  BY Ranges
<1>2. /\ Abs(x) \in Nat /\ Abs(x) <= Half
      /\ Abs(y) \in Nat \ {0} /\ Abs(y) <= Half
  BY <1>1 DEF Abs
<1>3. q \in Nat /\ q <= Abs(x)
  BY <1>2, QuotientBound
<1> HIDE DEF q
<1>4. Idiv(x, y) \in {q, -q}
  BY <1>3 DEF Idiv, q, Sign
<1>5. Irem(x, y) \in Int /\ Abs(Irem(x, y)) < Abs(y)
  BY IdivIsQuotient
<1>6. -Half <= Irem(x, y) /\ Irem(x, y) < Half
  BY <1>1, <1>2, <1>5 DEF Abs
<1> QED
  BY <1>1, <1>2, <1>3, <1>4, <1>5, <1>6

\* The operands of the signed handlers.
LEMMA SignedOperands ==
  ASSUME NEW x \in Words
  PROVE  /\ x \in Int /\ Signed(x) = Wasm!Signed32(x)
         /\ Signed(x) \in Int /\ -Half <= Signed(x) /\ Signed(x) < Half
         /\ x = 0 <=> Signed(x) = 0
<1>1. x \in Int /\ Signed(x) = Wasm!Signed32(x)
  BY SignedIs
<1>2. Half \in Nat \ {0} /\ 2^(Width - 1) = Half
  BY Ranges DEF Half
<1>3. x = 0 => Signed(x) = 0
  BY <1>1, <1>2 DEF Wasm!Signed32
<1> QED
  BY <1>1, <1>3, SignedZero, SignedRange

LEMMA DivSignedExact ==
  ASSUME NEW x \in Words, NEW y \in Words
  PROVE  Wasm!Divides("div_s", x, y, DivOpI32(x, y))
<1> DEFINE a == Signed(x)
           b == Signed(y)
<1>1. Half \in Nat \ {0} /\ Modulus = 2 * Half /\ INT_MIN = -Half
  BY Ranges
<1>2. 2^(Width - 1) = Half /\ Wasm!Range32 = Words
  BY DEF Half, Wasm!Range32, Words, Modulus
<1>3. /\ a \in Int /\ a = Wasm!Signed32(x) /\ -Half <= a /\ a < Half
      /\ b \in Int /\ b = Wasm!Signed32(y) /\ -Half <= b /\ b < Half
      /\ y = 0 <=> b = 0
  BY SignedOperands
<1> HIDE DEF a, b
<1>4. ASSUME DivOpI32(x, y) = Trap, ~ \E q \in (-Half)..(Half - 1) : Wasm!IsQuotient(a, b, q)
      PROVE  Wasm!Divides("div_s", x, y, DivOpI32(x, y))
  BY <1>2, <1>3, <1>4 DEF Wasm!Divides
<1>5. CASE y = 0
  <2>1. ASSUME NEW q \in Int PROVE ~Wasm!IsQuotient(a, b, q)
    <3>1. b = 0 /\ q * 0 = 0 /\ a \in Int
      BY <1>3, <1>5
    <3> QED
      BY <3>1 DEF Wasm!IsQuotient, Wasm!Magnitude
  <2>2. ~ \E q \in (-Half)..(Half - 1) : Wasm!IsQuotient(a, b, q)
    BY <1>1, <2>1
  <2> QED
    BY <1>4, <1>5, <2>2 DEF DivOpI32
<1>6. CASE y # 0 /\ a = INT_MIN /\ b = -1
  <2>1. ASSUME NEW q \in (-Half)..(Half - 1) PROVE ~Wasm!IsQuotient(a, b, q)
    <3>1. a - q * b = -Half + q /\ b = -1
      BY <1>1, <1>6
    <3> QED
      BY <3>1, <1>1 DEF Wasm!IsQuotient, Wasm!Magnitude
  <2> QED
    BY <1>4, <1>6, <2>1 DEF DivOpI32, a, b
<1>7. CASE y # 0 /\ ~(a = INT_MIN /\ b = -1)
  <2>1. b # 0
    BY <1>3, <1>7
  <2>2. /\ Idiv(a, b) \in Int /\ -Half <= Idiv(a, b)
        /\ Wasm!IsQuotient(a, b, Idiv(a, b))
    BY <1>3, <2>1, IdivRange, IdivIsQuotient
  <2>3. ~IdivFaults(a, b)
    BY <1>3, <1>7, <2>1, FaultsOnly
  <2>4. Idiv(a, b) < Half
    BY <1>1, <2>2, <2>3 DEF IdivFaults, INT_MAX
  <2>5. DivOpI32(x, y) = Unsigned(Idiv(a, b))
    BY <1>7, <2>3 DEF DivOpI32, a, b
  <2>6. Unsigned(Idiv(a, b)) \in Words /\ Wasm!Signed32(Unsigned(Idiv(a, b))) = Idiv(a, b)
    BY <2>2, <2>4, UnsignedIs
  <2>7. Unsigned(Idiv(a, b)) # Trap
    BY <2>2, UnsignedInt, OutcomesAssumption
  <2> QED
    BY <1>2, <1>3, <2>2, <2>5, <2>6, <2>7 DEF Wasm!Divides
<1> QED
  BY <1>5, <1>6, <1>7

LEMMA RemSignedExact ==
  ASSUME NEW x \in Words, NEW y \in Words
  PROVE  Wasm!Divides("rem_s", x, y, RemOpI32(x, y))
<1> DEFINE a == Signed(x)
           b == Signed(y)
           r == RemOpI32(x, y)
<1>1. Half \in Nat \ {0} /\ Modulus = 2 * Half /\ INT_MIN = -Half
  BY Ranges
<1>2. 2^(Width - 1) = Half /\ 2^Width = Modulus /\ Wasm!Range32 = Words
  BY DEF Half, Wasm!Range32, Words, Modulus
<1>3. /\ a \in Int /\ a = Wasm!Signed32(x) /\ -Half <= a /\ a < Half
      /\ b \in Int /\ b = Wasm!Signed32(y) /\ -Half <= b /\ b < Half
      /\ y = 0 <=> b = 0
  BY SignedOperands
<1>4. 0 \in Words /\ Wasm!Signed32(0) = 0
  BY <1>1, <1>2 DEF Words, Wasm!Signed32
<1> HIDE DEF a, b, r
<1>5. ASSUME r # Trap, r \in Words,
             NEW q \in (-Half)..(2 * Half - 1),
             Wasm!IsQuotient(a, b, q), a = q * b + Wasm!Signed32(r)
      PROVE  Wasm!Divides("rem_s", x, y, r)
  BY <1>1, <1>2, <1>3, <1>5 DEF Wasm!Divides
<1>6. CASE y = 0
  <2>1. r = Trap /\ Wasm!Signed32(y) = 0
    BY <1>3, <1>6 DEF RemOpI32, b, r
  <2> QED
    BY <2>1 DEF Wasm!Divides, r
<1>7. CASE y # 0 /\ a = INT_MIN /\ b = -1
  <2>1. r = 0
    BY <1>7 DEF RemOpI32, a, b, r
  <2>2. a - Half * b = 0 /\ a = Half * b + 0 /\ b = -1
    BY <1>1, <1>7
  <2>3. Wasm!IsQuotient(a, b, Half)
    BY <2>2 DEF Wasm!IsQuotient, Wasm!Magnitude
  <2>4. Half \in (-Half)..(2 * Half - 1) /\ 0 # Trap
    BY <1>1, OutcomesAssumption
  <2>5. r # Trap /\ r \in Words /\ a = Half * b + Wasm!Signed32(r)
    BY <2>1, <2>2, <2>4, <1>4
  <2> QED
    BY <1>5, <2>3, <2>4, <2>5 DEF r
<1>8. CASE y # 0 /\ ~(a = INT_MIN /\ b = -1)
  <2>1. b # 0
    BY <1>3, <1>8
  <2>2. /\ Idiv(a, b) \in Int /\ -Half <= Idiv(a, b)
        /\ Irem(a, b) \in Int /\ -Half <= Irem(a, b) /\ Irem(a, b) < Half
        /\ Wasm!IsQuotient(a, b, Idiv(a, b)) /\ a - Idiv(a, b) * b = Irem(a, b)
    BY <1>3, <2>1, IdivRange, IdivIsQuotient
  <2>3. ~IdivFaults(a, b)
    BY <1>3, <1>8, <2>1, FaultsOnly
  <2>4. Idiv(a, b) \in (-Half)..(2 * Half - 1)
    BY <1>1, <2>2, <2>3 DEF IdivFaults, INT_MAX
  <2>5. r = Unsigned(Irem(a, b))
    BY <1>8, <2>3 DEF RemOpI32, a, b, r
  <2>6. r \in Words /\ Wasm!Signed32(r) = Irem(a, b)
    BY <2>2, <2>5, UnsignedIs
  <2>7. r # Trap
    BY <2>2, <2>5, UnsignedInt, OutcomesAssumption
  <2>8. a = Idiv(a, b) * b + Irem(a, b)
    BY <1>3, <2>2
  <2> QED
    BY <1>5, <2>2, <2>4, <2>6, <2>7, <2>8 DEF r
<1> QED
  BY <1>6, <1>7, <1>8 DEF r

LEMMA UnsignedDivisionsExact ==
  ASSUME NEW x \in Words, NEW y \in Words
  PROVE  /\ Wasm!Divides("div_u", x, y, DivOpU32(x, y))
         /\ Wasm!Divides("rem_u", x, y, RemOpU32(x, y))
<1>1. Half \in Nat \ {0} /\ Modulus = 2 * Half /\ 2^(Width - 1) = Half /\ 2^Width = Modulus
  BY Ranges DEF Half, Modulus
<1>2. Wasm!Range32 = Words /\ Words = 0..(2 * Half - 1)
  BY <1>1 DEF Wasm!Range32, Words
<1>3. x \in Nat /\ x < 2 * Half /\ y \in Nat /\ y < 2 * Half
  BY <1>1, <1>2
<1>4. CASE y = 0
  <2>1. ASSUME NEW q \in Int PROVE ~Wasm!IsQuotient(x, y, q)
    <3>1. q * 0 = 0 /\ x \in Int
      BY <1>3
    <3> QED
      BY <3>1, <1>4 DEF Wasm!IsQuotient, Wasm!Magnitude
  <2>2. ~ \E q \in Words : Wasm!IsQuotient(x, y, q)
    BY <1>1, <1>2, <2>1
  <2> QED
    BY <1>2, <1>4, <2>2 DEF DivOpU32, RemOpU32, Wasm!Divides
<1>5. CASE y # 0
  <2> DEFINE q == x \div y
             m == x % y
  <2>1. q \in Nat /\ q <= x /\ m \in Nat /\ m < y /\ x - q * y = m
    BY <1>3, <1>5, DivMod, QuotientBound
  <2>2. DivOpU32(x, y) = q /\ RemOpU32(x, y) = m
    BY <1>5 DEF DivOpU32, RemOpU32
  <2> HIDE DEF q, m
  <2>3. q \in Words /\ m \in Words /\ q # Trap /\ m # Trap
    BY <1>1, <1>2, <1>3, <2>1, OutcomesAssumption
  <2>4. Wasm!IsQuotient(x, y, q)
    BY <1>3, <1>5, <2>1 DEF Wasm!IsQuotient, Wasm!Magnitude
  <2>5. Wasm!Divides("div_u", x, y, q)
    BY <1>2, <2>3, <2>4 DEF Wasm!Divides
  <2>6. x = q * y + m /\ q \in (-Half)..(2 * Half - 1)
    BY <1>1, <1>2, <1>3, <2>1, <2>3
  <2>7. Wasm!Divides("rem_u", x, y, m)
    BY <1>1, <1>2, <2>3, <2>4, <2>6 DEF Wasm!Divides
  <2> QED
    BY <2>2, <2>5, <2>7
<1> QED
  BY <1>4, <1>5

-----------------------------------------------------------------------------
\* The operands of a division are words and its result, once there is one, is
\* the one WebAssembly has.
ExactInv ==
  op \in DivOps =>
    /\ v1 \in Words /\ v2 \in Words
    /\ res # None => Wasm!Divides(op, v2, v1, res)

LEMMA InitExactInv == Init => ExactInv
BY DEF Init, ExactInv, DivOps, UnaryOps

LEMMA NextExactInv == ExactInv /\ [Next]_vars => ExactInv'
<1> SUFFICES ASSUME ExactInv, [Next]_vars, op \in DivOps PROVE ExactInv'
  BY DEF ExactInv, Next, Handler, vars
<1>1. CASE UNCHANGED vars
  BY <1>1 DEF vars, ExactInv
<1>2. CASE Next
  <2>1. v1 \in Words /\ v2 \in Words
    BY DEF ExactInv
  <2>2. op' = op /\ v1' = v1 /\ v2' = v2
    BY <1>2 DEF Next, Handler
  <2>3. \/ op = "div_s" /\ res' = DivOpI32(v2, v1)
        \/ op = "div_u" /\ res' = DivOpU32(v2, v1)
        \/ op = "rem_s" /\ res' = RemOpI32(v2, v1)
        \/ op = "rem_u" /\ res' = RemOpU32(v2, v1)
    BY <1>2 DEF Next, Handler, DivOps, BinaryOps
  <2>4. Wasm!Divides(op, v2, v1, res')
    BY <2>1, <2>3, DivSignedExact, RemSignedExact, UnsignedDivisionsExact
  <2> QED
    BY <2>1, <2>2, <2>4 DEF ExactInv
<1> QED
  BY <1>1, <1>2

\* i32.div_s, div_u, rem_s and rem_u push the quotient and the remainder of
\* WebAssembly, rounded towards zero, and trap on the operands that have none.
THEOREM DivisionsAreExact == Spec => []DivisionsExact
<1>1. Init => ExactInv
  BY InitExactInv
<1>2. ExactInv /\ [Next]_vars => ExactInv'
  BY NextExactInv
<1>3. ExactInv => DivisionsExact
  BY DEF ExactInv, DivisionsExact
<1> QED
  BY <1>1, <1>2, <1>3, PTL DEF Spec

-----------------------------------------------------------------------------
(***************************************************************************)
(* Conversions.  TRUNC_U tests the bits above an i32 of what the processor *)
(* made of the double, and it makes 0 of 2^64 and more, and of infinity:   *)
(* of these the program gets 0 where WebAssembly traps.                    *)
(***************************************************************************)
\* The number of halves h without its fraction.
WholePart(h) == Sign(h) * (Abs(h) \div 2)

LEMMA WholePartIs ==
  ASSUME NEW h \in Int
  PROVE  /\ WholePart(h) \in Int
         /\ CTrunc(Number(h)) = Number(2 * WholePart(h))
         /\ Wasm!IsTruncated(h, WholePart(h))
<1> DEFINE n == Abs(h) \div 2
<1>1. Abs(h) \in Nat
  BY DEF Abs
<1>2. n \in Nat /\ 2 * n <= Abs(h) /\ Abs(h) < 2 * n + 2
  BY <1>1
<1> HIDE DEF n
<1>3. WholePart(h) = IF h < 0 THEN -n ELSE n
  BY <1>2 DEF WholePart, Sign, n
<1>4. 2 * Sign(h) * n = 2 * WholePart(h)
  BY <1>2, <1>3 DEF Sign
<1>5. CTrunc(Number(h)) = Number(2 * WholePart(h))
  BY <1>4 DEF CTrunc, Number, n
<1>6. Wasm!IsTruncated(h, WholePart(h))
  BY <1>2, <1>3 DEF Wasm!IsTruncated, Wasm!Magnitude, Abs
<1> QED
  BY <1>2, <1>3, <1>5, <1>6

\* No other number is nearest to h towards zero.
LEMMA TruncatedIsUnique ==
  ASSUME NEW h \in Int, NEW z \in Int, Wasm!IsTruncated(h, z)
  PROVE  z = WholePart(h)
<1>1. PICK w \in Int : w = WholePart(h) /\ Wasm!IsTruncated(h, w)
  BY WholePartIs
<1>2. z = w
  BY <1>1 DEF Wasm!IsTruncated, Wasm!Magnitude
<1> QED
  BY <1>1, <1>2

LEMMA Ranges64 ==
  /\ TwoTo63 \in Nat /\ TwoTo63 = Half * Modulus
  /\ TwoTo63 >= Modulus /\ TwoTo63 >= 2 * Half
  /\ Modulus * Modulus = 2 * TwoTo63
<1>1. Half \in Nat \ {0} /\ Modulus = 2 * Half
  BY Ranges
<1>2. PICK k \in Nat : Half = k + 1
  BY <1>1
<1>3. Half * Modulus = k * Modulus + Modulus /\ k * Modulus \in Nat
  BY <1>1, <1>2
<1>4. Modulus * Modulus = 2 * (Half * Modulus)
  BY <1>1
<1> QED
  BY <1>1, <1>3, <1>4 DEF TwoTo63

\* cvttsd2si of whole numbers, and of the doubles that are none.
LEMMA ToInt64Is ==
  /\ \A t \in Int : ToInt64(Number(2 * t)) =
       IF -TwoTo63 <= t /\ t < TwoTo63 THEN t ELSE -TwoTo63
  /\ \A d : d.kind # "number" => ToInt64(d) = -TwoTo63
<1>1. PICK w \in Nat : w = TwoTo63 /\ Half * Modulus = w /\ Half \in Nat /\ Modulus \in Nat
  BY Ranges, Ranges64
<1>2. -Half * Modulus * 2 = -2 * w /\ -Half * Modulus = -w
  BY <1>1
<1>3. (Half * Modulus - 1) * 2 = 2 * w - 2
  BY <1>1
<1>4. ASSUME NEW t \in Int
      PROVE  ToInt64(Number(2 * t)) = IF -w <= t /\ t < w THEN t ELSE -w
  <2>1. (2 * t) \div 2 = t /\ 2 * t \in Int
    BY SMTT(30)
  <2>2. 2 * t \in (-2 * w)..(2 * w - 2) <=> -w <= t /\ t < w
    BY <1>1
  <2> QED
    BY <1>2, <1>3, <2>1, <2>2 DEF ToInt64, Number
<1>5. ASSUME NEW d, d.kind # "number" PROVE ToInt64(d) = -w
  BY <1>2, <1>5 DEF ToInt64
<1> QED
  BY <1>1, <1>4, <1>5

-----------------------------------------------------------------------------
LEMMA TruncSExact ==
  ASSUME NEW d \in Doubles
  PROVE  Wasm!Truncates("trunc_s", d, TruncS(d))
<1>1. /\ Half \in Nat \ {0} /\ 2^(Width - 1) = Half /\ Wasm!Range32 = Words
      /\ INT_MIN = -Half /\ INT_MAX = Half - 1
  BY Ranges DEF Half, Wasm!Range32, Words, Modulus
<1>2. PICK w \in Nat : w = TwoTo63 /\ w >= 2 * Half
  BY Ranges64
<1>3. CASE d.kind # "number"
  <2>1. CTrunc(d) = d /\ ToInt64(d) = -w
    BY <1>2, <1>3, ToInt64Is DEF CTrunc
  <2>2. TruncS(d) = Trap
    BY <1>1, <1>2, <2>1 DEF TruncS
  <2> QED
    BY <1>3, <2>2 DEF Wasm!Truncates
<1>4. CASE d.kind = "number"
  <2> DEFINE h == d.halves
             t == WholePart(h)
             n == ToInt64(CTrunc(d))
  <2>1. h \in Int
    BY <1>4, DoublesAssumption
  <2>2. t \in Int /\ CTrunc(Number(h)) = Number(2 * t) /\ Wasm!IsTruncated(h, t)
    BY <2>1, WholePartIs
  <2>3. CTrunc(d) = CTrunc(Number(h))
    BY <1>4 DEF CTrunc, Number
  <2>4. n = IF -w <= t /\ t < w THEN t ELSE -w
    BY <1>2, <2>2, <2>3, ToInt64Is
  <2>5. TruncS(d) = IF n > INT_MAX \/ n < INT_MIN THEN Trap ELSE Unsigned(n)
    BY DEF TruncS
  <2> HIDE DEF t, n
  <2>6. CASE -Half <= t /\ t < Half
    <3>1. n = t /\ ~(n > INT_MAX \/ n < INT_MIN)
      BY <1>1, <1>2, <2>2, <2>4, <2>6
    <3>2. TruncS(d) = Unsigned(t)
      BY <2>5, <3>1
    <3>3. Unsigned(t) \in Words /\ Wasm!Signed32(Unsigned(t)) = t
      BY <2>2, <2>6, UnsignedIs
    <3>4. Unsigned(t) # Trap
      BY <2>2, UnsignedInt, OutcomesAssumption
    <3> QED
      BY <1>1, <1>4, <2>2, <3>2, <3>3, <3>4 DEF Wasm!Truncates
  <2>7. CASE ~(-Half <= t /\ t < Half)
    <3>1. n > INT_MAX \/ n < INT_MIN
      BY <1>1, <1>2, <2>2, <2>4, <2>7
    <3>2. TruncS(d) = Trap
      BY <2>5, <3>1
    <3>3. ASSUME NEW z \in (-Half)..(Half - 1), Wasm!IsTruncated(h, z) PROVE FALSE
      <4>1. z \in Int /\ -Half <= z /\ z < Half
        BY <1>1
      <4>2. z = t
        BY <2>1, <3>3, <4>1, TruncatedIsUnique DEF t
      <4> QED
        BY <2>7, <4>1, <4>2
    <3> QED
      BY <1>1, <3>2, <3>3 DEF Wasm!Truncates
  <2> QED
    BY <2>6, <2>7
<1> QED
  BY <1>3, <1>4

\* What the processor makes of a whole number below 2^64.
LEMMA ToUint64Is ==
  ASSUME NEW t \in Int, t < 2 * TwoTo63
  PROVE  LET n == ToUint64(Number(2 * t))
         IN n = IF t >= 0 THEN t ELSE IF t >= -TwoTo63 THEN t + 2 * TwoTo63 ELSE TwoTo63
<1>1. PICK w \in Nat : w = TwoTo63 /\ w > 0 /\ Modulus * Modulus = 2 * w
  BY Ranges, Ranges64
<1>2. Number(2 * t).kind = "number" /\ Number(2 * t).halves = 2 * t
  BY DEF Number
<1>3. ASSUME NEW z \in 0..(2 * w - 1) PROVE Unsigned64(z) = z
  <2>1. z % (2 * w) = z
    BY <1>1
  <2> QED
    BY <1>1, <2>1 DEF Unsigned64
<1>4. ASSUME NEW z \in (-w)..(-1) PROVE Unsigned64(z) = z + 2 * w
  <2>1. z % (2 * w) = z + 2 * w
    BY <1>1
  <2> QED
    BY <1>1, <2>1 DEF Unsigned64
<1>5. CASE t >= w
  <2>1. 2 * t - 2 * w = 2 * (t - w) /\ t - w \in Int /\ -w <= t - w /\ t - w < w
    BY <1>1, <1>5
  <2>2. ToInt64(Number(2 * t - 2 * w)) = t - w
    BY <1>1, <2>1, ToInt64Is
  <2>3. ToUint64(Number(2 * t)) = Unsigned64((t - w) + w)
    BY <1>1, <1>2, <1>5, <2>2 DEF ToUint64
  <2>4. (t - w) + w = t /\ t \in 0..(2 * w - 1)
    BY <1>1, <1>5
  <2> QED
    BY <1>1, <1>3, <1>5, <2>3, <2>4
<1>6. CASE t < w
  <2>1. ToUint64(Number(2 * t)) = Unsigned64(ToInt64(Number(2 * t)))
    BY <1>1, <1>2, <1>6 DEF ToUint64
  <2>2. ToInt64(Number(2 * t)) = IF -w <= t THEN t ELSE -w
    BY <1>1, <1>6, ToInt64Is
  <2>3. CASE t >= 0
    BY <1>1, <1>3, <1>6, <2>1, <2>2, <2>3
  <2>4. CASE t < 0 /\ t >= -w
    BY <1>1, <1>4, <2>1, <2>2, <2>4
  <2>5. CASE t < -w
    BY <1>1, <1>4, <2>1, <2>2, <2>5
  <2> QED
    BY <1>1, <2>3, <2>4, <2>5
<1> QED
  BY <1>1, <1>5, <1>6

LEMMA TruncUExact ==
  ASSUME NEW d \in Doubles, Convertible
  PROVE  Wasm!Truncates("trunc_u", d, TruncU(d))
<1>1. /\ Modulus \in Nat \ {0} /\ Wasm!Range32 = Words /\ Words = 0..(Modulus - 1)
  BY Ranges DEF Wasm!Range32, Words, Modulus
<1>2. PICK w \in Nat : w = TwoTo63 /\ w >= Modulus /\ Modulus * Modulus = 2 * w
  BY Ranges64
<1>3. ASSUME NEW n \in Nat
      PROVE  n \div Modulus # 0 <=> n >= Modulus
  BY <1>1, SMTT(30)
<1>4. TruncU(d) = IF ToUint64(CTrunc(d)) \div Modulus # 0 THEN Trap
                  ELSE Unsigned(ToUint64(CTrunc(d)))
  BY DEF TruncU
<1>5. CASE d.kind # "number"
  <2>1. CTrunc(d) = d /\ ToInt64(d) = -w
    BY <1>2, <1>5, ToInt64Is DEF CTrunc
  <2>2. ToUint64(d) = Unsigned64(-w)
    BY <1>5, <2>1 DEF ToUint64, Convertible
  <2>3. (-w) % (2 * w) = w
    BY <1>1, <1>2
  <2>4. ToUint64(CTrunc(d)) = w
    BY <1>2, <2>1, <2>2, <2>3 DEF Unsigned64
  <2>5. TruncU(d) = Trap
    BY <1>2, <1>3, <1>4, <2>4
  <2> QED
    BY <1>5, <2>5 DEF Wasm!Truncates
<1>6. CASE d.kind = "number"
  <2> DEFINE h == d.halves
             t == WholePart(h)
             n == ToUint64(CTrunc(d))
  <2>1. h \in Int /\ h < 4 * w
    BY <1>2, <1>6, DoublesAssumption DEF Convertible
  <2>2. t \in Int /\ CTrunc(Number(h)) = Number(2 * t) /\ Wasm!IsTruncated(h, t)
    BY <2>1, WholePartIs
  <2>3. CTrunc(d) = CTrunc(Number(h))
    BY <1>6 DEF CTrunc, Number
  <2> HIDE DEF t
  <2>4. t < 2 * w
    BY <1>1, <1>2, <2>1, <2>2 DEF Wasm!IsTruncated, Wasm!Magnitude
  <2>5. n = IF t >= 0 THEN t ELSE IF t >= -w THEN t + 2 * w ELSE w
    BY <1>2, <2>2, <2>3, <2>4, ToUint64Is
  <2> HIDE DEF n
  <2>6. CASE 0 <= t /\ t < Modulus
    <3>1. n = t /\ t \in Nat /\ ~(n \div Modulus # 0) /\ t \in Words
      BY <1>1, <1>3, <2>2, <2>5, <2>6
    <3>2. t % Modulus = t /\ t # Trap
      BY <1>1, <2>2, <2>6, OutcomesAssumption
    <3>3. TruncU(d) = t
      BY <1>4, <3>1, <3>2 DEF Unsigned, n
    <3> QED
      BY <1>1, <1>6, <2>2, <3>1, <3>2, <3>3 DEF Wasm!Truncates
  <2>7. CASE ~(0 <= t /\ t < Modulus)
    <3>1. n \in Nat /\ n >= Modulus
      BY <1>1, <1>2, <2>2, <2>5, <2>7
    <3>2. TruncU(d) = Trap
      BY <1>3, <1>4, <3>1 DEF n
    <3>3. ASSUME NEW z \in Words, Wasm!IsTruncated(h, z) PROVE FALSE
      <4>1. z \in Int /\ 0 <= z /\ z < Modulus
        BY <1>1
      <4>2. z = t
        BY <2>1, <3>3, <4>1, TruncatedIsUnique DEF t
      <4> QED
        BY <2>7, <4>1, <4>2
    <3> QED
      BY <1>1, <3>2, <3>3 DEF Wasm!Truncates
  <2> QED
    BY <2>6, <2>7
<1> QED
  BY <1>5, <1>6

LEMMA ConvertsExact ==
  ASSUME NEW x \in Words
  PROVE  Wasm!Converts("convert_s", x, ConvertS(x)) /\ Wasm!Converts("convert_u", x, ConvertU(x))
<1>1. Signed(x) = Wasm!Signed32(x)
  BY SignedIs
<1> QED
  BY <1>1 DEF Wasm!Converts, ConvertS, ConvertU, Number

-----------------------------------------------------------------------------
\* The operands of the conversions, and what was made of them.
ConversionInv ==
  /\ op \in {"trunc_s", "trunc_u"} => v1 \in Doubles
  /\ op \in {"convert_s", "convert_u"} => v1 \in Words
  /\ (op = "trunc_u" => Convertible) => ConversionsExact

LEMMA InitConversionInv == Init => ConversionInv
BY DEF Init, ConversionInv, ConversionsExact, BinaryOps, DivOps, UnaryOps

LEMMA NextConversionInv == ConversionInv /\ [Next]_vars => ConversionInv'
<1> SUFFICES ASSUME ConversionInv, [Next]_vars PROVE ConversionInv'
  OBVIOUS
<1>1. CASE UNCHANGED vars
  BY <1>1 DEF vars, ConversionInv, ConversionsExact
<1>2. CASE Next
  <2>1. op' = op /\ v1' = v1
    BY <1>2 DEF Next, Handler
  <2>2. CASE op = "trunc_s"
    <3>1. res' = TruncS(v1)
      BY <1>2, <2>2 DEF Next, Handler, BinaryOps
    <3>2. Wasm!Truncates("trunc_s", v1, res')
      BY <2>2, <3>1, TruncSExact DEF ConversionInv
    <3> QED
      BY <2>1, <2>2, <3>2 DEF ConversionInv, ConversionsExact
  <2>3. CASE op = "trunc_u"
    <3>1. res' = TruncU(v1)
      BY <1>2, <2>3 DEF Next, Handler, BinaryOps
    <3>2. Convertible => Wasm!Truncates("trunc_u", v1, res')
      BY <2>3, <3>1, TruncUExact DEF ConversionInv
    <3> QED
      BY <2>1, <2>3, <3>2 DEF ConversionInv, ConversionsExact
  <2>4. CASE op = "convert_s"
    <3>1. res' = ConvertS(v1)
      BY <1>2, <2>4 DEF Next, Handler, BinaryOps
    <3>2. Wasm!Converts("convert_s", v1, res')
      BY <2>4, <3>1, ConvertsExact DEF ConversionInv
    <3> QED
      BY <2>1, <2>4, <3>2 DEF ConversionInv, ConversionsExact
  <2>5. CASE op = "convert_u"
    <3>1. res' = ConvertU(v1)
      BY <1>2, <2>5 DEF Next, Handler, BinaryOps
    <3>2. Wasm!Converts("convert_u", v1, res')
      BY <2>5, <3>1, ConvertsExact DEF ConversionInv
    <3> QED
      BY <2>1, <2>5, <3>2 DEF ConversionInv, ConversionsExact
  <2>6. CASE op \notin {"trunc_s", "trunc_u", "convert_s", "convert_u"}
    BY <2>1, <2>6 DEF ConversionInv, ConversionsExact
  <2> QED
    BY <2>2, <2>3, <2>4, <2>5, <2>6
<1> QED
  BY <1>1, <1>2

\* Whatever the operand, i32.trunc_f64_s is the nearest i32 towards zero or a
\* trap, and f64.convert_i32_s and _u are the number the i32 is.
THEOREM SignedConversionsAreExact ==
  Spec => [](op # "trunc_u" => ConversionsExact)
<1>1. ConversionInv => (op # "trunc_u" => ConversionsExact)
  BY DEF ConversionInv
<1> QED
  BY <1>1, InitConversionInv, NextConversionInv, PTL DEF Spec

\* So is i32.trunc_f64_u, of doubles below 2^64 and other than infinity.
THEOREM ConversionsAreExact ==
  ASSUME Convertible PROVE Spec => []ConversionsExact
<1>1. ConversionInv => ConversionsExact
  BY DEF ConversionInv
<1> QED
  BY <1>1, InitConversionInv, NextConversionInv, PTL DEF Spec

-----------------------------------------------------------------------------
(***************************************************************************)
(* The bits of a number.                                                   *)
(***************************************************************************)
LEMMA Least ==
  ASSUME NEW M \in SUBSET Nat, M # {}
  PROVE  \E n \in M : \A m \in M : n <= m
<1>1. IsWellFoundedOn(OpToRel(<, Nat), Nat)
  BY NatLessThanWellFounded
<1>2. PICK n \in M : \A m \in M : ~ (<<m, n>> \in OpToRel(<, Nat))
  BY <1>1, WFMin
<1>3. \A m \in M : ~ (m < n)
  BY <1>2 DEF OpToRel
<1> QED
  BY <1>3

\* Induction up to N: a set with 0 that has k if it has k - 1 has all of 0..N.
LEMMA UpTo ==
  ASSUME NEW N \in Nat, NEW T, 0 \in T, \A k \in 1..N : k - 1 \in T => k \in T
  PROVE  0..N \subseteq T
<1> DEFINE M == (0..N) \ T
<1> SUFFICES ASSUME M # {} PROVE FALSE
  OBVIOUS
<1>1. M \in SUBSET Nat
  OBVIOUS
<1> HIDE DEF M
<1>2. PICK n \in M : \A m \in M : n <= m
  BY <1>1, Least
<1> USE DEF M
<1>3. n \in 1..N
  OBVIOUS
<1>4. n - 1 \in T
  BY <1>2, <1>3
<1> QED
  BY <1>3, <1>4

LEMMA DivModInt ==
  ASSUME NEW a \in Int, NEW b \in Nat, b >= 1
  PROVE  /\ a \div b \in Int /\ a % b \in Nat /\ a % b < b
         /\ a - (a \div b) * b = a % b
<1>1. a \div b \in Int /\ a % b \in Nat /\ a % b < b
  BY SMTT(30)
<1>2. a - (a \div b) * b = a % b
  BY SMTT(30)
<1> QED
  BY <1>1, <1>2

LEMMA DivModNat ==
  ASSUME NEW a \in Nat, NEW b \in Nat, b >= 1
  PROVE  /\ a \div b \in Nat /\ a % b \in Nat /\ a % b < b
         /\ a - (a \div b) * b = a % b
<1>1. b \in Nat \ {0}
  OBVIOUS
<1> QED
  BY <1>1, DivMod

\* There is one quotient and one remainder.
LEMMA DivModUnique ==
  ASSUME NEW a \in Int, NEW b \in Nat, b >= 1, NEW q \in Int, NEW r \in Nat,
         r < b, a = q * b + r
  PROVE  a \div b = q /\ a % b = r
<1>1. PICK d \in Int, m \in Nat : d = a \div b /\ m = a % b /\ m < b /\ a - d * b = m
  BY DivModInt
<1>2. (d - q) * b = r - m
  <2>1. (d - q) * b = d * b - q * b
    OBVIOUS
  <2>2. PICK x \in Int, y \in Int : x = d * b /\ y = q * b
    OBVIOUS
  <2>3. a - x = m /\ a = y + r
    BY <1>1, <2>2
  <2>4. x - y = r - m
    <3>1. a \in Int /\ m \in Int /\ r \in Int
      OBVIOUS
    <3> QED
      BY <2>3, <3>1
  <2> QED
    BY <2>1, <2>2, <2>4
<1>3. d - q = 0
  <2>1. PICK e \in Int : e = d - q
    OBVIOUS
  <2>2. e * b < b /\ -b < e * b /\ e * b \in Int
    BY <1>1, <1>2, <2>1
  <2>3. ~(e >= 1)
    <3> SUFFICES ASSUME e >= 1 PROVE FALSE
      OBVIOUS
    <3>1. PICK f \in Nat : e = f + 1
      OBVIOUS
    <3>2. e * b = f * b + b /\ f * b \in Nat
      BY <3>1
    <3> QED
      BY <2>2, <3>2
  <2>4. ~(e <= -1)
    <3> SUFFICES ASSUME e <= -1 PROVE FALSE
      OBVIOUS
    <3>1. PICK f \in Nat : e = -1 - f
      OBVIOUS
    <3>2. e * b = -(f * b) - b /\ f * b \in Nat
      BY <3>1
    <3> QED
      BY <2>2, <3>2
  <2> QED
    BY <2>1, <2>3, <2>4
<1> QED
  BY <1>1, <1>3

\* Dividing in two steps.
LEMMA DivDiv ==
  ASSUME NEW v \in Nat, NEW a \in Nat, NEW b \in Nat, a >= 1, b >= 1
  PROVE  v \div (a * b) = (v \div a) \div b
<1>1. PICK q \in Nat, r \in Nat : q = v \div a /\ r = v % a /\ r < a /\ v - q * a = r
  BY DivModNat
<1>2. PICK at \in Nat, d \in Nat : at = q \div b /\ d = q % b /\ d < b /\ q - at * b = d
  BY DivModNat
<1>3. a * b \in Nat /\ a * b >= 1
  <2>1. PICK c \in Nat : b = c + 1
    BY <1>2
  <2>2. a * b = a * c + a /\ a * c \in Nat
    BY <2>1
  <2> QED
    BY <2>2
<1>4. d * a \in Nat /\ r + d * a \in Nat /\ r + d * a < a * b
  <2>0. b - (d + 1) \in Nat
    BY <1>2
  <2>1. PICK c \in Nat : c = b - (d + 1)
    BY <2>0
  <2>2. b = (d + 1) + c
    BY <1>2, <2>1
  <2>3. a * b = d * a + a + a * c /\ a * c \in Nat /\ d * a \in Nat
    BY <2>2
  <2> QED
    BY <1>1, <2>3
<1>5. v = at * (a * b) + (r + d * a)
  <2>1. q * a = (at * b) * a + d * a
    <3>1. q = at * b + d
      BY <1>2
    <3> QED
      BY <3>1
  <2>2. (at * b) * a = at * (a * b) /\ at * (a * b) \in Nat /\ q * a \in Nat
    BY <1>3
  <2> QED
    BY <1>1, <1>4, <2>1, <2>2
<1>6. v \div (a * b) = at
  <2>1. v \in Int /\ at \in Int
    OBVIOUS
  <2> QED
    BY <1>3, <1>4, <1>5, <2>1, DivModUnique
<1> QED
  BY <1>1, <1>2, <1>6

-----------------------------------------------------------------------------
Two(k) == 2^k

LEMMA TwoIs ==
  /\ Width \in Nat /\ Width >= 1 /\ Two(0) = 1
  /\ Two(Width) = Modulus /\ Two(Width - 1) = Half
  /\ Modulus \in Nat /\ Modulus >= 2 /\ Words = 0..(Modulus - 1)
<1>1. Half \in Nat \ {0} /\ Modulus = 2 * Half
  BY Ranges
<1> QED
  BY <1>1, WidthAssumption, PowerAssumption DEF Two, Modulus, Half, Words

LEMMA TwoNat ==
  ASSUME NEW k \in 0..Width PROVE Two(k) \in Nat /\ Two(k) >= 1
BY PowerAssumption DEF Two

LEMMA TwoSum ==
  ASSUME NEW m \in Nat, NEW n \in Nat, m + n <= Width
  PROVE  Two(m + n) = Two(m) * Two(n)
<1>1. m \in 0..Width /\ n \in 0..Width
  BY WidthAssumption
<1> QED
  BY <1>1, PowerAssumption DEF Two

LEMMA TwoDoubles ==
  ASSUME NEW k \in 1..Width
  PROVE  /\ k - 1 \in 0..Width /\ k \in 0..Width
         /\ Two(k) = 2 * Two(k - 1)
<1>1. Width \in Nat
  BY WidthAssumption
<1>2. k - 1 \in Nat /\ 1 \in Nat /\ (k - 1) + 1 <= Width /\ (k - 1) + 1 = k
  BY <1>1
<1>3. Two(k) = Two(k - 1) * Two(1) /\ Two(1) = 2
  BY <1>2, TwoSum, PowerAssumption DEF Two
<1>4. k - 1 \in 0..Width /\ k \in 0..Width
  BY <1>1
<1> QED
  BY <1>3, <1>4, TwoNat

\* A word has more values than bits.
LEMMA WidthFits == Width < Modulus /\ \A n \in 0..Width : n \in Words
<1> DEFINE T == {k \in 0..Width : k < Two(k)}
<1>1. Width \in Nat /\ Two(0) = 1 /\ Two(Width) = Modulus /\ Words = 0..(Modulus - 1) /\ Modulus \in Nat
  BY TwoIs
<1>2. 0 \in T
  BY <1>1
<1>3. ASSUME NEW k \in 1..Width, k - 1 \in T PROVE k \in T
  <2>1. Two(k) = 2 * Two(k - 1) /\ Two(k - 1) \in Nat /\ Two(k - 1) >= 1
    BY TwoDoubles, TwoNat
  <2> QED
    BY <1>1, <1>3, <2>1
<1> HIDE DEF T
<1>4. 0..Width \subseteq T
  BY <1>1, <1>2, <1>3, UpTo
<1>5. Width \in T
  BY <1>1, <1>4
<1> QED
  BY <1>1, <1>5 DEF T

\* The model's bits are those of WebAssembly, and either 0 or 1.
LEMMA BitIs ==
  ASSUME NEW x, NEW k
  PROVE  Wasm!BitOf(x, k) = Bit(x, k) /\ Bit(x, k) = (x \div Two(k)) % 2
BY DEF Wasm!BitOf, Bit, Two

LEMMA BitRange ==
  ASSUME NEW x \in Nat, NEW k \in 0..Width
  PROVE  Bit(x, k) \in {0, 1} /\ x \div Two(k) \in Nat
<1>1. Two(k) \in Nat /\ Two(k) >= 1
  BY TwoNat
<1>2. PICK q \in Nat : q = x \div Two(k)
  BY <1>1, DivModNat
<1>3. q % 2 \in {0, 1}
  OBVIOUS
<1> QED
  BY <1>2, <1>3, BitIs

\* Numbers side by side: the bits of the lower one, then those of the upper one.
LEMMA BitJoin ==
  ASSUME NEW m \in 0..Width, NEW a \in Nat, NEW b \in Nat, a < Two(m),
         NEW k \in 0..(Width - 1)
  PROVE  /\ a + b * Two(m) \in Nat
         /\ k < m => Bit(a + b * Two(m), k) = Bit(a, k)
         /\ k >= m => Bit(a + b * Two(m), k) = Bit(b, k - m)
<1>0. Width \in Nat
  BY WidthAssumption
<1>1. PICK s \in Nat : s = Two(m) /\ s >= 1
  BY TwoNat
<1>2. PICK x \in Nat : x = a + b * s
  OBVIOUS
<1>3. CASE k < m
  <2>1. PICK n \in Nat : n = m - 1 - k
    BY <1>3
  <2>2. /\ k \in Nat /\ n + 1 \in Nat /\ k + (n + 1) = m /\ k + (n + 1) <= Width
        /\ n + 1 \in 1..Width /\ (n + 1) - 1 = n /\ k \in 0..Width /\ n \in 0..Width
    BY <1>0, <1>3, <2>1
  <2>3. Two(m) = Two(k) * Two(n + 1) /\ Two(n + 1) = 2 * Two(n)
    BY <2>2, TwoSum, TwoDoubles
  <2>4. PICK p \in Nat, t \in Nat : p = Two(k) /\ p >= 1 /\ t = Two(n)
    BY <2>2, TwoNat
  <2>5. s = p * (2 * t)
    BY <1>1, <2>3, <2>4
  <2>6. PICK q \in Nat, r \in Nat : q = a \div p /\ r = a % p /\ r < p /\ a - q * p = r
    <3>1. /\ a \div p \in Nat /\ a % p \in Nat /\ a % p < p
          /\ a - (a \div p) * p = a % p
      BY <2>4, DivModNat
    <3> QED
      BY <3>1, Zenon
  <2>7. PICK u \in Nat : u = b * t
    OBVIOUS
  <2>8. b * s = (2 * u) * p
    <3>1. b * (p * (2 * t)) = (2 * (b * t)) * p
      OBVIOUS
    <3> QED
      BY <2>5, <2>7, <3>1
  <2>9. x = (q + 2 * u) * p + r
    <3>1. (q + 2 * u) * p = q * p + (2 * u) * p /\ q * p \in Nat /\ (2 * u) * p \in Nat
      OBVIOUS
    <3> QED
      BY <1>2, <2>6, <2>8, <3>1
  <2>10. x \div p = q + 2 * u
    <3>1. q + 2 * u \in Int /\ x \in Int
      OBVIOUS
    <3> QED
      BY <2>4, <2>6, <2>9, <3>1, DivModUnique
  <2>11. (q + 2 * u) % 2 = q % 2
    OBVIOUS
  <2>12. Bit(x, k) = Bit(a, k)
    BY <2>4, <2>6, <2>10, <2>11, BitIs
  <2> QED
    BY <1>1, <1>2, <1>3, <2>12
<1>4. CASE k >= m
  <2>1. PICK n \in Nat : n = k - m
    BY <1>4
  <2>2. m \in Nat /\ m + n = k /\ m + n <= Width /\ n \in 0..Width
    BY <1>0, <1>4, <2>1
  <2>3. Two(k) = Two(m) * Two(n)
    BY <2>2, TwoSum
  <2>4. PICK t \in Nat : t = Two(n) /\ t >= 1
    BY <2>2, TwoNat
  <2>5. x \div s = b
    BY <1>1, <1>2, DivModUnique
  <2>6. x \div (s * t) = b \div t
    BY <1>1, <2>4, <2>5, DivDiv
  <2>7. Bit(x, k) = Bit(b, k - m)
    BY <1>1, <2>1, <2>3, <2>4, <2>6, BitIs
  <2> QED
    BY <1>1, <1>2, <1>4, <2>7
<1> QED
  BY <1>0, <1>3, <1>4

\* Bits above a number, of a number's lower part, and of one divided or
\* multiplied by a power of two.
LEMMA NoHighBits ==
  ASSUME NEW m \in 0..Width, NEW a \in Nat, a < Two(m), NEW k \in m..(Width - 1)
  PROVE  Bit(a, k) = 0
<1>1. Width \in Nat
  BY WidthAssumption
<1>2. k \in 0..(Width - 1) /\ k >= m /\ k - m \in 0..Width /\ 0 \in Nat
  BY <1>1
<1>3. PICK s \in Nat : s = Two(m)
  BY TwoNat
<1>4. Bit(a + 0 * Two(m), k) = Bit(0, k - m)
  BY <1>2, BitJoin
<1>5. a + 0 * Two(m) = a
  BY <1>3
<1>6. Bit(0, k - m) = 0
  <2>1. PICK t \in Nat : t = Two(k - m) /\ t >= 1
    BY <1>2, TwoNat
  <2>2. 0 \div t = 0
    BY <2>1
  <2> QED
    BY <2>1, <2>2, BitIs
<1> QED
  BY <1>4, <1>5, <1>6

LEMMA Split ==
  ASSUME NEW m \in 0..Width, NEW a \in Nat
  PROVE  /\ a \div Two(m) \in Nat /\ a % Two(m) \in Nat /\ a % Two(m) < Two(m)
         /\ a = (a % Two(m)) + (a \div Two(m)) * Two(m)
<1>1. PICK p \in Nat : p = Two(m) /\ p >= 1
  BY TwoNat
<1>2. /\ a \div p \in Nat /\ a % p \in Nat /\ a % p < p
      /\ a - (a \div p) * p = a % p
  BY <1>1, DivModNat
<1>3. a = (a % p) + (a \div p) * p
  <2>1. PICK q \in Nat, r \in Nat : q = a \div p /\ r = a % p
    BY <1>2
  <2> QED
    BY <1>2, <2>1
<1> QED
  BY <1>1, <1>2, <1>3

LEMMA LowerBits ==
  ASSUME NEW m \in 0..Width, NEW a \in Nat, NEW k \in 0..(m - 1)
  PROVE  Bit(a % Two(m), k) = Bit(a, k)
<1>1. k \in 0..(Width - 1) /\ k < m
  BY WidthAssumption
<1>2. /\ a \div Two(m) \in Nat /\ a % Two(m) \in Nat /\ a % Two(m) < Two(m)
      /\ a = (a % Two(m)) + (a \div Two(m)) * Two(m)
  BY Split
<1> QED
  BY <1>1, <1>2, BitJoin

LEMMA UpperBits ==
  ASSUME NEW x \in Words, NEW c \in 0..Width, NEW k \in 0..(Width - 1)
  PROVE  /\ x \div Two(c) \in Nat /\ x \div Two(c) < Two(Width - c)
         /\ Bit(x \div Two(c), k) = IF k + c < Width THEN Bit(x, k + c) ELSE 0
<1>0. /\ Width \in Nat /\ Width >= 1 /\ Two(Width) = Modulus /\ Modulus \in Nat
      /\ x \in Nat /\ x < Modulus
  BY TwoIs
<1>1. c \in Nat /\ Width - c \in Nat /\ Width - c \in 0..Width /\ c + (Width - c) = Width
      /\ c + (Width - c) <= Width
  BY <1>0
<1>2. PICK p \in Nat, s \in Nat : p = Two(c) /\ s = Two(Width - c) /\ p >= 1 /\ s >= 1
  BY <1>1, TwoNat
<1>3. Modulus = p * s
  BY <1>0, <1>1, <1>2, TwoSum
<1>4. PICK q \in Nat, r \in Nat : q = x \div p /\ r = x % p /\ r < p /\ x - q * p = r
  <2>1. /\ x \div p \in Nat /\ x % p \in Nat /\ x % p < p
        /\ x - (x \div p) * p = x % p
    BY <1>0, <1>2, DivModNat
  <2> QED
    BY <2>1, Zenon
<1>5. q < s
  <2> SUFFICES ASSUME ~(q < s) PROVE FALSE
    OBVIOUS
  <2>1. PICK d \in Nat : q = s + d
    <3>1. q - s \in Nat /\ q = s + (q - s)
      OBVIOUS
    <3> QED
      BY <3>1
  <2>2. q * p = s * p + d * p /\ d * p \in Nat /\ s * p = p * s
    BY <2>1
  <2> QED
    BY <1>0, <1>3, <1>4, <2>2
<1>6. Bit(q, k) = IF k + c < Width THEN Bit(x, k + c) ELSE 0
  <2>1. CASE k + c < Width
    <3>1. k + c \in 0..(Width - 1) /\ k + c >= c /\ (k + c) - c = k /\ k \in Nat
      BY <1>0, <2>1
    <3>2. x = r + q * p
      BY <1>0, <1>4
    <3>3. Bit(r + q * Two(c), k + c) = Bit(q, (k + c) - c)
      BY <1>2, <1>4, <3>1, BitJoin
    <3> QED
      BY <1>2, <2>1, <3>1, <3>2, <3>3
  <2>2. CASE ~(k + c < Width)
    <3>1. k \in (Width - c)..(Width - 1)
      BY <1>0, <2>2
    <3>2. Bit(q, k) = 0
      BY <1>1, <1>2, <1>5, <3>1, NoHighBits
    <3> QED
      BY <2>2, <3>2
  <2> QED
    BY <2>1, <2>2
<1> QED
  BY <1>2, <1>4, <1>5, <1>6

LEMMA OnesBits ==
  ASSUME NEW c \in 0..Width, NEW k \in 0..(Width - 1)
  PROVE  Two(c) - 1 \in Nat /\ Bit(Two(c) - 1, k) = IF k < c THEN 1 ELSE 0
<1>0. Width \in Nat /\ Two(0) = 1
  BY TwoIs
<1>1. PICK s \in Nat : s = Two(c) /\ s >= 1
  BY TwoNat
<1>2. CASE k < c
  <2>1. PICK n \in Nat : n = c - 1 - k
    BY <1>2
  <2>2. /\ k \in Nat /\ n + 1 \in Nat /\ k + (n + 1) = c /\ k + (n + 1) <= Width
        /\ n + 1 \in 1..Width /\ (n + 1) - 1 = n /\ k \in 0..Width /\ n \in 0..Width
        /\ k - k = 0
    BY <1>0, <1>2, <2>1
  <2>3. PICK p \in Nat, t \in Nat : p = Two(k) /\ p >= 1 /\ t = Two(n) /\ t >= 1
    BY <2>2, TwoNat
  <2>4. Two(c) = Two(k) * Two(n + 1) /\ Two(n + 1) = 2 * Two(n)
    BY <2>2, TwoSum, TwoDoubles
  <2>5. PICK a \in Nat, b \in Nat : a = p - 1 /\ b = 2 * t - 1
    BY <2>3
  <2>6. s - 1 = a + b * p
    <3>1. s = p * (2 * t)
      BY <1>1, <2>3, <2>4
    <3>2. p * (2 * t) = p * (2 * t - 1) + p /\ p * (2 * t - 1) = (2 * t - 1) * p
      OBVIOUS
    <3> QED
      BY <2>3, <2>5, <3>1, <3>2
  <2>7. Bit(a + b * Two(k), k) = Bit(b, 0)
    <3>1. a < Two(k) /\ k >= k
      BY <2>3, <2>5
    <3> QED
      BY <2>2, <2>3, <3>1, BitJoin
  <2>8. Bit(b, 0) = 1
    <3>1. b \div 1 = b /\ b % 2 = 1
      BY <2>3, <2>5
    <3> QED
      BY <1>0, <3>1, BitIs
  <2> QED
    BY <1>1, <1>2, <2>3, <2>6, <2>7, <2>8
<1>3. CASE k >= c
  <2>1. k \in c..(Width - 1) /\ s - 1 \in Nat /\ s - 1 < Two(c)
    BY <1>0, <1>1, <1>3
  <2>2. Bit(s - 1, k) = 0
    BY <2>1, NoHighBits
  <2> QED
    BY <1>1, <1>3, <2>1, <2>2
<1> QED
  BY <1>0, <1>2, <1>3

\* Shl.
LEMMA ShiftedBits ==
  ASSUME NEW x \in Words, NEW c \in 0..Width, NEW k \in 0..(Width - 1)
  PROVE  /\ Unsigned(x * Two(c)) \in Words
         /\ Bit(Unsigned(x * Two(c)), k) = IF k >= c THEN Bit(x, k - c) ELSE 0
<1>0. /\ Width \in Nat /\ Width >= 1 /\ Two(Width) = Modulus /\ Modulus \in Nat /\ Modulus >= 2
      /\ x \in Nat /\ x < Modulus /\ Words = 0..(Modulus - 1)
  BY TwoIs
<1>1. c \in Nat /\ Width - c \in Nat /\ Width - c \in 0..Width /\ c + (Width - c) = Width
      /\ c + (Width - c) <= Width
  BY <1>0
<1>2. PICK p \in Nat, s \in Nat : p = Two(c) /\ s = Two(Width - c) /\ p >= 1 /\ s >= 1
  BY <1>1, TwoNat
<1>3. Modulus = p * s
  BY <1>0, <1>1, <1>2, TwoSum
<1>4. PICK hi \in Nat, lo \in Nat : hi = x \div s /\ lo = x % s /\ lo < s /\ x = lo + hi * s
  <2>1. /\ x \div s \in Nat /\ x % s \in Nat /\ x % s < s
        /\ x = (x % s) + (x \div s) * s
    BY <1>0, <1>1, <1>2, Split
  <2> QED
    BY <2>1, Zenon
<1>5. lo * p \in Nat /\ lo * p < Modulus
  <2>1. s - (lo + 1) \in Nat /\ s = (s - (lo + 1)) + lo + 1
    BY <1>4
  <2>2. PICK d \in Nat : s = d + lo + 1
    BY <2>1
  <2>3. p * s = p * d + lo * p + p /\ p * d \in Nat /\ lo * p \in Nat
    BY <2>2
  <2> QED
    BY <1>2, <1>3, <2>3
<1>6. x * p = hi * Modulus + lo * p
  <2>1. (lo + hi * s) * p = hi * (p * s) + lo * p
    OBVIOUS
  <2> QED
    BY <1>3, <1>4, <2>1
<1>7. (x * p) % Modulus = lo * p
  <2>1. x * p \in Int /\ Modulus >= 1 /\ hi \in Int
    BY <1>0
  <2>2. PICK z \in Int, l \in Nat : z = x * p /\ l = lo * p
    BY <1>5, <2>1
  <2> QED
    BY <1>0, <1>5, <1>6, <2>1, <2>2, DivModUnique
<1>8. Bit(lo * p, k) = IF k >= c THEN Bit(x, k - c) ELSE 0
  <2>1. /\ 0 \in Nat /\ 0 < Two(c) /\ 0 + lo * Two(c) = lo * p
        /\ k < c => Bit(0 + lo * Two(c), k) = Bit(0, k)
        /\ k >= c => Bit(0 + lo * Two(c), k) = Bit(lo, k - c)
    <3>1. 0 \in Nat /\ 0 < Two(c) /\ 0 + lo * Two(c) = lo * p
      BY <1>2, <1>5
    <3> QED
      BY <3>1, BitJoin
  <2>2. Bit(0, k) = 0
    <3>1. 0 \in 0..Width /\ 0 < Two(0) /\ k \in 0..(Width - 1)
      BY <1>0, TwoIs
    <3> QED
      BY <3>1, NoHighBits
  <2>3. k >= c => Bit(lo, k - c) = Bit(x, k - c)
    <3> SUFFICES ASSUME k >= c PROVE Bit(lo, k - c) = Bit(x, k - c)
      OBVIOUS
    <3>1. k - c \in 0..((Width - c) - 1)
      BY <1>0
    <3> QED
      BY <1>0, <1>1, <1>2, <1>4, <3>1, LowerBits
  <2> QED
    BY <1>0, <2>1, <2>2, <2>3
<1> QED
  BY <1>0, <1>2, <1>5, <1>7, <1>8 DEF Unsigned

\* Sums exist.
IsSum(g, n, D) ==
  /\ g[0] = 0
  /\ \A k \in 1..n : g[k] = g[k - 1] + D[k]
  /\ \A k \in 0..n : g[k] \in Nat

LEMMA SumExists ==
  ASSUME NEW n \in Nat, NEW D, \A k \in 1..n : D[k] \in Nat
  PROVE  \E g : IsSum(g, n, D)
<1> DEFINE T == {m \in 0..n : \E g : IsSum(g, m, D)}
<1>1. 0 \in T
  <2>1. IsSum([k \in 0..0 |-> 0], 0, D)
    BY DEF IsSum
  <2>2. \E g : IsSum(g, 0, D)
    BY <2>1
  <2> QED
    BY <2>2
<1>2. ASSUME NEW m \in 1..n, m - 1 \in T PROVE m \in T
  <2>0. \E g : IsSum(g, m - 1, D)
    BY <1>2
  <2>1. PICK g : /\ g[0] = 0
                 /\ \A k \in 1..(m - 1) : g[k] = g[k - 1] + D[k]
                 /\ \A k \in 0..(m - 1) : g[k] \in Nat
    BY <2>0 DEF IsSum
  <2> DEFINE h == [k \in 0..m |-> IF k = m THEN g[m - 1] + D[m] ELSE g[k]]
  <2>2. h[0] = 0
    BY <2>1
  <2>3. \A k \in 0..(m - 1) : h[k] = g[k]
    OBVIOUS
  <2>4. h[m] = h[m - 1] + D[m] /\ h[m] \in Nat
    BY <2>1, <2>3
  <2>5. ASSUME NEW k \in 1..m PROVE h[k] = h[k - 1] + D[k]
    <3>1. CASE k = m
      BY <2>4, <3>1
    <3>2. CASE k # m
      <4>1. k \in 1..(m - 1) /\ k \in 0..(m - 1) /\ k - 1 \in 0..(m - 1)
        BY <3>2
      <4>2. h[k] = g[k] /\ h[k - 1] = g[k - 1]
        BY <2>3, <4>1
      <4> QED
        BY <2>1, <4>1, <4>2
    <3> QED
      BY <3>1, <3>2
  <2>6. \A k \in 0..m : h[k] \in Nat
    BY <2>1, <2>3, <2>4
  <2> HIDE DEF h
  <2>7. IsSum(h, m, D)
    BY <2>2, <2>5, <2>6 DEF IsSum
  <2> QED
    BY <2>7
<1> HIDE DEF T
<1>3. 0..n \subseteq T
  BY <1>1, <1>2, UpTo
<1>4. n \in T
  BY <1>3
<1> QED
  BY <1>4 DEF T

\* FromBits is any sum of the bits' values.
LEMMA FromBitsSum ==
  ASSUME NEW bits, NEW g, g[0] = 0,
         \A k \in 1..Width : g[k] = g[k - 1] + bits[k - 1] * Two(k - 1)
  PROVE  FromBits(bits) = g[Width]
<1> DEFINE D(k) == bits[k - 1] * 2^(k - 1)
           Eqn(r) == r = [k \in 0..Width |-> IF k = 0 THEN 0 ELSE r[k - 1] + D(k)]
           h == [k \in 0..Width |-> g[k]]
           r == CHOOSE x : Eqn(x)
<1>0. Width \in Nat
  BY WidthAssumption
<1>1. FromBits(bits) = r[Width]
  BY DEF FromBits
<1>2. \A k \in 1..Width : g[k] = g[k - 1] + D(k)
  BY DEF Two
<1> HIDE DEF D
<1>3. Eqn(h)
  <2>1. ASSUME NEW k \in 0..Width
        PROVE  h[k] = IF k = 0 THEN 0 ELSE h[k - 1] + D(k)
    <3>1. CASE k = 0
      BY <3>1
    <3>2. CASE k # 0
      <4>1. k \in 1..Width /\ k - 1 \in 0..Width
        BY <1>0, <3>2
      <4> QED
        BY <1>2, <4>1
    <3> QED
      BY <3>1, <3>2
  <2> QED
    BY <2>1
<1> HIDE DEF h
<1>4. Eqn(r)
  BY <1>3
<1> HIDE DEF r
<1> DEFINE T == {k \in 0..Width : r[k] = g[k]}
<1>5. 0 \in T
  BY <1>0, <1>4
<1>6. ASSUME NEW k \in 1..Width, k - 1 \in T PROVE k \in T
  <2>1. r[k] = r[k - 1] + D(k) /\ k \in 0..Width
    BY <1>0, <1>4
  <2> QED
    BY <1>2, <1>6, <2>1
<1> HIDE DEF T
<1>7. 0..Width \subseteq T
  BY <1>0, <1>5, <1>6, UpTo
<1>8. Width \in T
  BY <1>0, <1>7
<1> QED
  BY <1>1, <1>8 DEF T

\* The number made of bits has these bits.
Made(bits) ==
  /\ FromBits(bits) \in Words
  /\ \A k \in 0..(Width - 1) : Bit(FromBits(bits), k) = bits[k]

LEMMA FromBitsIs ==
  ASSUME NEW bits, \A k \in 0..(Width - 1) : bits[k] \in {0, 1}
  PROVE  Made(bits)
<1> DEFINE D == [k \in 1..Width |-> bits[k - 1] * Two(k - 1)]
<1>0. Width \in Nat /\ Width >= 1 /\ Two(0) = 1 /\ Two(Width) = Modulus /\ Words = 0..(Modulus - 1)
      /\ Modulus \in Nat
  BY TwoIs
<1>1. ASSUME NEW k \in 1..Width
      PROVE  bits[k - 1] \in {0, 1} /\ Two(k - 1) \in Nat /\ D[k] \in Nat
                /\ D[k] = bits[k - 1] * Two(k - 1)
  <2>1. k - 1 \in 0..(Width - 1) /\ k - 1 \in 0..Width
    BY <1>0
  <2>2. PICK t \in Nat : t = Two(k - 1)
    BY <2>1, TwoNat
  <2>3. bits[k - 1] \in {0, 1}
    BY <2>1
  <2>4. bits[k - 1] * t \in Nat
    BY <2>3
  <2> QED
    BY <2>2, <2>3, <2>4
<1> HIDE DEF D
<1>2. PICK g : /\ g[0] = 0
               /\ \A k \in 1..Width : g[k] = g[k - 1] + D[k]
               /\ \A k \in 0..Width : g[k] \in Nat
  <2>1. \A k \in 1..Width : D[k] \in Nat
    BY <1>1
  <2>2. \E g : IsSum(g, Width, D)
    BY <1>0, <2>1, SumExists
  <2> QED
    BY <2>2 DEF IsSum
<1>3. FromBits(bits) = g[Width]
  BY <1>1, <1>2, FromBitsSum
<1> DEFINE Good(m) == g[m] < Two(m) /\ \A k \in 0..(m - 1) : Bit(g[m], k) = bits[k]
           T == {m \in 0..Width : Good(m)}
<1>4. 0 \in T
  BY <1>0, <1>2
<1>5. ASSUME NEW m \in 1..Width, m - 1 \in T PROVE m \in T
  <2>1. /\ m - 1 \in 0..Width /\ m \in 0..Width /\ Two(m) = 2 * Two(m - 1)
        /\ m - 1 \in 0..(Width - 1)
    BY <1>0, TwoDoubles
  <2>2. PICK a \in Nat, t \in Nat : a = g[m - 1] /\ t = Two(m - 1) /\ t >= 1 /\ a < t
    BY <1>2, <1>5, <2>1, TwoNat
  <2>3. PICK b \in {0, 1} : b = bits[m - 1]
    BY <2>1
  <2>4. g[m] = a + b * t
    BY <1>1, <1>2, <2>2, <2>3
  <2>5. b \in Nat /\ (b = 0 \/ b = 1)
    OBVIOUS
  <2>6. g[m] < Two(m)
    <3>1. b * t = 0 \/ b * t = t
      BY <2>5
    <3> QED
      BY <2>1, <2>2, <2>4, <3>1
  <2>7. ASSUME NEW k \in 0..(m - 1) PROVE Bit(g[m], k) = bits[k]
    <3>1. k \in 0..(Width - 1)
      BY <1>0
    <3>2. /\ k < m - 1 => Bit(a + b * Two(m - 1), k) = Bit(a, k)
          /\ k >= m - 1 => Bit(a + b * Two(m - 1), k) = Bit(b, k - (m - 1))
      BY <2>1, <2>2, <2>5, <3>1, BitJoin
    <3>3. CASE k < m - 1
      <4>1. k \in 0..((m - 1) - 1)
        BY <3>3
      <4>2. Bit(a, k) = bits[k]
        BY <1>5, <2>2, <4>1
      <4> QED
        BY <2>2, <2>4, <3>2, <3>3, <4>2
    <3>4. CASE k >= m - 1
      <4>1. k = m - 1 /\ k - (m - 1) = 0
        BY <3>4
      <4>2. Bit(b, 0) = b
        <5>1. b \div 1 = b /\ b % 2 = b
          BY <2>5
        <5> QED
          BY <1>0, <5>1, BitIs
      <4> QED
        BY <2>2, <2>3, <2>4, <3>2, <3>4, <4>1, <4>2
    <3> QED
      BY <3>3, <3>4
  <2> QED
    BY <2>1, <2>6, <2>7
<1> HIDE DEF T
<1>6. 0..Width \subseteq T
  BY <1>0, <1>4, <1>5, UpTo
<1>7. Width \in T
  BY <1>0, <1>6
<1>8. Good(Width)
  BY <1>7 DEF T
<1>9. g[Width] \in Words
  BY <1>0, <1>2, <1>8
<1> QED
  BY <1>3, <1>8, <1>9 DEF Made

\* and, or and xor: bit by bit.
LEMMA AndBits ==
  ASSUME NEW x \in Nat, NEW y \in Nat
  PROVE  /\ BitAnd(x, y) \in Words
         /\ \A k \in 0..(Width - 1) :
              Bit(BitAnd(x, y), k) = IF Bit(x, k) = 1 /\ Bit(y, k) = 1 THEN 1 ELSE 0
<1> DEFINE bits == [k \in 0..(Width - 1) |-> Bit(x, k) * Bit(y, k)]
<1>0. \A k \in 0..(Width - 1) : k \in 0..Width
  BY WidthAssumption
<1>1. ASSUME NEW k \in 0..(Width - 1)
      PROVE  /\ bits[k] \in {0, 1}
             /\ bits[k] = IF Bit(x, k) = 1 /\ Bit(y, k) = 1 THEN 1 ELSE 0
  <2>1. PICK a \in {0, 1}, b \in {0, 1} : a = Bit(x, k) /\ b = Bit(y, k)
    BY <1>0, BitRange
  <2>2. a * b = IF a = 1 /\ b = 1 THEN 1 ELSE 0
    OBVIOUS
  <2> QED
    BY <2>1, <2>2
<1>2. BitAnd(x, y) = FromBits(bits)
  BY DEF BitAnd
<1> HIDE DEF bits
<1>3. Made(bits)
  BY <1>1, FromBitsIs
<1> QED
  BY <1>1, <1>2, <1>3 DEF Made

LEMMA OrBits ==
  ASSUME NEW x \in Nat, NEW y \in Nat
  PROVE  /\ BitOr(x, y) \in Words
         /\ \A k \in 0..(Width - 1) :
              Bit(BitOr(x, y), k) = IF Bit(x, k) = 1 \/ Bit(y, k) = 1 THEN 1 ELSE 0
<1> DEFINE bits == [k \in 0..(Width - 1) |-> Bit(x, k) + Bit(y, k) - Bit(x, k) * Bit(y, k)]
<1>0. \A k \in 0..(Width - 1) : k \in 0..Width
  BY WidthAssumption
<1>1. ASSUME NEW k \in 0..(Width - 1)
      PROVE  /\ bits[k] \in {0, 1}
             /\ bits[k] = IF Bit(x, k) = 1 \/ Bit(y, k) = 1 THEN 1 ELSE 0
  <2>1. PICK a \in {0, 1}, b \in {0, 1} : a = Bit(x, k) /\ b = Bit(y, k)
    BY <1>0, BitRange
  <2>2. a + b - a * b = IF a = 1 \/ b = 1 THEN 1 ELSE 0
    OBVIOUS
  <2> QED
    BY <2>1, <2>2
<1>2. BitOr(x, y) = FromBits(bits)
  BY DEF BitOr
<1> HIDE DEF bits
<1>3. Made(bits)
  BY <1>1, FromBitsIs
<1> QED
  BY <1>1, <1>2, <1>3 DEF Made

LEMMA XorBits ==
  ASSUME NEW x \in Nat, NEW y \in Nat
  PROVE  /\ BitXor(x, y) \in Words
         /\ \A k \in 0..(Width - 1) :
              Bit(BitXor(x, y), k) = IF Bit(x, k) # Bit(y, k) THEN 1 ELSE 0
<1> DEFINE bits == [k \in 0..(Width - 1) |-> (Bit(x, k) + Bit(y, k)) % 2]
<1>0. \A k \in 0..(Width - 1) : k \in 0..Width
  BY WidthAssumption
<1>1. ASSUME NEW k \in 0..(Width - 1)
      PROVE  /\ bits[k] \in {0, 1}
             /\ bits[k] = IF Bit(x, k) # Bit(y, k) THEN 1 ELSE 0
  <2>1. PICK a \in {0, 1}, b \in {0, 1} : a = Bit(x, k) /\ b = Bit(y, k)
    BY <1>0, BitRange
  <2>2. (a + b) % 2 = IF a # b THEN 1 ELSE 0
    OBVIOUS
  <2> QED
    BY <2>1, <2>2
<1>2. BitXor(x, y) = FromBits(bits)
  BY DEF BitXor
<1> HIDE DEF bits
<1>3. Made(bits)
  BY <1>1, FromBitsIs
<1> QED
  BY <1>1, <1>2, <1>3 DEF Made

\* The count of the second shift of a rotation by y, taken modulo the width,
\* is what the first one leaves of the width.
LEMMA CountIs ==
  ASSUME NEW y \in Nat
  PROVE  /\ Count(y) \in 0..(Width - 1) /\ Count(y) \in 0..Width
         /\ Count(Unsigned(Width - y)) = IF Count(y) = 0 THEN 0 ELSE Width - Count(y)
<1>0. /\ Width \in Nat /\ Width >= 1 /\ Modulus \in Nat /\ Modulus >= 2
  BY TwoIs
<1>1. PICK q \in Int, c \in Nat : q = y \div Width /\ c = y % Width /\ c < Width /\ y - q * Width = c
  <2>1. y \div Width \in Nat /\ y % Width \in Nat /\ y % Width < Width
        /\ y - (y \div Width) * Width = y % Width
    BY <1>0, DivModNat
  <2>2. y \div Width \in Int
    BY <2>1
  <2> QED
    BY <2>1, <2>2, Zenon
<1>2. PICK w \in Nat : Modulus = w * Width
  <2>1. Modulus % Width = 0
    BY PowerAssumption DEF Modulus
  <2>2. /\ Modulus \div Width \in Nat
        /\ Modulus - (Modulus \div Width) * Width = Modulus % Width
    BY <1>0, DivModNat
  <2>3. PICK w \in Nat : w = Modulus \div Width
    BY <2>2
  <2>4. Modulus - w * Width = 0
    BY <2>1, <2>2, <2>3
  <2>5. Modulus = w * Width
    BY <1>0, <2>4
  <2> QED
    BY <2>5
<1>3. PICK z \in Int : z = Width - y
  BY <1>0
<1>4. PICK p \in Int, u \in Nat : p = z \div Modulus /\ u = z % Modulus /\ u < Modulus
                                  /\ z - p * Modulus = u
  <2>1. z \div Modulus \in Int /\ z % Modulus \in Nat /\ z % Modulus < Modulus
        /\ z - (z \div Modulus) * Modulus = z % Modulus
    BY <1>0, DivModInt
  <2> QED
    BY <2>1, Zenon
<1>5. PICK pw \in Int : pw = p * w
  OBVIOUS
<1>6. u = (1 - q - pw) * Width - c
  <2>1. p * Modulus = pw * Width
    <3>1. p * (w * Width) = (p * w) * Width
      BY <1>0
    <3> QED
      BY <1>2, <1>5, <3>1
  <2>2. (1 - q - pw) * Width = Width - q * Width - pw * Width
        /\ q * Width \in Int /\ pw * Width \in Int
    BY <1>0
  <2> QED
    BY <1>0, <1>1, <1>3, <1>4, <2>1, <2>2
<1>7. u % Width = IF c = 0 THEN 0 ELSE Width - c
  <2>1. u \in Int
    BY <1>4
  <2>2. CASE c = 0
    <3>1. PICK r \in Int : r = 1 - q - pw
      OBVIOUS
    <3>2. u = r * Width + 0 /\ 0 \in Nat /\ 0 < Width
      <4>1. r * Width \in Int
        BY <1>0, <3>1
      <4> QED
        BY <1>0, <1>6, <2>2, <3>1, <4>1
    <3>3. u % Width = 0
      BY <1>0, <2>1, <3>2, DivModUnique
    <3> QED
      BY <2>2, <3>3
  <2>3. CASE c # 0
    <3>1. PICK r \in Int : r = (-q) - pw
      <4>1. (-q) - pw \in Int
        OBVIOUS
      <4> QED
        BY <4>1
    <3>2. (1 + r) * Width = Width + r * Width /\ r * Width \in Int
      BY <1>0
    <3>3. u = r * Width + (Width - c)
      BY <1>0, <1>6, <3>1, <3>2
    <3>4. Width - c \in Nat /\ Width - c < Width
      BY <1>0, <1>1, <2>3
    <3>5. u % Width = Width - c
      BY <1>0, <2>1, <3>3, <3>4, DivModUnique
    <3> QED
      BY <2>3, <3>5
  <2> QED
    BY <2>2, <2>3
<1> QED
  BY <1>0, <1>1, <1>3, <1>4, <1>7 DEF Count, Unsigned

\* The places a rotation takes bits from.
LEMMA PlaceIs ==
  ASSUME NEW k \in 0..(Width - 1), NEW c \in 0..(Width - 1)
  PROVE  /\ (k - c) % Width = IF k >= c THEN k - c ELSE k - c + Width
         /\ (k + c) % Width = IF k + c < Width THEN k + c ELSE k + c - Width
<1>0. Width \in Nat /\ Width >= 1
  BY TwoIs
<1>1. (k - c) % Width = IF k >= c THEN k - c ELSE k - c + Width
  <2>1. CASE k >= c
    <3>1. k - c \in Int /\ k - c \in Nat /\ k - c < Width /\ k - c = 0 * Width + (k - c)
      BY <1>0, <2>1
    <3>2. (k - c) % Width = k - c
      BY <1>0, <3>1, DivModUnique
    <3> QED
      BY <2>1, <3>2
  <2>2. CASE ~(k >= c)
    <3>1. k - c \in Int /\ k - c + Width \in Nat /\ k - c + Width < Width
          /\ k - c = (-1) * Width + (k - c + Width) /\ -1 \in Int
      BY <1>0, <2>2
    <3>2. (k - c) % Width = k - c + Width
      BY <1>0, <3>1, DivModUnique
    <3> QED
      BY <2>2, <3>2
  <2> QED
    BY <2>1, <2>2
<1>2. (k + c) % Width = IF k + c < Width THEN k + c ELSE k + c - Width
  <2>1. CASE k + c < Width
    <3>1. k + c \in Int /\ k + c \in Nat /\ k + c = 0 * Width + (k + c)
      BY <1>0, <2>1
    <3>2. (k + c) % Width = k + c
      BY <1>0, <2>1, <3>1, DivModUnique
    <3> QED
      BY <2>1, <3>2
  <2>2. CASE ~(k + c < Width)
    <3>1. k + c \in Int /\ k + c - Width \in Nat /\ k + c - Width < Width
          /\ k + c = 1 * Width + (k + c - Width)
      BY <1>0, <2>2
    <3>2. (k + c) % Width = k + c - Width
      BY <1>0, <3>1, DivModUnique
    <3> QED
      BY <2>2, <3>2
  <2> QED
    BY <2>1, <2>2
<1> QED
  BY <1>1, <1>2

\* Shl and Shr as the handlers use them.
LEMMA ShlBits ==
  ASSUME NEW x \in Words, NEW y \in Nat
  PROVE  /\ Shl(x, y) \in Words /\ Shl(x, y) \in Nat
         /\ \A k \in 0..(Width - 1) :
              Bit(Shl(x, y), k) = IF k >= Count(y) THEN Bit(x, k - Count(y)) ELSE 0
<1>1. Count(y) \in 0..Width
  BY CountIs
<1>2. 0 \in 0..(Width - 1)
  BY TwoIs
<1>3. Shl(x, y) = Unsigned(x * Two(Count(y)))
  BY DEF Shl, Two
<1>4. Shl(x, y) \in Words
  BY <1>1, <1>2, <1>3, ShiftedBits
<1>5. Shl(x, y) \in Nat
  BY <1>4, TwoIs
<1> QED
  BY <1>1, <1>3, <1>4, <1>5, ShiftedBits

LEMMA ShrBits ==
  ASSUME NEW x \in Words, NEW y \in Nat
  PROVE  /\ Shr(x, y) \in Words /\ Shr(x, y) \in Nat
         /\ \A k \in 0..(Width - 1) :
              Bit(Shr(x, y), k) = IF k + Count(y) < Width THEN Bit(x, k + Count(y)) ELSE 0
<1>0. /\ Width \in Nat /\ Width >= 1 /\ Modulus \in Nat /\ x \in Nat /\ x < Modulus
      /\ Words = 0..(Modulus - 1) /\ 0 \in 0..(Width - 1)
  BY TwoIs
<1>1. Count(y) \in 0..Width
  BY CountIs
<1>2. Shr(x, y) = x \div Two(Count(y))
  BY DEF Shr, Two
<1>3. PICK p \in Nat : p = Two(Count(y)) /\ p >= 1
  BY <1>1, TwoNat
<1>4. x \div p \in Nat /\ x \div p <= x
  <2>1. PICK q \in Nat, r \in Nat : q = x \div p /\ r = x % p /\ x - q * p = r
    <3>1. x \div p \in Nat /\ x % p \in Nat /\ x - (x \div p) * p = x % p
      BY <1>0, <1>3, DivModNat
    <3> QED
      BY <3>1, Zenon
  <2>2. PICK d \in Nat : p = d + 1
    BY <1>3
  <2>3. q * p = q * d + q /\ q * d \in Nat
    BY <2>2
  <2> QED
    BY <1>0, <2>1, <2>3
<1>5. Shr(x, y) \in Words
  BY <1>0, <1>2, <1>3, <1>4
<1>6. ASSUME NEW k \in 0..(Width - 1)
      PROVE  Bit(Shr(x, y), k) = IF k + Count(y) < Width THEN Bit(x, k + Count(y)) ELSE 0
  BY <1>1, <1>2, UpperBits
<1>7. Shr(x, y) \in Nat
  BY <1>2, <1>3, <1>4
<1> QED
  BY <1>5, <1>6, <1>7

-----------------------------------------------------------------------------
(***************************************************************************)
(* What the handlers push is what WebAssembly says.                        *)
(***************************************************************************)
LEMMA WasmWords == Wasm!Range32 = Words /\ Wasm!Places = 0..(Width - 1)
BY DEF Wasm!Range32, Wasm!Places, Words, Modulus

LEMMA WordIs ==
  ASSUME NEW x \in Words PROVE x \in Nat /\ x \in Int /\ x < Modulus
BY TwoIs

LEMMA Wraps ==
  ASSUME NEW z \in Int
  PROVE  Unsigned(z) \in Words /\ Wasm!Congruent(Unsigned(z), z)
<1>0. Modulus \in Nat /\ Modulus >= 2 /\ Words = 0..(Modulus - 1)
  BY TwoIs
<1>1. PICK q \in Int, u \in Nat : q = z \div Modulus /\ u = z % Modulus /\ u < Modulus
                                  /\ z - q * Modulus = u
  <2>1. z \div Modulus \in Int /\ z % Modulus \in Nat /\ z % Modulus < Modulus
        /\ z - (z \div Modulus) * Modulus = z % Modulus
    <3>1. Modulus >= 1 /\ z \in Int /\ Modulus \in Nat
      BY <1>0
    <3>2. PICK m \in Nat : m = Modulus /\ m >= 1
      BY <3>1
    <3>3. z \div m \in Int /\ z % m \in Nat /\ z % m < m /\ z - (z \div m) * m = z % m
      BY <3>2, DivModInt
    <3> QED
      BY <3>2, <3>3
  <2> QED
    BY <2>1, Zenon
<1>2. u - z = (-q) * Modulus + 0 /\ u - z \in Int /\ -q \in Int
  <2>1. (-q) * Modulus = -(q * Modulus) /\ q * Modulus \in Int
    BY <1>0
  <2> QED
    BY <1>1, <2>1
<1>3. (u - z) % Modulus = 0
  <2>1. 0 \in Nat /\ 0 < Modulus /\ Modulus >= 1
    BY <1>0
  <2> QED
    BY <1>0, <1>2, <2>1, DivModUnique
<1> QED
  BY <1>0, <1>1, <1>3 DEF Unsigned, Wasm!Congruent, Modulus

LEMMA SumsMatch ==
  ASSUME NEW x \in Words, NEW y \in Words
  PROVE  /\ Wasm!Yields("add", x, y, BinaryOpI32("add", x, y))
         /\ Wasm!Yields("sub", x, y, BinaryOpI32("sub", x, y))
         /\ Wasm!Yields("mul", x, y, BinaryOpI32("mul", x, y))
<1>0. x \in Int /\ y \in Int /\ x + y \in Int /\ x - y \in Int /\ x * y \in Int
  BY WordIs
<1>1. Wasm!Yields("add", x, y, Unsigned(x + y))
  BY <1>0, WasmWords, Wraps DEF Wasm!Yields
<1>2. Wasm!Yields("sub", x, y, Unsigned(x - y))
  BY <1>0, WasmWords, Wraps DEF Wasm!Yields
<1>3. Wasm!Yields("mul", x, y, Unsigned(x * y))
  BY <1>0, WasmWords, Wraps DEF Wasm!Yields
<1> QED
  BY <1>1, <1>2, <1>3 DEF BinaryOpI32

LEMMA BitwiseMatch ==
  ASSUME NEW x \in Words, NEW y \in Words
  PROVE  /\ Wasm!Yields("and", x, y, BinaryOpI32("and", x, y))
         /\ Wasm!Yields("or", x, y, BinaryOpI32("or", x, y))
         /\ Wasm!Yields("xor", x, y, BinaryOpI32("xor", x, y))
<1>0. x \in Nat /\ y \in Nat
  BY WordIs
<1>1. ASSUME NEW k \in 0..(Width - 1)
      PROVE  Bit(x, k) \in {0, 1} /\ Bit(y, k) \in {0, 1}
  <2>1. k \in 0..Width
    BY TwoIs
  <2> QED
    BY <1>0, <2>1, BitRange
<1>2. Wasm!Yields("and", x, y, BitAnd(x, y))
  <2>1. \A k \in Wasm!Places : Wasm!BitOf(BitAnd(x, y), k)
                                 = Wasm!Combined("and", Wasm!BitOf(x, k), Wasm!BitOf(y, k))
    BY <1>0, <1>1, WasmWords, BitIs, AndBits DEF Wasm!Combined, Wasm!Truth
  <2>2. BitAnd(x, y) \in Words
    BY <1>0, AndBits
  <2> QED
    BY <2>1, <2>2, WasmWords DEF Wasm!Yields
<1>3. Wasm!Yields("or", x, y, BitOr(x, y))
  <2>1. \A k \in Wasm!Places : Wasm!BitOf(BitOr(x, y), k)
                                 = Wasm!Combined("or", Wasm!BitOf(x, k), Wasm!BitOf(y, k))
    BY <1>0, <1>1, WasmWords, BitIs, OrBits DEF Wasm!Combined, Wasm!Truth
  <2>2. BitOr(x, y) \in Words
    BY <1>0, OrBits
  <2> QED
    BY <2>1, <2>2, WasmWords DEF Wasm!Yields
<1>4. Wasm!Yields("xor", x, y, BitXor(x, y))
  <2>1. \A k \in Wasm!Places : Wasm!BitOf(BitXor(x, y), k)
                                 = Wasm!Combined("xor", Wasm!BitOf(x, k), Wasm!BitOf(y, k))
    BY <1>0, <1>1, WasmWords, BitIs, XorBits DEF Wasm!Combined, Wasm!Truth
  <2>2. BitXor(x, y) \in Words
    BY <1>0, XorBits
  <2> QED
    BY <2>1, <2>2, WasmWords DEF Wasm!Yields
<1> QED
  BY <1>2, <1>3, <1>4 DEF BinaryOpI32

\* A shift by less than the width moves bits and makes zeros.
LEMMA ShiftsMatch ==
  ASSUME NEW x \in Words, NEW y \in Words
  PROVE  /\ Wasm!Yields("shl", x, y, BinaryOpI32("shl", x, y))
         /\ Wasm!Yields("shr_u", x, y, BinaryOpI32("shr_u", x, y))
<1>0. y \in Nat
  BY WordIs
<1>1. Wasm!Yields("shl", x, y, Shl(x, y))
  <2>1. \A k \in Wasm!Places : Wasm!BitOf(Shl(x, y), k) = Wasm!Moved("shl", x, Count(y), k)
    BY <1>0, WasmWords, BitIs, ShlBits DEF Wasm!Moved
  <2>2. Shl(x, y) \in Words /\ Count(y) = y % Width
    BY <1>0, ShlBits DEF Count
  <2> QED
    BY <2>1, <2>2, WasmWords DEF Wasm!Yields
<1>2. Wasm!Yields("shr_u", x, y, Shr(x, y))
  <2>1. \A k \in Wasm!Places : Wasm!BitOf(Shr(x, y), k) = Wasm!Moved("shr_u", x, Count(y), k)
    BY <1>0, WasmWords, BitIs, ShrBits DEF Wasm!Moved
  <2>2. Shr(x, y) \in Words /\ Count(y) = y % Width
    BY <1>0, ShrBits DEF Count
  <2> QED
    BY <2>1, <2>2, WasmWords DEF Wasm!Yields
<1> QED
  BY <1>1, <1>2 DEF BinaryOpI32

\* The sign is the highest bit.
LEMMA SignBit ==
  ASSUME NEW x \in Words
  PROVE  /\ Bit(x, Width - 1) \in {0, 1}
         /\ Signed(x) = x - Bit(x, Width - 1) * Modulus
<1>0. /\ Width \in Nat /\ Width >= 1 /\ Two(Width - 1) = Half /\ x \in Nat /\ x < Modulus
      /\ Width - 1 \in 0..Width
  BY TwoIs
<1>1. Half \in Nat \ {0} /\ Modulus = 2 * Half
  BY Ranges
<1>2. Signed(x) = IF x >= Half THEN x - Modulus ELSE x
  BY SignedIs DEF Wasm!Signed32, Half, Modulus
<1>3. CASE x < Half
  <2>1. x \div Half = 0
    <3>1. x \in Int /\ x = 0 * Half + x /\ Half \in Nat /\ Half >= 1 /\ 0 \in Int
      BY <1>0, <1>1
    <3> QED
      BY <1>0, <1>3, <3>1, DivModUnique
  <2>2. Bit(x, Width - 1) = 0
    BY <1>0, <2>1, BitIs
  <2> QED
    BY <1>0, <1>1, <1>2, <1>3, <2>2
<1>4. CASE x >= Half
  <2>1. x \div Half = 1
    <3>1. x \in Int /\ x = 1 * Half + (x - Half) /\ Half \in Nat /\ Half >= 1 /\ 1 \in Int
          /\ x - Half \in Nat /\ x - Half < Half
      BY <1>0, <1>1, <1>4
    <3> QED
      BY <3>1, DivModUnique
  <2>2. Bit(x, Width - 1) = 1
    BY <1>0, <2>1, BitIs
  <2> QED
    BY <1>0, <1>1, <1>2, <1>4, <2>2
<1> QED
  BY <1>0, <1>1, <1>3, <1>4

\* shr_s copies the sign into the bits it frees.
LEMMA ShrSMatches ==
  ASSUME NEW x \in Words, NEW y \in Words
  PROVE  Wasm!Yields("shr_s", x, y, BinaryOpI32("shr_s", x, y))
<1> DEFINE r == Unsigned(Shr(Signed(x), y))
<1>0. /\ Width \in Nat /\ Width >= 1 /\ Modulus \in Nat /\ Modulus >= 2 /\ Two(Width) = Modulus
      /\ x \in Nat /\ x < Modulus /\ y \in Nat /\ Words = 0..(Modulus - 1)
      /\ Width - 1 \in 0..(Width - 1)
  BY TwoIs
<1>1. PICK c \in 0..(Width - 1) : c = Count(y)
  BY <1>0, CountIs
<1>2. /\ c \in Nat /\ c \in 0..Width /\ Width - c \in Nat /\ Width - c \in 0..Width
      /\ (Width - c) + c = Width /\ (Width - c) + c <= Width
  BY <1>0
<1>3. PICK p \in Nat, s \in Nat : p = Two(c) /\ s = Two(Width - c) /\ p >= 1 /\ s >= 1
  BY <1>2, TwoNat
<1>4. Modulus = s * p
  BY <1>0, <1>2, <1>3, TwoSum
<1>5. PICK e \in {0, 1} : e = Bit(x, Width - 1) /\ Signed(x) = x - e * Modulus
  BY SignBit
<1>6. PICK q \in Nat, l \in Nat : q = x \div p /\ l = x % p /\ l < p /\ x - q * p = l
  <2>1. x \div p \in Nat /\ x % p \in Nat /\ x % p < p /\ x - (x \div p) * p = x % p
    BY <1>0, <1>3, DivModNat
  <2> QED
    BY <2>1, Zenon
<1>7. q < s
  BY <1>0, <1>2, <1>3, <1>6, UpperBits
<1>8. Shr(Signed(x), y) = q - e * s
  <2>1. Shr(Signed(x), y) = Signed(x) \div p
    BY <1>1, <1>3 DEF Shr, Two
  <2>2. Signed(x) = (q - e * s) * p + l /\ q - e * s \in Int /\ Signed(x) \in Int
    <3>1. CASE e = 0
      BY <1>0, <1>5, <1>6, <3>1, SMTT(60)
    <3>2. CASE e = 1
      <4>1. (q - s) * p = q * p - s * p /\ q * p \in Int /\ s * p \in Int
        OBVIOUS
      <4>2. e * s = s /\ e * Modulus = Modulus
        BY <1>0, <3>2
      <4>3. q - e * s = q - s /\ q - s \in Int /\ Signed(x) = x - s * p
        BY <1>4, <1>5, <4>2
      <4>4. (q - s) * p + l = x - s * p
        BY <1>0, <1>6, <4>1
      <4> QED
        BY <1>0, <4>1, <4>3, <4>4
    <3> QED
      BY <3>1, <3>2
  <2>3. PICK v \in Int, d \in Int : v = Signed(x) /\ d = q - e * s
    BY <2>2
  <2> QED
    BY <1>3, <1>6, <2>1, <2>2, <2>3, DivModUnique
<1>9. PICK b \in Nat : b = e * (p - 1)
  BY <1>3
<1>10. r = q + b * s /\ r \in Words
  <2>1. q + b * s = IF e = 0 THEN q ELSE q - s + Modulus
    <3>1. CASE e = 0
      BY <1>9, <3>1
    <3>2. CASE e = 1
      <4>1. (p - 1) * s = p * s - s /\ p * s = s * p /\ p * s \in Int
        OBVIOUS
      <4> QED
        BY <1>4, <1>9, <3>2, <4>1
    <3> QED
      BY <3>1, <3>2
  <2>2. s <= Modulus
    <3>1. PICK d \in Nat : p = d + 1
      BY <1>3
    <3>2. s * p = s * d + s /\ s * d \in Nat
      BY <3>1
    <3> QED
      BY <1>4, <3>2
  <2>3. CASE e = 0
    <3>1. q - e * s = q /\ q < Modulus
      BY <1>0, <1>7, <2>2, <2>3
    <3>2. q % Modulus = q
      BY <1>0, <3>1
    <3> QED
      BY <1>0, <1>8, <2>1, <2>3, <3>1, <3>2 DEF Unsigned
  <2>4. CASE e = 1
    <3>1. /\ q - e * s = (-1) * Modulus + (q - s + Modulus) /\ q - s + Modulus \in Nat
          /\ q - s + Modulus < Modulus /\ q - e * s \in Int /\ -1 \in Int /\ Modulus >= 1
      BY <1>0, <1>7, <2>2, <2>4
    <3>2. PICK d \in Int, u \in Nat : d = q - e * s /\ u = q - s + Modulus
      BY <3>1
    <3>3. d % Modulus = u
      BY <1>0, <3>1, <3>2, DivModUnique
    <3> QED
      BY <1>0, <1>8, <2>1, <2>4, <3>1, <3>2, <3>3 DEF Unsigned
  <2> QED
    BY <2>3, <2>4
<1> HIDE DEF r
<1>11. ASSUME NEW k \in 0..(Width - 1)
       PROVE  Bit(r, k) = Wasm!Moved("shr_s", x, c, k)
  <2>1. /\ k < Width - c => Bit(q + b * Two(Width - c), k) = Bit(q, k)
        /\ k >= Width - c => Bit(q + b * Two(Width - c), k) = Bit(b, k - (Width - c))
    BY <1>2, <1>3, <1>7, BitJoin
  <2>2. CASE k < Width - c
    <3>1. Bit(q, k) = Bit(x, k + c) /\ k + c < Width
      BY <1>0, <1>2, <1>3, <1>6, <2>2, UpperBits, SMTT(60)
    <3> QED
      BY <1>3, <1>10, <2>1, <2>2, <3>1, BitIs DEF Wasm!Moved
  <2>3. CASE k >= Width - c
    <3>1. k - (Width - c) \in 0..(Width - 1) /\ k - (Width - c) < c /\ ~(k + c < Width)
      BY <1>0, <1>2, <2>3
    <3>2. Bit(b, k - (Width - c)) = e
      <4>1. CASE e = 0
        <5>1. b = 0
          BY <1>3, <1>9, <4>1
        <5>2. k - (Width - c) \in 0..(Width - 1) /\ 0 < Two(0) /\ 0 \in 0..Width
          BY <1>0, <3>1, TwoIs
        <5> QED
          BY <4>1, <5>1, <5>2, NoHighBits
      <4>2. CASE e = 1
        <5>1. b = Two(c) - 1
          BY <1>3, <1>9, <4>2
        <5> QED
          BY <1>2, <3>1, <4>2, <5>1, OnesBits
      <4> QED
        BY <4>1, <4>2
    <3> QED
      BY <1>3, <1>5, <1>10, <2>1, <2>3, <3>1, <3>2, BitIs DEF Wasm!Moved
  <2> QED
    BY <1>0, <1>2, <2>2, <2>3
<1>12. \A k \in Wasm!Places : Wasm!BitOf(r, k) = Wasm!Moved("shr_s", x, y % Width, k)
  BY <1>1, <1>11, WasmWords, BitIs DEF Count
<1>13. Wasm!Yields("shr_s", x, y, r)
  BY <1>10, <1>12, WasmWords DEF Wasm!Yields
<1> QED
  BY <1>13 DEF BinaryOpI32, r

LEMMA RotationsMatch ==
  ASSUME NEW x \in Words, NEW y \in Words
  PROVE  Wasm!Yields("rotl", x, y, Rotl(x, y)) /\ Wasm!Yields("rotr", x, y, Rotr(x, y))
<1>0. /\ Width \in Nat /\ Width >= 1 /\ Modulus \in Nat /\ Modulus >= 2 /\ x \in Nat /\ y \in Nat
      /\ Words = 0..(Modulus - 1)
  BY TwoIs
<1>1. PICK u \in Nat : u = Unsigned(Width - y)
  <2>1. Width - y \in Int
    BY <1>0
  <2> QED
    BY <1>0, <2>1, Wraps
<1>2. PICK c \in 0..(Width - 1) : c = Count(y)
  BY <1>0, CountIs
<1>3. PICK d \in Nat : d = Count(u) /\ (c = 0 => d = 0) /\ (c # 0 => d = Width - c)
  <2>1. Count(u) = IF c = 0 THEN 0 ELSE Width - c
    BY <1>0, <1>1, <1>2, CountIs
  <2>2. Count(u) \in Nat
    BY <1>0, <2>1
  <2> QED
    BY <2>1, <2>2
<1>4. ASSUME NEW k \in 0..(Width - 1)
      PROVE  /\ Bit(x, k) \in {0, 1}
             /\ (k - c) % Width = IF k >= c THEN k - c ELSE k - c + Width
             /\ (k + c) % Width = IF k + c < Width THEN k + c ELSE k + c - Width
  <2>1. k \in 0..Width
    BY <1>0
  <2> QED
    BY <1>0, <2>1, BitRange, PlaceIs
<1>5. /\ Shl(x, y) \in Nat /\ Shl(x, u) \in Nat /\ Shr(x, y) \in Nat /\ Shr(x, u) \in Nat
      /\ \A k \in 0..(Width - 1) :
           /\ Bit(Shl(x, y), k) = IF k >= c THEN Bit(x, k - c) ELSE 0
           /\ Bit(Shl(x, u), k) = IF k >= d THEN Bit(x, k - d) ELSE 0
           /\ Bit(Shr(x, y), k) = IF k + c < Width THEN Bit(x, k + c) ELSE 0
           /\ Bit(Shr(x, u), k) = IF k + d < Width THEN Bit(x, k + d) ELSE 0
  <2>1. /\ Shl(x, y) \in Nat /\ Shl(x, u) \in Nat
        /\ \A k \in 0..(Width - 1) :
             /\ Bit(Shl(x, y), k) = IF k >= c THEN Bit(x, k - c) ELSE 0
             /\ Bit(Shl(x, u), k) = IF k >= d THEN Bit(x, k - d) ELSE 0
    BY <1>0, <1>2, <1>3, ShlBits
  <2>2. /\ Shr(x, y) \in Nat /\ Shr(x, u) \in Nat
        /\ \A k \in 0..(Width - 1) :
             /\ Bit(Shr(x, y), k) = IF k + c < Width THEN Bit(x, k + c) ELSE 0
             /\ Bit(Shr(x, u), k) = IF k + d < Width THEN Bit(x, k + d) ELSE 0
    BY <1>0, <1>2, <1>3, ShrBits
  <2> QED
    BY <2>1, <2>2
<1>6. ASSUME NEW k \in 0..(Width - 1)
      PROVE  Bit(Rotl(x, y), k) = Wasm!Moved("rotl", x, c, k)
  <2>1. Bit(Rotl(x, y), k) = IF Bit(Shl(x, y), k) = 1 \/ Bit(Shr(x, u), k) = 1 THEN 1 ELSE 0
    BY <1>1, <1>5, OrBits DEF Rotl
  <2>2. Wasm!Moved("rotl", x, c, k) = Bit(x, (k - c) % Width)
    BY BitIs DEF Wasm!Moved
  <2>3. CASE k >= c
    <3>1. /\ k - c \in 0..(Width - 1) /\ (k - c) % Width = k - c
          /\ k + d < Width => k + d = k - c
      <4>1. k - c \in 0..(Width - 1) /\ (k + d < Width => k + d = k - c)
        BY <1>0, <1>3, <2>3
      <4> QED
        BY <1>4, <2>3, <4>1
    <3>2. Bit(Shl(x, y), k) = Bit(x, k - c) /\ Bit(Shr(x, u), k) \in {0, Bit(x, k - c)}
      BY <1>5, <2>3, <3>1
    <3> QED
      BY <1>4, <2>1, <2>2, <3>1, <3>2
  <2>4. CASE ~(k >= c)
    <3>1. /\ k - c + Width \in 0..(Width - 1) /\ (k - c) % Width = k - c + Width
          /\ k + d < Width /\ k + d = k - c + Width
      <4>1. /\ k - c + Width \in 0..(Width - 1)
            /\ k + d < Width /\ k + d = k - c + Width
        BY <1>0, <1>3, <2>4
      <4> QED
        BY <1>4, <2>4, <4>1
    <3>2. Bit(Shl(x, y), k) = 0 /\ Bit(Shr(x, u), k) = Bit(x, k - c + Width)
      BY <1>5, <2>4, <3>1
    <3> QED
      BY <1>4, <2>1, <2>2, <3>1, <3>2
  <2> QED
    BY <2>3, <2>4
<1>7. ASSUME NEW k \in 0..(Width - 1)
      PROVE  Bit(Rotr(x, y), k) = Wasm!Moved("rotr", x, c, k)
  <2>1. Bit(Rotr(x, y), k) = IF Bit(Shr(x, y), k) = 1 \/ Bit(Shl(x, u), k) = 1 THEN 1 ELSE 0
    BY <1>1, <1>5, OrBits DEF Rotr
  <2>2. Wasm!Moved("rotr", x, c, k) = Bit(x, (k + c) % Width)
    BY BitIs DEF Wasm!Moved
  <2>3. CASE k + c < Width
    <3>1. /\ k + c \in 0..(Width - 1) /\ (k + c) % Width = k + c
          /\ k >= d => k - d = k + c
      <4>1. k + c \in 0..(Width - 1) /\ (k >= d => k - d = k + c)
        BY <1>0, <1>3, <2>3
      <4> QED
        BY <1>4, <2>3, <4>1
    <3>2. Bit(Shr(x, y), k) = Bit(x, k + c) /\ Bit(Shl(x, u), k) \in {0, Bit(x, k + c)}
      BY <1>5, <2>3, <3>1
    <3> QED
      BY <1>4, <2>1, <2>2, <3>1, <3>2
  <2>4. CASE ~(k + c < Width)
    <3>1. /\ k + c - Width \in 0..(Width - 1) /\ (k + c) % Width = k + c - Width
          /\ k >= d /\ k - d = k + c - Width
      <4>1. /\ k + c - Width \in 0..(Width - 1)
            /\ k >= d /\ k - d = k + c - Width
        BY <1>0, <1>3, <2>4
      <4> QED
        BY <1>4, <2>4, <4>1
    <3>2. Bit(Shr(x, y), k) = 0 /\ Bit(Shl(x, u), k) = Bit(x, k + c - Width)
      BY <1>5, <2>4, <3>1
    <3> QED
      BY <1>4, <2>1, <2>2, <3>1, <3>2
  <2> QED
    BY <2>3, <2>4
<1>8. Rotl(x, y) \in Words /\ Rotr(x, y) \in Words
  BY <1>1, <1>5, OrBits DEF Rotl, Rotr
<1>9. \A k \in Wasm!Places :
         /\ Wasm!BitOf(Rotl(x, y), k) = Wasm!Moved("rotl", x, y % Width, k)
         /\ Wasm!BitOf(Rotr(x, y), k) = Wasm!Moved("rotr", x, y % Width, k)
  BY <1>2, <1>6, <1>7, WasmWords, BitIs DEF Count
<1>10. Wasm!Yields("rotl", x, y, Rotl(x, y))
  BY <1>8, <1>9, WasmWords DEF Wasm!Yields
<1>11. Wasm!Yields("rotr", x, y, Rotr(x, y))
  BY <1>8, <1>9, WasmWords DEF Wasm!Yields
<1> QED
  BY <1>10, <1>11

\* Comparisons, of the numbers read with a sign or without.
LEMMA ComparisonsMatch ==
  ASSUME NEW x \in Words, NEW y \in Words,
         NEW o \in {"eq", "ne", "lt_s", "lt_u", "gt_s", "gt_u", "le_s", "le_u", "ge_s", "ge_u"}
  PROVE  Wasm!Yields(o, x, y, BinaryOpI32(o, x, y))
<1>0. x \in Int /\ y \in Int /\ 0 \in Words /\ 1 \in Words
  BY TwoIs
<1>1. /\ Signed(x) = Wasm!Signed32(x) /\ Signed(x) \in Int
      /\ Signed(y) = Wasm!Signed32(y) /\ Signed(y) \in Int
  BY SignedIs, SignedRange, <1>0
<1>2. PICK a \in Int, b \in Int : a = Signed(x) /\ b = Signed(y)
  BY <1>1
<1>2a. /\ Bool(a <= b) = Bool(~(b < a)) /\ Bool(a >= b) = Bool(~(a < b))
       /\ Bool(x <= y) = Bool(~(y < x)) /\ Bool(x >= y) = Bool(~(x < y))
  BY <1>0, <1>2 DEF Bool
<1>3. BinaryOpI32(o, x, y) = Bool(Wasm!Compared(o, x, y))
  <2>1. CASE o \in {"eq", "ne"}
    BY <2>1 DEF BinaryOpI32, Wasm!Compared, Bool
  <2>2. CASE o \in {"lt_s", "gt_s"}
    BY <1>1, <1>2, <2>2 DEF BinaryOpI32, Wasm!Compared, Bool
  <2>3. CASE o \in {"le_s", "ge_s"}
    <3>1. CASE o = "le_s"
      <4>1. BinaryOpI32(o, x, y) = Bool(a <= b)
        BY <1>2, <3>1 DEF BinaryOpI32
      <4>2. Wasm!Compared(o, x, y) = ~(b < a)
        BY <1>1, <1>2, <3>1 DEF Wasm!Compared
      <4> QED
        BY <1>2a, <4>1, <4>2
    <3>2. CASE o = "ge_s"
      <4>1. BinaryOpI32(o, x, y) = Bool(a >= b)
        BY <1>2, <3>2 DEF BinaryOpI32
      <4>2. Wasm!Compared(o, x, y) = ~(a < b)
        BY <1>1, <1>2, <3>2 DEF Wasm!Compared
      <4> QED
        BY <1>2a, <4>1, <4>2
    <3> QED
      BY <2>3, <3>1, <3>2
  <2>4. CASE o \in {"lt_u", "gt_u"}
    BY <1>0, <2>4 DEF BinaryOpI32, Wasm!Compared, Bool
  <2>5. CASE o \in {"le_u", "ge_u"}
    <3>1. CASE o = "le_u"
      <4>1. BinaryOpI32(o, x, y) = Bool(x <= y)
        BY <3>1 DEF BinaryOpI32
      <4>2. Wasm!Compared(o, x, y) = ~(y < x)
        BY <3>1 DEF Wasm!Compared
      <4> QED
        BY <1>2a, <4>1, <4>2
    <3>2. CASE o = "ge_u"
      <4>1. BinaryOpI32(o, x, y) = Bool(x >= y)
        BY <3>2 DEF BinaryOpI32
      <4>2. Wasm!Compared(o, x, y) = ~(x < y)
        BY <3>2 DEF Wasm!Compared
      <4> QED
        BY <1>2a, <4>1, <4>2
    <3> QED
      BY <2>5, <3>1, <3>2
  <2> QED
    BY <2>1, <2>2, <2>3, <2>4, <2>5
<1>4. Bool(Wasm!Compared(o, x, y)) = Wasm!Truth(Wasm!Compared(o, x, y))
  BY DEF Bool, Wasm!Truth
<1>5. BinaryOpI32(o, x, y) \in Words
  BY <1>0, <1>3 DEF Bool
<1> QED
  BY <1>3, <1>4, <1>5, WasmWords DEF Wasm!Yields

LEMMA EqzMatches ==
  ASSUME NEW a, NEW x \in Words PROVE Wasm!Yields("eqz", a, x, Bool(x = 0))
<1>1. 0 \in Words /\ 1 \in Words
  BY TwoIs
<1>2. Bool(x = 0) \in Words /\ Bool(x = 0) = Wasm!Truth(x = 0)
  BY <1>1 DEF Bool, Wasm!Truth
<1> QED
  BY <1>2, WasmWords DEF Wasm!Yields

\* Sign extension.
LEMMA ExtendMatches ==
  ASSUME NEW sz \in 1..(Width - 1), NEW x \in Words
  PROVE  Wasm!Yields("extend", sz, x, ExtI32(x, sz))
<1>0. Width \in Nat /\ Width >= 1 /\ x \in Nat
  BY TwoIs
<1>1. /\ sz \in Nat /\ sz \in 0..Width /\ Width - sz \in 0..Width /\ sz - 1 \in 0..Width
      /\ sz - 1 \in 0..(Width - 1) /\ (Width - sz) + sz = Width
  BY <1>0
<1>2. PICK p \in Nat, s \in Nat : p = Two(sz) /\ s = Two(Width - sz) /\ p >= 1 /\ s >= 1
  BY <1>1, TwoNat
<1>3. PICK low \in Nat, up \in Nat : low = p - 1 /\ up = s - 1
  BY <1>2
<1>4. ExtI32(x, sz) = IF Bit(x, sz - 1) = 1 THEN BitOr(x, up * p) ELSE BitAnd(x, low)
  BY <1>2, <1>3 DEF ExtI32, Two
<1>5. ASSUME NEW k \in 0..(Width - 1)
      PROVE  /\ Bit(x, k) \in {0, 1} /\ Bit(low, k) = IF k < sz THEN 1 ELSE 0
             /\ Bit(up * p, k) = IF k < sz THEN 0 ELSE 1
  <2>1. k \in 0..Width
    BY <1>0
  <2>2. Bit(low, k) = IF k < sz THEN 1 ELSE 0
    BY <1>1, <1>2, <1>3, OnesBits
  <2>3. 0 + up * Two(sz) = up * p /\ 0 \in Nat /\ 0 < Two(sz)
    BY <1>2
  <2>4. /\ k < sz => Bit(0 + up * Two(sz), k) = Bit(0, k)
        /\ k >= sz => Bit(0 + up * Two(sz), k) = Bit(up, k - sz)
    BY <1>1, <2>3, BitJoin
  <2>5. Bit(0, k) = 0
    <3>1. k \in 0..(Width - 1) /\ 0 < Two(0) /\ 0 \in 0..Width
      BY <1>0, TwoIs
    <3> QED
      BY <3>1, NoHighBits
  <2>6. k >= sz => Bit(up, k - sz) = 1
    <3> SUFFICES ASSUME k >= sz PROVE Bit(up, k - sz) = 1
      OBVIOUS
    <3>1. k - sz \in 0..(Width - 1) /\ k - sz < Width - sz
      BY <1>0
    <3> QED
      BY <1>1, <1>2, <1>3, <3>1, OnesBits
  <2> QED
    BY <1>0, <1>1, <2>1, <2>2, <2>3, <2>4, <2>5, <2>6, BitRange
<1>6. up * p \in Nat
  OBVIOUS
<1>7. ExtI32(x, sz) \in Words
  BY <1>0, <1>4, <1>6, AndBits, OrBits
<1>8. ASSUME NEW k \in 0..(Width - 1)
      PROVE  Bit(ExtI32(x, sz), k) = Bit(x, IF k < sz THEN k ELSE sz - 1)
  <2>1. Bit(x, sz - 1) \in {0, 1}
    BY <1>0, <1>1, BitRange
  <2>2. CASE Bit(x, sz - 1) = 1
    <3>1. Bit(ExtI32(x, sz), k) = IF Bit(x, k) = 1 \/ Bit(up * p, k) = 1 THEN 1 ELSE 0
      BY <1>0, <1>4, <1>6, <2>2, OrBits
    <3> QED
      BY <1>5, <2>2, <3>1
  <2>3. CASE Bit(x, sz - 1) = 0
    <3>1. Bit(ExtI32(x, sz), k) = IF Bit(x, k) = 1 /\ Bit(low, k) = 1 THEN 1 ELSE 0
      BY <1>0, <1>4, <2>3, AndBits
    <3> QED
      BY <1>5, <2>3, <3>1
  <2> QED
    BY <2>1, <2>2, <2>3
<1>9. \A k \in Wasm!Places : Wasm!BitOf(ExtI32(x, sz), k)
                               = Wasm!BitOf(x, IF k < sz THEN k ELSE sz - 1)
  BY <1>8, WasmWords, BitIs
<1> QED
  BY <1>7, <1>9, WasmWords DEF Wasm!Yields

\* A number other than 0 has a bit.
LEMMA SomeBit ==
  ASSUME NEW x \in Words, x # 0
  PROVE  Ones(x) # {}
<1>0. /\ Width \in Nat /\ Width >= 1 /\ x \in Nat /\ x < Modulus /\ Two(Width) = Modulus
      /\ Two(0) = 1 /\ Modulus \in Nat
  BY TwoIs
<1> SUFFICES ASSUME Ones(x) = {} PROVE FALSE
  OBVIOUS
<1>1. ASSUME NEW k \in 0..(Width - 1) PROVE Bit(x, k) = 0
  <2>1. k \in 0..Width
    BY <1>0
  <2> QED
    BY <1>0, <2>1, BitRange DEF Ones
<1> DEFINE T == {m \in 0..Width : x \div Two(Width - m) = 0}
<1>2. 0 \in T
  <2>1. Width - 0 = Width /\ x = 0 * Modulus + x /\ Modulus >= 1 /\ x \in Int /\ 0 \in Int
    BY <1>0
  <2>2. x \div Modulus = 0
    BY <1>0, <2>1, DivModUnique
  <2> QED
    BY <1>0, <2>1, <2>2
<1>3. ASSUME NEW m \in 1..Width, m - 1 \in T PROVE m \in T
  <2>1. PICK j \in 0..(Width - 1) : j = Width - m
    BY <1>0
  <2>2. j + 1 \in 1..Width /\ j \in 0..Width /\ (j + 1) - 1 = j /\ Width - (m - 1) = j + 1
    BY <1>0, <2>1
  <2>3. PICK p \in Nat : p = Two(j) /\ p >= 1
    BY <2>2, TwoNat
  <2>4. Two(j + 1) = p * 2
    BY <2>2, <2>3, TwoDoubles
  <2>5. PICK q \in Nat : q = x \div p
    BY <1>0, <2>3, DivModNat
  <2>6. q \div 2 = 0
    <3>1. x \div (p * 2) = (x \div p) \div 2
      BY <1>0, <2>3, DivDiv
    <3> QED
      BY <1>3, <2>2, <2>4, <2>5, <3>1
  <2>7. q % 2 = 0
    BY <1>1, <2>1, <2>3, <2>5, BitIs
  <2>8. q = 0
    BY <2>6, <2>7
  <2> QED
    BY <2>1, <2>3, <2>5, <2>8
<1> HIDE DEF T
<1>4. 0..Width \subseteq T
  BY <1>0, <1>2, <1>3, UpTo
<1>5. Width \in T
  BY <1>0, <1>4
<1>6. x \div Two(Width - Width) = 0 /\ Width - Width = 0
  BY <1>0, <1>5 DEF T
<1>7. x \div 1 = x
  BY <1>0
<1> QED
  BY <1>0, <1>6, <1>7

LEMMA ZeroBits ==
  ASSUME NEW k \in 0..(Width - 1) PROVE Bit(0, k) = 0
<1>1. k \in 0..(Width - 1) /\ 0 < Two(0) /\ 0 \in 0..Width
  BY TwoIs
<1> QED
  BY <1>1, NoHighBits

LEMMA OnesIs ==
  ASSUME NEW x \in Words
  PROVE  /\ Ones(x) \subseteq 0..(Width - 1) /\ Ones(x) \subseteq Nat
         /\ \A k \in 0..(Width - 1) : Wasm!BitOf(x, k) = IF k \in Ones(x) THEN 1 ELSE 0
<1>0. Width \in Nat /\ x \in Nat
  BY TwoIs
<1>1. ASSUME NEW k \in 0..(Width - 1)
      PROVE  Wasm!BitOf(x, k) = IF k \in Ones(x) THEN 1 ELSE 0
  <2>1. k \in 0..Width
    BY <1>0
  <2>2. Bit(x, k) \in {0, 1}
    BY <1>0, <2>1, BitRange
  <2> QED
    BY <2>2, BitIs DEF Ones
<1>2. Ones(x) \subseteq 0..(Width - 1)
  BY DEF Ones
<1>3. 0..(Width - 1) \subseteq Nat
  BY <1>0
<1> QED
  BY <1>1, <1>2, <1>3

LEMMA CtzMatches ==
  ASSUME NEW a, NEW x \in Words PROVE Wasm!Yields("ctz", a, x, Ctz(x))
<1>0. Width \in Nat /\ Width \in 0..Width
  BY TwoIs
<1>1. Ctz(x) \in 0..Width /\ Wasm!TrailingZeros(x, Ctz(x))
  <2>1. CASE x = 0
    <3>1. Ctz(x) = Width
      BY <2>1 DEF Ctz
    <3>2. \A k \in 0..(Width - 1) : Wasm!BitOf(x, k) = 0
      BY <2>1, ZeroBits, BitIs
    <3> QED
      BY <1>0, <3>1, <3>2, WasmWords DEF Wasm!TrailingZeros
  <2>2. CASE x # 0
    <3>1. PICK n \in Ones(x) : \A k \in Ones(x) : n <= k
      BY <2>2, SomeBit, OnesIs, Least
    <3>2. Ctz(x) \in Ones(x) /\ \A k \in Ones(x) : Ctz(x) <= k
      <4> DEFINE P(m) == \A k \in Ones(x) : m <= k
      <4>1. Ctz(x) = CHOOSE m \in Ones(x) : P(m)
        BY <2>2 DEF Ctz
      <4>2. P(n)
        BY <3>1
      <4> HIDE DEF P
      <4>3. Ctz(x) \in Ones(x) /\ P(Ctz(x))
        BY <4>1, <4>2
      <4> QED
        BY <4>3 DEF P
    <3>3. PICK r \in Nat : r = Ctz(x) /\ r \in 0..(Width - 1)
      BY <3>2, OnesIs
    <3>4. ASSUME NEW k \in 0..(Width - 1), k < r PROVE Wasm!BitOf(x, k) = 0
      <4>1. k \notin Ones(x)
        BY <3>2, <3>3, <3>4
      <4> QED
        BY <4>1, OnesIs
    <3>5. Wasm!BitOf(x, r) = 1
      BY <3>2, <3>3, OnesIs
    <3> QED
      BY <1>0, <3>3, <3>4, <3>5, WasmWords DEF Wasm!TrailingZeros
  <2> QED
    BY <2>1, <2>2
<1>2. Ctz(x) \in Words
  BY <1>1, WidthFits
<1> QED
  BY <1>1, <1>2, WasmWords DEF Wasm!Yields

LEMMA ClzMatches ==
  ASSUME NEW a, NEW x \in Words PROVE Wasm!Yields("clz", a, x, Clz(x))
<1>0. Width \in Nat /\ Width \in 0..Width /\ Width >= 1
  BY TwoIs
<1>1. Clz(x) \in 0..Width /\ Wasm!LeadingZeros(x, Clz(x))
  <2>1. CASE x = 0
    <3>1. Clz(x) = Width
      BY <2>1 DEF Clz
    <3>2. \A k \in 0..(Width - 1) : Wasm!BitOf(x, k) = 0
      BY <2>1, ZeroBits, BitIs
    <3> QED
      BY <1>0, <3>1, <3>2, WasmWords DEF Wasm!LeadingZeros
  <2>2. CASE x # 0
    <3> DEFINE M == {n \in 0..(Width - 1) : Width - 1 - n \in Ones(x)}
               P(n) == Width - 1 - n \in Ones(x) /\ \A k \in Ones(x) : k <= Width - 1 - n
    <3>1. M \in SUBSET Nat /\ M # {}
      <4>1. PICK k \in 0..(Width - 1) : k \in Ones(x)
        BY <2>2, SomeBit, OnesIs
      <4>2. Width - 1 - k \in 0..(Width - 1) /\ Width - 1 - (Width - 1 - k) = k
        BY <1>0
      <4>3. Width - 1 - k \in M
        BY <4>1, <4>2
      <4>4. M \subseteq Nat
        BY <1>0
      <4> QED
        BY <4>3, <4>4
    <3> HIDE DEF M
    <3>2. PICK n \in M : \A m \in M : n <= m
      BY <3>1, Least
    <3>3. n \in 0..(Width - 1) /\ Width - 1 - n \in Ones(x)
      BY <3>2 DEF M
    <3>4. ASSUME NEW k \in Ones(x) PROVE k <= Width - 1 - n
      <4>1. k \in 0..(Width - 1)
        BY OnesIs
      <4>2. Width - 1 - k \in 0..(Width - 1) /\ Width - 1 - (Width - 1 - k) = k
        BY <1>0, <4>1
      <4>3. Width - 1 - k \in M
        BY <4>2 DEF M
      <4>4. n <= Width - 1 - k
        BY <3>2, <4>3
      <4> QED
        BY <1>0, <3>3, <4>1, <4>4
    <3>5. P(n)
      BY <3>3, <3>4
    <3>6. Clz(x) = CHOOSE m \in 0..(Width - 1) : P(m)
      BY <2>2 DEF Clz
    <3> HIDE DEF P
    <3>7. Clz(x) \in 0..(Width - 1) /\ P(Clz(x))
      BY <3>3, <3>5, <3>6
    <3>8. PICK r \in 0..(Width - 1) : r = Clz(x)
      BY <3>7
    <3>9. Width - 1 - r \in Ones(x) /\ \A k \in Ones(x) : k <= Width - 1 - r
      BY <3>7, <3>8 DEF P
    <3>10. ASSUME NEW k \in 0..(Width - 1), k > Width - 1 - r PROVE Wasm!BitOf(x, k) = 0
      <4>1. k \notin Ones(x)
        BY <1>0, <3>9, <3>10
      <4> QED
        BY <4>1, OnesIs
    <3>11. Wasm!BitOf(x, Width - 1 - r) = 1
      <4>1. Width - 1 - r \in 0..(Width - 1)
        BY <1>0
      <4> QED
        BY <3>9, <4>1, OnesIs
    <3> QED
      BY <1>0, <3>8, <3>10, <3>11, WasmWords DEF Wasm!LeadingZeros
  <2> QED
    BY <2>1, <2>2
<1>2. Clz(x) \in Words
  BY <1>1, WidthFits
<1> QED
  BY <1>1, <1>2, WasmWords DEF Wasm!Yields

\* Popcnt is any sum of the bits, and the number of those that are set.
LEMMA PopcntSum ==
  ASSUME NEW x, NEW g, g[0] = 0,
         \A k \in 1..Width : g[k] = g[k - 1] + Bit(x, k - 1)
  PROVE  Popcnt(x) = g[Width]
<1> DEFINE D(k) == Bit(x, k - 1)
           Eqn(r) == r = [k \in 0..Width |-> IF k = 0 THEN 0 ELSE r[k - 1] + D(k)]
           h == [k \in 0..Width |-> g[k]]
           r == CHOOSE y : Eqn(y)
<1>0. Width \in Nat
  BY WidthAssumption
<1>1. Popcnt(x) = r[Width]
  BY DEF Popcnt
<1>2. \A k \in 1..Width : g[k] = g[k - 1] + D(k)
  OBVIOUS
<1> HIDE DEF D
<1>3. Eqn(h)
  <2>1. ASSUME NEW k \in 0..Width
        PROVE  h[k] = IF k = 0 THEN 0 ELSE h[k - 1] + D(k)
    <3>1. CASE k = 0
      BY <3>1
    <3>2. CASE k # 0
      <4>1. k \in 1..Width /\ k - 1 \in 0..Width
        BY <1>0, <3>2
      <4> QED
        BY <1>2, <4>1
    <3> QED
      BY <3>1, <3>2
  <2> QED
    BY <2>1
<1> HIDE DEF h
<1>4. Eqn(r)
  BY <1>3
<1> HIDE DEF r
<1> DEFINE T == {k \in 0..Width : r[k] = g[k]}
<1>5. 0 \in T
  BY <1>0, <1>4
<1>6. ASSUME NEW k \in 1..Width, k - 1 \in T PROVE k \in T
  <2>1. r[k] = r[k - 1] + D(k) /\ k \in 0..Width
    BY <1>0, <1>4
  <2> QED
    BY <1>2, <1>6, <2>1
<1> HIDE DEF T
<1>7. 0..Width \subseteq T
  BY <1>0, <1>5, <1>6, UpTo
<1>8. Width \in T
  BY <1>0, <1>7
<1> QED
  BY <1>1, <1>8 DEF T

LEMMA PopcntMatches ==
  ASSUME NEW a, NEW x \in Words PROVE Wasm!Yields("popcnt", a, x, Popcnt(x))
<1> DEFINE D == [k \in 1..Width |-> Bit(x, k - 1)]
           Set(m) == {k \in 0..(m - 1) : Bit(x, k) = 1}
<1>0. Width \in Nat /\ Width >= 1 /\ x \in Nat
  BY TwoIs
<1>1. ASSUME NEW k \in 1..Width
      PROVE  Bit(x, k - 1) \in {0, 1} /\ D[k] = Bit(x, k - 1)
  <2>1. k - 1 \in 0..Width
    BY <1>0
  <2> QED
    BY <1>0, <2>1, BitRange
<1> HIDE DEF D
<1>2. PICK g : /\ g[0] = 0
               /\ \A k \in 1..Width : g[k] = g[k - 1] + D[k]
               /\ \A k \in 0..Width : g[k] \in Nat
  <2>1. \A k \in 1..Width : D[k] \in Nat
    BY <1>1
  <2>2. \E g : IsSum(g, Width, D)
    BY <1>0, <2>1, SumExists
  <2> QED
    BY <2>2 DEF IsSum
<1>3. Popcnt(x) = g[Width]
  BY <1>1, <1>2, PopcntSum
<1> DEFINE T == {m \in 0..Width : g[m] <= m /\ IsFiniteSet(Set(m)) /\ g[m] = Cardinality(Set(m))}
<1>4. 0 \in T
  <2>1. Set(0) = {}
    OBVIOUS
  <2>2. IsFiniteSet(Set(0)) /\ Cardinality(Set(0)) = 0
    BY <2>1, FS_EmptySet
  <2> QED
    BY <1>0, <1>2, <2>2
<1>5. ASSUME NEW m \in 1..Width, m - 1 \in T PROVE m \in T
  <2>1. /\ m \in Nat /\ m - 1 \in Nat /\ m - 1 \in 0..Width /\ m \in 0..Width
        /\ g[m - 1] \in Nat /\ g[m - 1] <= m - 1
        /\ IsFiniteSet(Set(m - 1)) /\ g[m - 1] = Cardinality(Set(m - 1))
        /\ g[m] = g[m - 1] + Bit(x, m - 1) /\ Bit(x, m - 1) \in {0, 1}
    BY <1>0, <1>1, <1>2, <1>5
  <2>2. Set(m) = IF Bit(x, m - 1) = 1 THEN Set(m - 1) \cup {m - 1} ELSE Set(m - 1)
    <3>1. 0..(m - 1) = (0..((m - 1) - 1)) \cup {m - 1}
      BY <2>1
    <3> QED
      BY <3>1
  <2>3. m - 1 \notin Set(m - 1)
    BY <2>1
  <2> HIDE DEF Set
  <2>4. CASE Bit(x, m - 1) = 1
    <3>1. Set(m) = Set(m - 1) \cup {m - 1}
      BY <2>2, <2>4
    <3>2. IsFiniteSet(Set(m)) /\ Cardinality(Set(m)) = Cardinality(Set(m - 1)) + 1
      BY <2>1, <2>3, <3>1, FS_AddElement
    <3> QED
      BY <2>1, <2>4, <3>2
  <2>5. CASE Bit(x, m - 1) = 0
    BY <2>1, <2>2, <2>5
  <2> QED
    BY <2>1, <2>4, <2>5
<1> HIDE DEF T
<1>6. 0..Width \subseteq T
  BY <1>0, <1>4, <1>5, UpTo
<1>7. Width \in T
  BY <1>0, <1>6
<1>8. g[Width] \in 0..Width /\ g[Width] = Cardinality(Set(Width))
  BY <1>0, <1>2, <1>7 DEF T
<1>9. Set(Width) = {k \in Wasm!Places : Wasm!BitOf(x, k) = 1}
  BY WasmWords, BitIs
<1>10. Popcnt(x) \in Words
  BY <1>3, <1>8, WidthFits
<1> HIDE DEF Set
<1>11. Wasm!Cardinality(Set(Width)) = Cardinality(Set(Width))
  BY DEF Wasm!Cardinality, Cardinality
<1> QED
  BY <1>3, <1>8, <1>9, <1>10, <1>11, WasmWords DEF Wasm!Yields

-----------------------------------------------------------------------------
WordOps ==
  BinaryOps \cup {"rotl", "rotr", "eqz", "clz", "ctz", "popcnt", "extend"}

\* The operands of the instructions on words, and what was pushed for them.
WordInv ==
  /\ op \in BinaryOps \cup {"rotl", "rotr"} => v1 \in Words /\ v2 \in Words
  /\ op \in {"eqz", "clz", "ctz", "popcnt"} => v1 \in Words
  /\ op = "extend" => v1 \in Words /\ v2 \in 1..(Width - 1)
  /\ WordsMatch
  /\ op \in WordOps \cup DivOps \cup {"trunc_s", "trunc_u", "convert_s", "convert_u"}

LEMMA InitWordInv == Init => WordInv
<1> SUFFICES ASSUME Init PROVE WordInv
  OBVIOUS
<1>1. ExtSizes \subseteq 1..(Width - 1)
  BY WidthAssumption
<1>2. WordsMatch
  BY DEF Init, WordsMatch
<1>3. CASE op \in BinaryOps \cup DivOps \cup {"rotl", "rotr"} /\ v1 \in Words /\ v2 \in Words
  BY <1>2, <1>3 DEF WordInv, WordOps, BinaryOps, DivOps
<1>4. CASE op \in UnaryOps /\ v1 \in Words /\ v2 = None
  BY <1>2, <1>4 DEF WordInv, WordOps, BinaryOps, DivOps, UnaryOps
<1>5. CASE op = "extend" /\ v1 \in Words /\ v2 \in ExtSizes
  BY <1>1, <1>2, <1>5 DEF WordInv, WordOps, BinaryOps, DivOps
<1>6. CASE op \in {"trunc_s", "trunc_u"} /\ v1 \in Doubles /\ v2 = None
  BY <1>2, <1>6 DEF WordInv, WordOps, BinaryOps, DivOps
<1> QED
  BY <1>3, <1>4, <1>5, <1>6 DEF Init

LEMMA BinaryMatches ==
  ASSUME NEW x \in Words, NEW y \in Words, NEW o \in BinaryOps
  PROVE  Wasm!Yields(o, x, y, BinaryOpI32(o, x, y))
<1>1. CASE o \in {"add", "sub", "mul"}
  BY <1>1, SumsMatch
<1>2. CASE o \in {"and", "or", "xor"}
  BY <1>2, BitwiseMatch
<1>3. CASE o \in {"shl", "shr_u"}
  BY <1>3, ShiftsMatch
<1>4. CASE o = "shr_s"
  BY <1>4, ShrSMatches
<1>5. CASE o \in {"eq", "ne", "lt_s", "lt_u", "gt_s", "gt_u", "le_s", "le_u", "ge_s", "ge_u"}
  BY <1>5, ComparisonsMatch
<1> QED
  BY <1>1, <1>2, <1>3, <1>4, <1>5 DEF BinaryOps

LEMMA NextWordInv == WordInv /\ [Next]_vars => WordInv'
<1> SUFFICES ASSUME WordInv, [Next]_vars PROVE WordInv'
  OBVIOUS
<1>1. CASE UNCHANGED vars
  BY <1>1 DEF vars, WordInv, WordsMatch
<1>2. CASE Next
  <2>1. op' = op /\ v1' = v1 /\ v2' = v2
    BY <1>2 DEF Next, Handler
  <2>2. op \in WordOps => Wasm!Yields(op, v2, v1, res')
    <3>1. ASSUME NEW o \in BinaryOps, Handler(o, BinaryOpI32(o, v2, v1))
          PROVE  Wasm!Yields(op, v2, v1, res')
      <4>1. op = o /\ res' = BinaryOpI32(o, v2, v1) /\ v1 \in Words /\ v2 \in Words
        BY <3>1 DEF Handler, WordInv
      <4> QED
        BY <4>1, BinaryMatches
    <3>2. CASE Handler("rotl", Rotl(v2, v1)) \/ Handler("rotr", Rotr(v2, v1))
      <4>1. v1 \in Words /\ v2 \in Words
        BY <3>2 DEF Handler, WordInv
      <4>2. \/ op = "rotl" /\ res' = Rotl(v2, v1)
            \/ op = "rotr" /\ res' = Rotr(v2, v1)
        BY <3>2 DEF Handler
      <4> QED
        BY <4>1, <4>2, RotationsMatch
    <3>3. CASE \/ Handler("eqz", Bool(v1 = 0)) \/ Handler("clz", Clz(v1))
               \/ Handler("ctz", Ctz(v1)) \/ Handler("popcnt", Popcnt(v1))
      <4>1. v1 \in Words
        BY <3>3 DEF Handler, WordInv
      <4>2. \/ op = "eqz" /\ res' = Bool(v1 = 0)
            \/ op = "clz" /\ res' = Clz(v1)
            \/ op = "ctz" /\ res' = Ctz(v1)
            \/ op = "popcnt" /\ res' = Popcnt(v1)
        BY <3>3 DEF Handler
      <4> QED
        BY <4>1, <4>2, EqzMatches, ClzMatches, CtzMatches, PopcntMatches
    <3>4. CASE Handler("extend", ExtI32(v1, v2))
      <4>1. op = "extend" /\ res' = ExtI32(v1, v2) /\ v1 \in Words /\ v2 \in 1..(Width - 1)
        BY <3>4 DEF Handler, WordInv
      <4> QED
        BY <4>1, ExtendMatches
    <3>5. CASE op \in DivOps \cup {"trunc_s", "trunc_u", "convert_s", "convert_u"}
      BY <3>5 DEF WordOps, DivOps, BinaryOps
    <3>6. \/ \E o \in BinaryOps : Handler(o, BinaryOpI32(o, v2, v1))
          \/ Handler("rotl", Rotl(v2, v1)) \/ Handler("rotr", Rotr(v2, v1))
          \/ Handler("eqz", Bool(v1 = 0)) \/ Handler("clz", Clz(v1))
          \/ Handler("ctz", Ctz(v1)) \/ Handler("popcnt", Popcnt(v1))
          \/ Handler("extend", ExtI32(v1, v2))
          \/ op \in DivOps \cup {"trunc_s", "trunc_u", "convert_s", "convert_u"}
      BY <1>2 DEF Next, Handler, DivOps
    <3> QED
      BY <3>1, <3>2, <3>3, <3>4, <3>5, <3>6
  <2>3. op \in WordOps \cup DivOps \cup {"trunc_s", "trunc_u", "convert_s", "convert_u"}
    BY DEF WordInv
  <2>4. WordsMatch'
    BY <2>1, <2>2, <2>3 DEF WordsMatch
  <2> QED
    BY <2>1, <2>4 DEF WordInv
<1> QED
  BY <1>1, <1>2

\* Whatever the operands, and however wide the words: every bit of what a
\* shift, a rotation, a sign extension or a bitwise handler of weerun.c pushes
\* is the one WebAssembly asks for, sums and products wrap, comparisons are of
\* the signedness they name, and clz, ctz and popcnt count up to the width.
THEOREM WordsAreExact == Spec => []WordsMatch
<1>1. WordInv => WordsMatch
  BY DEF WordInv
<1> QED
  BY <1>1, InitWordInv, NextWordInv, PTL DEF Spec

=============================================================================
