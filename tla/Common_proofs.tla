---------------------------- MODULE Common_proofs ----------------------------
(***************************************************************************)
(* common.c: what WeeBuffer and LoadFile check at a small size holds for    *)
(* groups, numbers, buffers and files of any size.  What is emitted is read *)
(* back, the readers follow the grammar of LEB128 and stop at the end of    *)
(* their buffer, and a file is loaded whole or not at all.                  *)
(***************************************************************************)
EXTENDS WeeBuffer, LoadFile, TLAPS, WellFoundedInduction, FiniteSetTheorems, SequenceTheorems

-----------------------------------------------------------------------------
LEMMA Least ==
  ASSUME NEW M \in SUBSET Nat, M # {}
  PROVE  \E n \in M : \A m \in M : n <= m
<1>1. IsWellFoundedOn(OpToRel(<, Nat), Nat)
  BY NatLessThanWellFounded
<1>2. PICK n \in M : \A m \in M : ~ (<<m, n>> \in OpToRel(<, Nat))
  BY <1>1, WFMin
<1>3. \A m \in M : ~ (m < n)
  BY <1>2 DEF OpToRel
<1> QED
  BY <1>3

\* Induction up to N: a set with 0 that has k if it has k - 1 has all of 0..N.
LEMMA UpTo ==
  ASSUME NEW N \in Nat, NEW T, 0 \in T, \A k \in 1..N : k - 1 \in T => k \in T
  PROVE  0..N \subseteq T
<1> DEFINE M == (0..N) \ T
<1> SUFFICES ASSUME M # {} PROVE FALSE
  OBVIOUS
<1>1. M \in SUBSET Nat
  OBVIOUS
<1> HIDE DEF M
<1>2. PICK n \in M : \A m \in M : n <= m
  BY <1>1, Least
<1> USE DEF M
<1>3. n \in 1..N
  OBVIOUS
<1>4. n - 1 \in T
  BY <1>2, <1>3
<1> QED
  BY <1>3, <1>4

-----------------------------------------------------------------------------
(***************************************************************************)
(* Powers and digits.                                                      *)
(***************************************************************************)
LEMMA Widths ==
  /\ Group \in Nat /\ Group >= 2 /\ Width \in Nat /\ MaxLen \in Nat /\ MaxLen >= 2
  /\ LastBits \in 1..(Group - 1)
  /\ Width = Group * (MaxLen - 1) + LastBits
<1>1. Group \in Nat /\ Group >= 2 /\ Width \in Nat /\ Width > Group /\ Width % Group # 0
  BY LebAssumption DEF LebAssumption
<1>2. PICK q \in Int, r \in Int : q = Width \div Group /\ r = Width % Group
  BY <1>1
<1>3. r \in 0..(Group - 1) /\ q \in Nat /\ q >= 1
  BY <1>1, <1>2, SMTT(30)
<1>4. Width - Group * q = r
  BY <1>1, <1>2, SMTT(30)
<1>5. Width = Group * q + r
  <2>1. PICK w \in Nat : w = Width
    BY <1>1
  <2>2. PICK z \in Int : z = Group * q
    BY <1>1, <1>3
  <2> QED
    BY <1>3, <1>4, <2>1, <2>2
<1>6. MaxLen = q + 1 /\ MaxLen - 1 = q /\ LastBits = r
  BY <1>2, <1>3 DEF MaxLen, LastBits
<1> QED
  BY <1>1, <1>2, <1>3, <1>5, <1>6

\* Places of a number are below the bits of all its bytes.
LEMMA BitPlaces ==
  ASSUME NEW k \in 1..MaxLen
  PROVE  /\ Group * k \in 0..(Group * MaxLen) /\ Group * (k - 1) \in 0..(Group * MaxLen)
         /\ Group * k = Group * (k - 1) + Group
<1>1. Group \in Nat /\ MaxLen \in Nat /\ k \in Nat /\ k - 1 \in Nat /\ MaxLen - k \in Nat
  BY Widths
<1>2. PICK a \in Nat, b \in Nat, c \in Nat : a = k /\ b = k - 1 /\ c = MaxLen - k
  BY <1>1
<1>3. Group * a = Group * b + Group /\ Group * MaxLen = Group * a + Group * c
  BY <1>1, <1>2
<1>4. Group * a \in Nat /\ Group * b \in Nat /\ Group * c \in Nat
  BY <1>1, <1>2
<1> QED
  BY <1>1, <1>2, <1>3, <1>4

LEMMA PowerDoubles ==
  ASSUME NEW n \in 1..(Group * MaxLen)
  PROVE  2^n = 2 * 2^(n - 1)
<1>1. Group * MaxLen \in Nat
  BY Widths
<1>2. PICK one \in 0..(Group * MaxLen), m \in 0..(Group * MaxLen) :
        one = 1 /\ m = n - 1 /\ one + m = n
  BY <1>1
<1>3. one + m <= Group * MaxLen
  BY <1>1, <1>2
<1>4. 2^(one + m) = 2^one * 2^m
  BY <1>3, LebPowersAssumption
<1> QED
  BY <1>2, <1>4, LebPowersAssumption

Pow(k) == Base^k

LEMMA PowIs ==
  /\ Base \in Nat /\ Base >= 2 /\ Pow(0) = 1
  /\ \A k \in 0..MaxLen : Pow(k) \in Nat /\ Pow(k) >= 1
  /\ \A k \in 1..MaxLen : Pow(k) = Pow(k - 1) * Base
<1>1. /\ Group \in Nat /\ Group >= 2 /\ MaxLen \in Nat /\ MaxLen >= 1
      /\ Group * MaxLen \in Nat
  BY Widths
<1>2. Group * 1 = Group /\ Group * 0 = 0
  BY <1>1
<1>3. Group \in 0..(Group * MaxLen) /\ 1 \in 0..(Group * MaxLen) /\ Group - 1 \in 0..(Group * MaxLen)
      /\ 0 \in 0..(Group * MaxLen)
  <2>1. 1 \in 1..MaxLen
    BY <1>1
  <2>2. Group \in 0..(Group * MaxLen)
    BY <1>2, <2>1, BitPlaces
  <2> QED
    BY <1>1, <2>2
<1>4. Group \in 1..(Group * MaxLen)
  BY <1>1, <1>3
<1>5. 2^Group = 2 * 2^(Group - 1)
  BY <1>4, PowerDoubles
<1>6. 2^(Group - 1) \in Nat \ {0} /\ 2^1 = 2
  BY <1>3, LebPowersAssumption
<1>7. Base = 2 * 2^(Group - 1)
  BY <1>5 DEF Base
<1>8. Base \in Nat /\ Base >= 2
  BY <1>6, <1>7
<1>9. Pow(0) = 1
  <2>1. 0 \in 0..MaxLen
    BY <1>1
  <2>2. Base^0 = 2^(Group * 0)
    BY <2>1, LebPowersAssumption
  <2> QED
    BY <1>2, <2>2, LebPowersAssumption DEF Pow
<1>10. ASSUME NEW k \in 0..MaxLen PROVE Pow(k) \in Nat /\ Pow(k) >= 1
  <2>1. CASE k = 0
    BY <2>1, <1>9
  <2>2. CASE k # 0
    <3>1. k \in 1..MaxLen
      BY <2>2
    <3>2. Group * k \in 0..(Group * MaxLen)
      BY <3>1, BitPlaces
    <3>3. Base^k = 2^(Group * k) /\ 2^(Group * k) \in Nat \ {0}
      BY <3>2, LebPowersAssumption
    <3> QED
      BY <3>3 DEF Pow
  <2> QED
    BY <2>1, <2>2
<1>11. ASSUME NEW k \in 1..MaxLen PROVE Pow(k) = Pow(k - 1) * Base
  <2>1. k \in 0..MaxLen /\ k - 1 \in 0..MaxLen
    BY <1>1
  <2>2. /\ Group * k \in 0..(Group * MaxLen) /\ Group * (k - 1) \in 0..(Group * MaxLen)
        /\ Group * k = Group * (k - 1) + Group
    BY BitPlaces
  <2>3. Base^k = 2^(Group * k) /\ Base^(k - 1) = 2^(Group * (k - 1))
    BY <2>1, LebPowersAssumption
  <2>4. 2^(Group * (k - 1) + Group) = 2^(Group * (k - 1)) * 2^Group
    BY <1>1, <1>3, <2>2, LebPowersAssumption
  <2> QED
    BY <2>2, <2>3, <2>4 DEF Pow, Base
<1> QED
  BY <1>8, <1>9, <1>10, <1>11

\* The last byte holds LastBits bits of the number.
LEMMA WidthPow ==
  /\ 2^Width \in Nat \ {0} /\ 2^LastBits \in Nat \ {0} /\ 2^(LastBits - 1) \in Nat \ {0}
  /\ 2^Width = Pow(MaxLen - 1) * 2^LastBits
  /\ 2^LastBits = 2 * 2^(LastBits - 1)
  /\ 2^LastBits < Base
<1>1. /\ Group \in Nat /\ Group >= 2 /\ MaxLen \in Nat /\ MaxLen >= 1
      /\ LastBits \in 1..(Group - 1) /\ Width = Group * (MaxLen - 1) + LastBits
      /\ Group * MaxLen \in Nat /\ Width \in Nat
  BY Widths
<1>2. /\ MaxLen \in 1..MaxLen /\ MaxLen - 1 \in 0..MaxLen
      /\ Group * (MaxLen - 1) \in 0..(Group * MaxLen)
      /\ Group * MaxLen = Group * (MaxLen - 1) + Group
  BY <1>1, BitPlaces
<1>3. /\ Width \in 0..(Group * MaxLen) /\ LastBits \in 0..(Group * MaxLen)
      /\ LastBits - 1 \in 0..(Group * MaxLen) /\ 1 \in 0..(Group * MaxLen)
      /\ Group - LastBits \in 0..(Group * MaxLen) /\ Group \in 0..(Group * MaxLen)
      /\ (Group - LastBits) - 1 \in 0..(Group * MaxLen)
  BY <1>1, <1>2
<1>4. 2^(Group * (MaxLen - 1) + LastBits) = 2^(Group * (MaxLen - 1)) * 2^LastBits
  BY <1>1, <1>2, <1>3, LebPowersAssumption
<1>5. Pow(MaxLen - 1) = 2^(Group * (MaxLen - 1))
  BY <1>2, LebPowersAssumption DEF Pow
<1>6. 2^LastBits = 2 * 2^(LastBits - 1)
  <2>1. LastBits \in 1..(Group * MaxLen)
    BY <1>1, <1>3
  <2> QED
    BY <2>1, PowerDoubles
<1>7. 2^(LastBits + (Group - LastBits)) = 2^LastBits * 2^(Group - LastBits)
      /\ LastBits + (Group - LastBits) = Group
  BY <1>1, <1>3, LebPowersAssumption
<1>8. 2^(Group - LastBits) = 2 * 2^((Group - LastBits) - 1)
  <2>1. Group - LastBits \in 1..(Group * MaxLen)
    BY <1>1, <1>3
  <2> QED
    BY <2>1, PowerDoubles
<1>9. /\ 2^Width \in Nat \ {0} /\ 2^LastBits \in Nat \ {0} /\ 2^(LastBits - 1) \in Nat \ {0}
      /\ 2^((Group - LastBits) - 1) \in Nat \ {0} /\ 2^1 = 2
  BY <1>3, LebPowersAssumption
<1>10. 2^LastBits < Base
  <2>1. PICK a \in Nat \ {0}, c \in Nat \ {0} : a = 2^LastBits /\ c = 2^((Group - LastBits) - 1)
    BY <1>9
  <2>2. Base = a * (2 * c)
    BY <1>7, <1>8, <1>9, <2>1 DEF Base
  <2>3. PICK d \in Nat : c = d + 1
    BY <2>1
  <2>4. a * (2 * c) = 2 * a + 2 * (a * d) /\ a * d \in Nat
    BY <2>1, <2>3
  <2> QED
    BY <2>1, <2>2, <2>4
<1> QED
  BY <1>1, <1>4, <1>5, <1>6, <1>9, <1>10

-----------------------------------------------------------------------------
LEMMA DivMod ==
  ASSUME NEW a \in Nat, NEW b \in Nat, b >= 1
  PROVE  /\ a \div b \in Nat /\ a % b \in Nat /\ a % b < b
         /\ a - (a \div b) * b = a % b /\ a \div b <= a
<1>1. a \div b \in Nat /\ a % b \in Nat /\ a % b < b /\ a \div b <= a
  BY SMTT(30)
<1>2. a - (a \div b) * b = a % b
  BY SMTT(30)
<1> QED
  BY <1>1, <1>2

\* There is one quotient and one remainder.
LEMMA DivModUnique ==
  ASSUME NEW a \in Nat, NEW b \in Nat, b >= 1, NEW q \in Int, NEW r \in Nat,
         r < b, a - q * b = r
  PROVE  a \div b = q /\ a % b = r
<1>1. PICK d \in Nat, m \in Nat : d = a \div b /\ m = a % b /\ m < b /\ a - d * b = m
  BY DivMod
<1>2. (d - q) * b = r - m
  <2>1. (d - q) * b = d * b - q * b
    OBVIOUS
  <2>2. PICK x \in Int, y \in Int : x = d * b /\ y = q * b
    OBVIOUS
  <2>3. a - x = m /\ a - y = r
    BY <1>1, <2>2
  <2>4. x - y = r - m
    BY <1>1, <2>3
  <2> QED
    BY <2>1, <2>2, <2>4
<1>3. d - q = 0
  <2>1. PICK e \in Int : e = d - q
    OBVIOUS
  <2>2. e * b < b /\ -b < e * b /\ e * b \in Int
    BY <1>1, <1>2, <2>1
  <2>3. ~(e >= 1)
    <3> SUFFICES ASSUME e >= 1 PROVE FALSE
      OBVIOUS
    <3>1. PICK f \in Nat : e = f + 1
      OBVIOUS
    <3>2. e * b = f * b + b /\ f * b \in Nat
      BY <3>1
    <3> QED
      BY <2>2, <3>2
  <2>4. ~(e <= -1)
    <3> SUFFICES ASSUME e <= -1 PROVE FALSE
      OBVIOUS
    <3>1. PICK f \in Nat : e = -1 - f
      OBVIOUS
    <3>2. e * b = -(f * b) - b /\ f * b \in Nat
      BY <3>1
    <3> QED
      BY <2>2, <3>2
  <2> QED
    BY <2>1, <2>3, <2>4
<1>4. d = q
  BY <1>3
<1>5. m = r
  BY <1>1, <1>4
<1> QED
  BY <1>1, <1>4, <1>5

\* Dividing in two steps.
LEMMA DivDiv ==
  ASSUME NEW v \in Nat, NEW a \in Nat, NEW b \in Nat, a >= 1, b >= 1
  PROVE  /\ v \div (a * b) = (v \div a) \div b
         /\ v % (a * b) = (v % a) + ((v \div a) % b) * a
<1>1. PICK q \in Nat, r \in Nat : q = v \div a /\ r = v % a /\ r < a /\ v - q * a = r
  BY DivMod
<1>2. PICK at \in Nat, d \in Nat : at = q \div b /\ d = q % b /\ d < b /\ q - at * b = d
  BY DivMod
<1>3. a * b \in Nat /\ a * b >= 1
  <2>1. PICK c \in Nat : b = c + 1
    BY <1>2
  <2>2. a * b = a * c + a /\ a * c \in Nat
    BY <2>1
  <2> QED
    BY <2>2
<1>4. d * a \in Nat /\ r + d * a \in Nat /\ r + d * a < a * b
  <2>0. b - (d + 1) \in Nat
    BY <1>2
  <2>1. PICK c \in Nat : c = b - (d + 1)
    BY <2>0
  <2>2. b = (d + 1) + c
    BY <1>2, <2>1
  <2>3. a * b = d * a + a + a * c /\ a * c \in Nat /\ d * a \in Nat
    BY <2>2
  <2> QED
    BY <1>1, <2>3
<1>5. v - at * (a * b) = r + d * a
  <2>1. q * a = (at * b) * a + d * a
    <3>1. q = at * b + d
      BY <1>2
    <3> QED
      BY <3>1
  <2>2. (at * b) * a = at * (a * b) /\ at * (a * b) \in Nat /\ q * a \in Nat
    BY <1>3
  <2> QED
    BY <1>1, <1>4, <2>1, <2>2
<1>6. v \div (a * b) = at /\ v % (a * b) = r + d * a
  BY <1>3, <1>4, <1>5, DivModUnique
<1> QED
  BY <1>1, <1>2, <1>6

\* The digits of a number, and what is left of it above them.
LEMMA DigitIs ==
  ASSUME NEW v \in Nat, NEW k \in 1..MaxLen
  PROVE  /\ Digit(v, k) \in Nat /\ Digit(v, k) < Base
         /\ v % Pow(k) = (v % Pow(k - 1)) + Digit(v, k) * Pow(k - 1)
         /\ v \div Pow(k) = (v \div Pow(k - 1)) \div Base
         /\ v \div Pow(k) \in Nat /\ v % Pow(k - 1) \in Nat
<1>1. /\ Base \in Nat /\ Base >= 1 /\ Pow(k - 1) \in Nat /\ Pow(k - 1) >= 1
      /\ Pow(k) = Pow(k - 1) * Base /\ Pow(k) \in Nat /\ Pow(k) >= 1
  <2>1. k \in 0..MaxLen /\ k - 1 \in 0..MaxLen
    BY Widths
  <2> QED
    BY <2>1, PowIs
<1>2. PICK a \in Nat, b \in Nat : a = Pow(k - 1) /\ b = Base
  BY <1>1
<1>3. a >= 1 /\ b >= 1 /\ Pow(k) = a * b /\ a * b \in Nat /\ a * b >= 1
  BY <1>1, <1>2
<1>4. PICK q \in Nat : q = v \div a
  BY <1>3, DivMod
<1>5. Digit(v, k) = q % b
  BY <1>2, <1>4 DEF Digit, Pow
<1>6. q % b \in Nat /\ q % b < b /\ v % a \in Nat /\ v \div (a * b) \in Nat
  BY <1>3, DivMod
<1>7. v \div (a * b) = q \div b /\ v % (a * b) = (v % a) + (q % b) * a
  BY <1>3, <1>4, DivDiv, ZenonT(60)
<1> QED
  BY <1>2, <1>3, <1>4, <1>5, <1>6, <1>7

\* Sums of natural numbers exist.
LEMMA SumExists ==
  ASSUME NEW n \in Nat, NEW D, \A k \in 1..n : D[k] \in Nat
  PROVE  \E g : /\ g[0] = 0
                /\ \A k \in 1..n : g[k] = g[k - 1] + D[k]
                /\ \A k \in 0..n : g[k] \in Nat
<1> DEFINE Good(g, m) == /\ g[0] = 0
                         /\ \A k \in 1..m : g[k] = g[k - 1] + D[k]
                         /\ \A k \in 0..m : g[k] \in Nat
           T == {m \in 0..n : \E g : Good(g, m)}
<1>1. 0 \in T
  <2>1. Good([k \in 0..0 |-> 0], 0)
    OBVIOUS
  <2> HIDE DEF Good
  <2>2. \E g : Good(g, 0)
    BY <2>1
  <2> QED
    BY <2>2
<1>2. ASSUME NEW m \in 1..n, m - 1 \in T PROVE m \in T
  <2>1. PICK g : Good(g, m - 1)
    BY <1>2
  <2> DEFINE h == [k \in 0..m |-> IF k = m THEN g[m - 1] + D[m] ELSE g[k]]
  <2>2. h[0] = 0
    BY <2>1
  <2>3. \A k \in 0..(m - 1) : h[k] = g[k]
    OBVIOUS
  <2>4. h[m] = h[m - 1] + D[m] /\ h[m] \in Nat
    BY <2>1, <2>3
  <2>5. ASSUME NEW k \in 1..m PROVE h[k] = h[k - 1] + D[k]
    <3>1. CASE k = m
      BY <2>4, <3>1
    <3>2. CASE k # m
      <4>1. k \in 1..(m - 1) /\ k \in 0..(m - 1) /\ k - 1 \in 0..(m - 1)
        BY <3>2
      <4>2. h[k] = g[k] /\ h[k - 1] = g[k - 1]
        BY <2>3, <4>1
      <4> QED
        BY <2>1, <4>1, <4>2
    <3> QED
      BY <3>1, <3>2
  <2>6. \A k \in 0..m : h[k] \in Nat
    BY <2>1, <2>3, <2>4
  <2> HIDE DEF h
  <2> QED
    BY <2>2, <2>5, <2>6
<1> HIDE DEF T
<1>3. 0..n \subseteq T
  BY <1>1, <1>2, UpTo
<1>4. n \in T
  BY <1>3
<1> QED
  BY <1>4 DEF T

\* The payload of n bytes is any sum of their payloads.
LEMMA PayloadsIs ==
  ASSUME NEW data, NEW at, NEW n \in Nat, NEW g, g[0] = 0,
         \A k \in 1..n : g[k] = g[k - 1] + Payload(data[at + k - 1]) * Base^(k - 1)
  PROVE  Payloads(data, at, n) = g[n]
<1> DEFINE D(k) == Payload(data[at + k - 1]) * Base^(k - 1)
           Eqn(r) == r = [k \in 0..n |-> IF k = 0 THEN 0 ELSE r[k - 1] + D(k)]
           h == [k \in 0..n |-> g[k]]
           r == CHOOSE x : Eqn(x)
<1>1. Payloads(data, at, n) = r[n]
  BY DEF Payloads
<1> HIDE DEF D
<1>2. \A k \in 1..n : g[k] = g[k - 1] + D(k)
  BY DEF D
<1>3. Eqn(h)
  <2>1. ASSUME NEW k \in 0..n
        PROVE  h[k] = IF k = 0 THEN 0 ELSE h[k - 1] + D(k)
    <3>1. CASE k = 0
      BY <3>1
    <3>2. CASE k # 0
      <4>1. k \in 1..n /\ k - 1 \in 0..n
        BY <3>2
      <4> QED
        BY <1>2, <4>1
    <3> QED
      BY <3>1, <3>2
  <2> QED
    BY <2>1
<1> HIDE DEF h
<1>4. Eqn(r)
  BY <1>3
<1> HIDE DEF r
<1> DEFINE T == {k \in 0..n : r[k] = g[k]}
<1>5. 0 \in T
  BY <1>4
<1>6. ASSUME NEW k \in 1..n, k - 1 \in T PROVE k \in T
  <2>1. r[k] = r[k - 1] + D(k)
    BY <1>4
  <2> QED
    BY <1>2, <1>6, <2>1
<1> HIDE DEF T
<1>7. 0..n \subseteq T
  BY <1>5, <1>6, UpTo
<1>8. n \in T
  BY <1>7
<1> QED
  BY <1>1, <1>8 DEF T

\* Where the decoders' loop ends.
Ends(data, at, lim, k) == at + k > lim \/ k = MaxLen \/ ~More(data[at + k - 1])

LEMMA LebEndIs ==
  ASSUME NEW data, NEW at, NEW lim
  PROVE  /\ LebEnd(data, at, lim) \in 1..MaxLen
         /\ Ends(data, at, lim, LebEnd(data, at, lim))
         /\ \A j \in 1..(LebEnd(data, at, lim) - 1) : ~Ends(data, at, lim, j)
         /\ \A k \in 1..MaxLen :
              (Ends(data, at, lim, k) /\ \A j \in 1..(k - 1) : ~Ends(data, at, lim, j))
                => LebEnd(data, at, lim) = k
<1> DEFINE E(k) == Ends(data, at, lim, k)
           First(k) == E(k) /\ \A j \in 1..(k - 1) : ~E(j)
           M == {k \in 1..MaxLen : E(k)}
<1>1. LebEnd(data, at, lim) = CHOOSE k \in 1..MaxLen : First(k)
  BY DEF LebEnd, Ends
<1>2. MaxLen \in Nat /\ MaxLen >= 1 /\ E(MaxLen)
  BY Widths DEF Ends
<1> HIDE DEF E
<1>3. M \in SUBSET Nat /\ MaxLen \in M
  BY <1>2
<1>4. PICK n \in M : \A m \in M : n <= m
  <2> HIDE DEF M
  <2> QED
    BY <1>3, Least
<1>5. n \in 1..MaxLen /\ First(n)
  BY <1>2, <1>4
<1> DEFINE c == CHOOSE k \in 1..MaxLen : First(k)
<1> HIDE DEF First
<1>6. c \in 1..MaxLen /\ First(c)
  BY <1>5
<1> HIDE DEF c
<1>7. ASSUME NEW k \in 1..MaxLen, First(k) PROVE c = k
  <2>1. ~(c < k)
    BY <1>2, <1>6, <1>7 DEF First
  <2>2. ~(k < c)
    BY <1>2, <1>6, <1>7 DEF First
  <2> QED
    BY <1>2, <1>6, <2>1, <2>2
<1> QED
  BY <1>1, <1>6, <1>7 DEF First, E, c

-----------------------------------------------------------------------------
(***************************************************************************)
(* What is read of any bytes: a number of Width bits, and a pointer that   *)
(* moves on, and not behind the limit.                                     *)
(***************************************************************************)

Numbers == 0..(2^Width - 1)

LEMMA PayloadsRange ==
  ASSUME NEW data, NEW at \in Nat, NEW n \in 0..MaxLen,
         \A k \in 1..n : data[at + k - 1] \in Nat
  PROVE  Payloads(data, at, n) \in Nat
<1> DEFINE D == [k \in 1..n |-> Payload(data[at + k - 1]) * Base^(k - 1)]
<1>1. n \in Nat /\ MaxLen \in Nat
  BY Widths
<1>2. ASSUME NEW k \in 1..n PROVE D[k] \in Nat
  <2>1. k - 1 \in 0..MaxLen
    BY <1>1
  <2>2. /\ Pow(k - 1) \in Nat /\ Base^(k - 1) = Pow(k - 1)
        /\ Base \in Nat /\ Base >= 1 /\ data[at + k - 1] \in Nat
    BY <2>1, PowIs DEF Pow
  <2>3. data[at + k - 1] % Base \in Nat
    BY <2>2, DivMod
  <2>4. (data[at + k - 1] % Base) * Pow(k - 1) \in Nat
    BY <2>2, <2>3
  <2> QED
    BY <2>2, <2>4 DEF Payload
<1>3. \A k \in 1..n : D[k] = Payload(data[at + k - 1]) * Base^(k - 1)
  OBVIOUS
<1> HIDE DEF D
<1>4. PICK g : /\ g[0] = 0
               /\ \A k \in 1..n : g[k] = g[k - 1] + D[k]
               /\ \A k \in 0..n : g[k] \in Nat
  BY <1>1, <1>2, SumExists
<1>5. Payloads(data, at, n) = g[n]
  BY <1>1, <1>3, <1>4, PayloadsIs
<1> QED
  BY <1>1, <1>4, <1>5

LEMMA LowBits ==
  ASSUME NEW v \in Nat
  PROVE  v % 2^Width \in Numbers
<1>1. PICK b \in Nat : b = 2^Width /\ b >= 1
  BY WidthPow
<1>2. v % b \in Nat /\ v % b < b
  BY <1>1, DivMod
<1> QED
  BY <1>1, <1>2 DEF Numbers

LEMMA DecodeRange ==
  ASSUME NEW data, NEW at \in Nat, NEW lim \in Nat, NEW signed, at < lim,
         \A i \in at..(lim - 1) : data[i] \in Nat
  PROVE  /\ DecodeLeb(data, at, lim, signed).len \in Int
         /\ DecodeLeb(data, at, lim, signed).len <= lim - at
         /\ ~signed => DecodeLeb(data, at, lim, signed).val \in Numbers
<1> DEFINE k == LebEnd(data, at, lim)
           d == DecodeLeb(data, at, lim, signed)
<1>1. k \in 1..MaxLen /\ k \in Nat
  BY LebEndIs, Widths
<1>2. 0 \in Numbers
  BY WidthPow DEF Numbers
<1>3. CASE at + k > lim
  <2>1. d = [val |-> 0, len |-> -(k - 1)]
    BY <1>1, <1>3 DEF DecodeLeb
  <2> HIDE DEF k, d
  <2>2. d.val = 0 /\ d.len = -(k - 1)
    BY <2>1
  <2>3. d.len \in Int /\ d.len <= lim - at /\ d.val \in Numbers
    BY <1>1, <1>2, <2>2
  <2> QED
    BY <2>3 DEF d
<1>4. CASE at + k <= lim
  <2> DEFINE Bad == k = MaxLen /\ (More(data[at + k - 1]) \/ ~UpperLegal(data[at + k - 1], signed))
             v == Payloads(data, at, k)
  <2>1. d = IF Bad THEN [val |-> 0, len |-> -k] ELSE [val |-> LebValue(v, k, signed), len |-> k]
    BY <1>1, <1>4 DEF DecodeLeb
  <2>2. v \in Nat
    <3>1. \A j \in 1..k : data[at + j - 1] \in Nat
      BY <1>1, <1>4
    <3>2. k \in 0..MaxLen
      BY <1>1
    <3> QED
      BY <3>1, <3>2, PayloadsRange
  <2>3. ~signed => LebValue(v, k, signed) \in Numbers
    BY <2>2, LowBits DEF LebValue
  <2> HIDE DEF Bad, v, k, d
  <2>4. /\ d.val = 0 \/ d.val = LebValue(v, k, signed)
        /\ d.len = -k \/ d.len = k
    BY <2>1
  <2>5. d.len \in Int /\ d.len <= lim - at
    BY <1>1, <1>4, <2>4
  <2>6. ~signed => d.val \in Numbers
    BY <1>2, <2>3, <2>4
  <2> QED
    BY <2>5, <2>6 DEF d
<1>5. at + k > lim \/ at + k <= lim
  BY <1>1
<1> QED
  BY <1>3, <1>4, <1>5

LEMMA ReadLebIs ==
  ASSUME NEW data, NEW at \in Nat, NEW lim \in Nat, NEW signed
  PROVE  /\ at >= lim => ReadLeb(data, at, lim, signed) = [val |-> 0, ptr |-> at]
         /\ at < lim =>
              ReadLeb(data, at, lim, signed) =
                [val |-> DecodeLeb(data, at, lim, signed).val,
                 ptr |-> AfterLeb(at, lim, DecodeLeb(data, at, lim, signed).len)]
<1>1. [ptr |-> at, end |-> lim] \in [ptr : Nat, end : Nat]
  OBVIOUS
<1> DEFINE b == [ptr |-> at, end |-> lim]
<1>2. b.ptr = at /\ b.end = lim
  OBVIOUS
<1> HIDE DEF b
<1>3. ReadLeb(data, at, lim, signed) =
        IF b.ptr >= b.end THEN [val |-> 0, ptr |-> b.ptr]
        ELSE [val |-> DecodeLeb(data, b.ptr, b.end, signed).val,
              ptr |-> AfterLeb(b.ptr, b.end, DecodeLeb(data, b.ptr, b.end, signed).len)]
  BY <1>1 DEF ReadLeb, b
<1> QED
  BY <1>2, <1>3

LEMMA ReadRange ==
  ASSUME NEW data, NEW at \in Nat, NEW lim \in Nat, NEW signed,
         \A i \in at..(lim - 1) : data[i] \in Nat,
         NEW r, r = ReadLeb(data, at, lim, signed)
  PROVE  /\ r.ptr \in Nat
         /\ at >= lim => r.ptr = at
         /\ at < lim => at < r.ptr /\ r.ptr <= lim
         /\ ~signed => r.val \in Numbers
<1>1. 0 \in Numbers
  BY WidthPow DEF Numbers
<1>2. CASE at >= lim
  BY <1>1, <1>2, ReadLebIs
<1>3. CASE at < lim
  <2>1. /\ DecodeLeb(data, at, lim, signed).len \in Int
        /\ DecodeLeb(data, at, lim, signed).len <= lim - at
        /\ ~signed => DecodeLeb(data, at, lim, signed).val \in Numbers
    BY <1>3, DecodeRange
  <2> QED
    BY <1>3, <2>1, ReadLebIs DEF AfterLeb
<1> QED
  BY <1>2, <1>3

-----------------------------------------------------------------------------
(***************************************************************************)
(* What is emitted is read back.                                           *)
(***************************************************************************)
LEMMA SmallMod ==
  ASSUME NEW a \in Nat, NEW b \in Nat, a < b
  PROVE  a \div b = 0 /\ a % b = a
<1>1. a - 0 * b = a
  OBVIOUS
<1> QED
  BY <1>1, DivModUnique

\* A number fits the width: MaxLen bytes hold all of it.
LEMMA NumberFits ==
  ASSUME NEW v \in Numbers
  PROVE  /\ v \in Nat /\ v < 2^Width /\ v < Pow(MaxLen)
         /\ v % Pow(MaxLen) = v /\ v \div Pow(MaxLen) = 0
<1>1. PICK w \in Nat, l \in Nat, a \in Nat, b \in Nat :
        w = 2^Width /\ l = 2^LastBits /\ a = Pow(MaxLen - 1) /\ b = Base
  <2>1. MaxLen - 1 \in 0..MaxLen
    BY Widths
  <2> QED
    BY <2>1, WidthPow, PowIs
<1>2. w = a * l /\ l < b /\ a >= 1
  <2>1. MaxLen - 1 \in 0..MaxLen
    BY Widths
  <2> QED
    BY <1>1, <2>1, WidthPow, PowIs
<1>3. Pow(MaxLen) = a * b /\ Pow(MaxLen) \in Nat
  <2>1. MaxLen \in 1..MaxLen /\ MaxLen \in 0..MaxLen
    BY Widths
  <2> QED
    BY <1>1, <2>1, PowIs
<1>4. v \in Nat /\ v < w
  BY <1>1 DEF Numbers
<1>5. a * l <= a * b
  <2>1. PICK c \in Nat : c = b - l
    BY <1>2
  <2>2. b = l + c
    BY <1>2, <2>1
  <2>3. a * b = a * l + a * c /\ a * c \in Nat /\ a * l \in Nat
    BY <2>2
  <2> QED
    BY <2>3
<1>6. v < Pow(MaxLen)
  <2>1. PICK x \in Nat, y \in Nat : x = a * l /\ y = a * b
    OBVIOUS
  <2> QED
    BY <1>2, <1>3, <1>4, <1>5, <2>1
<1>7. v % Pow(MaxLen) = v /\ v \div Pow(MaxLen) = 0
  BY <1>3, <1>4, <1>6, SmallMod
<1> QED
  BY <1>1, <1>4, <1>6, <1>7

\* The last byte of a number in full length is legal.
LEMMA LastDigitLegal ==
  ASSUME NEW v \in Numbers
  PROVE  Digit(v, MaxLen) \div 2^(LastBits - 1) \in {0, 1}
<1>1. PICK w \in Nat, l \in Nat, a \in Nat, b \in Nat, h \in Nat :
        /\ w = 2^Width /\ l = 2^LastBits /\ a = Pow(MaxLen - 1) /\ b = Base
        /\ h = 2^(LastBits - 1)
  <2>1. MaxLen - 1 \in 0..MaxLen
    BY Widths
  <2> QED
    BY <2>1, WidthPow, PowIs
<1>2. w = a * l /\ l < b /\ a >= 1 /\ l = 2 * h /\ h >= 1
  <2>1. MaxLen - 1 \in 0..MaxLen
    BY Widths
  <2> QED
    BY <1>1, <2>1, WidthPow, PowIs
<1>3. v \in Nat /\ v < w
  BY <1>1, NumberFits
<1>4. PICK q \in Nat, r \in Nat : q = v \div a /\ r = v % a /\ v - q * a = r
  <2>1. v \div a \in Nat /\ v % a \in Nat /\ v - (v \div a) * a = v % a
    BY <1>2, <1>3, DivMod
  <2> QED
    BY <2>1
<1>5. q < l
  <2> SUFFICES ASSUME ~(q < l) PROVE FALSE
    OBVIOUS
  <2>1. q - l \in Nat
    OBVIOUS
  <2>2. PICK c \in Nat : c = q - l
    BY <2>1
  <2>3. q = l + c
    BY <2>2
  <2>4. q * a = a * l + a * c /\ a * c \in Nat /\ a * l \in Nat
    BY <2>3
  <2>5. PICK x \in Nat, y \in Nat : x = a * l /\ y = a * c
    OBVIOUS
  <2> QED
    BY <1>2, <1>3, <1>4, <2>4, <2>5
<1>6. Digit(v, MaxLen) = q
  <2>1. q % b = q
    BY <1>2, <1>5, SmallMod
  <2> QED
    BY <1>1, <1>4, <2>1 DEF Digit, Pow
<1>7. q \div h \in {0, 1}
  <2>1. CASE q < h
    BY <2>1, SmallMod
  <2>2. CASE ~(q < h)
    <3>1. q - h \in Nat
      BY <2>2
    <3>2. PICK s \in Nat : s = q - h
      BY <3>1
    <3>3. s < h /\ 1 \in Int /\ q - 1 * h = s
      BY <1>2, <1>5, <3>2
    <3>4. q \div h = 1
      BY <1>2, <3>3, DivModUnique
    <3> QED
      BY <3>4
  <2> QED
    BY <2>1, <2>2
<1> QED
  BY <1>1, <1>6, <1>7

LEMMA PayloadOf ==
  ASSUME NEW d \in Nat, d < Base
  PROVE  /\ Payload(d) = d /\ ~More(d)
         /\ Payload(d + Base) = d /\ More(d + Base)
<1>1. PICK b \in Nat : b = Base /\ b >= 1
  BY PowIs
<1>2. d % b = d
  BY <1>1, SmallMod
<1>3. (d + b) % b = d
  <2>1. d + b \in Nat /\ 1 \in Int /\ (d + b) - 1 * b = d
    OBVIOUS
  <2> QED
    BY <1>1, <2>1, DivModUnique
<1> QED
  BY <1>1, <1>2, <1>3 DEF Payload, More

\* The n bytes at at are those of v.
Holds(data, at, v, n) == \A k \in 1..n : data[at + k - 1] = EmitPadded(v, n)[k]

LEMMA HeldPayload ==
  ASSUME NEW data, NEW at \in Nat, NEW v \in Nat, NEW n \in 1..MaxLen, Holds(data, at, v, n)
  PROVE  Payloads(data, at, n) = v % Pow(n)
<1> DEFINE g == [k \in 0..n |-> v % Pow(k)]
<1>1. n \in Nat /\ MaxLen \in Nat
  BY Widths
<1>2. g[0] = 0
  <2>1. Pow(0) = 1 /\ v - v * 1 = 0 /\ v \in Int
    BY PowIs
  <2>2. v % 1 = 0
    BY <2>1, DivModUnique
  <2> QED
    BY <2>1, <2>2
<1>3. ASSUME NEW k \in 1..n
      PROVE  g[k] = g[k - 1] + Payload(data[at + k - 1]) * Base^(k - 1)
  <2>1. k \in 1..MaxLen /\ k \in 0..n /\ k - 1 \in 0..n
    BY <1>1
  <2>2. /\ Digit(v, k) \in Nat /\ Digit(v, k) < Base
        /\ v % Pow(k) = (v % Pow(k - 1)) + Digit(v, k) * Pow(k - 1)
    BY <2>1, DigitIs
  <2>3. data[at + k - 1] = Digit(v, k) + (IF k < n THEN Base ELSE 0)
    BY DEF Holds, EmitPadded
  <2>4. data[at + k - 1] = Digit(v, k) \/ data[at + k - 1] = Digit(v, k) + Base
    BY <2>2, <2>3
  <2>5. Payload(data[at + k - 1]) = Digit(v, k)
    BY <2>2, <2>4, PayloadOf
  <2> QED
    BY <2>1, <2>2, <2>5 DEF Pow
<1>4. g[n] = v % Pow(n)
  BY <1>1
<1> HIDE DEF g
<1> QED
  BY <1>1, <1>2, <1>3, <1>4, PayloadsIs

LEMMA HeldEnd ==
  ASSUME NEW data, NEW at \in Nat, NEW lim \in Nat, NEW v \in Nat, NEW n \in 1..MaxLen,
         at + n <= lim, Holds(data, at, v, n)
  PROVE  LebEnd(data, at, lim) = n /\ ~More(data[at + n - 1])
<1>1. n \in Nat /\ MaxLen \in Nat
  BY Widths
<1>2. ASSUME NEW k \in 1..n
      PROVE  IF k < n THEN More(data[at + k - 1]) ELSE ~More(data[at + k - 1])
  <2>1. Digit(v, k) \in Nat /\ Digit(v, k) < Base
    BY <1>1, DigitIs
  <2>2. data[at + k - 1] = Digit(v, k) + (IF k < n THEN Base ELSE 0)
    BY DEF Holds, EmitPadded
  <2>3. data[at + k - 1] = IF k < n THEN Digit(v, k) + Base ELSE Digit(v, k)
    BY <2>1, <2>2
  <2> QED
    BY <2>1, <2>3, PayloadOf
<1>3. \A j \in 1..(n - 1) : ~Ends(data, at, lim, j)
  BY <1>1, <1>2 DEF Ends
<1>4. ~More(data[at + n - 1])
  BY <1>1, <1>2
<1>5. Ends(data, at, lim, n)
  BY <1>4 DEF Ends
<1> QED
  BY <1>3, <1>4, <1>5, LebEndIs

\* A number in n bytes is read back, but for the bits that n bytes have no
\* place for.
LEMMA EmittedIsRead ==
  ASSUME NEW data, NEW at \in Nat, NEW lim \in Nat, NEW v \in Numbers, NEW n \in 1..MaxLen,
         NEW signed, ~signed, at + n <= lim, Holds(data, at, v, n)
  PROVE  DecodeLeb(data, at, lim, signed) = [val |-> v % Pow(n), len |-> n]
<1>1. n \in Nat /\ MaxLen \in Nat /\ v \in Nat
  BY Widths, NumberFits
<1>2. LebEnd(data, at, lim) = n /\ ~More(data[at + n - 1])
  BY <1>1, HeldEnd
<1>3. Payloads(data, at, n) = v % Pow(n)
  BY <1>1, HeldPayload
<1>4. n = MaxLen => UpperLegal(data[at + n - 1], signed)
  <2> SUFFICES ASSUME n = MaxLen PROVE UpperLegal(data[at + n - 1], signed)
    OBVIOUS
  <2>1. Digit(v, n) \in Nat /\ Digit(v, n) < Base
    BY <1>1, DigitIs
  <2>2. data[at + n - 1] = Digit(v, n) + (IF n < n THEN Base ELSE 0)
    BY <1>1 DEF Holds, EmitPadded
  <2>3. data[at + n - 1] = Digit(v, n)
    BY <1>1, <2>1, <2>2
  <2>4. Payload(data[at + n - 1]) = Digit(v, n)
    BY <2>1, <2>3, PayloadOf
  <2>5. Digit(v, n) \div 2^(LastBits - 1) \in {0, 1}
    BY LastDigitLegal
  <2> QED
    BY <2>4, <2>5 DEF UpperLegal
<1>5. LebValue(v % Pow(n), n, signed) = v % Pow(n)
  <2>1. Pow(n) \in Nat /\ Pow(n) >= 1
    BY <1>1, PowIs
  <2>2. PICK m \in Nat : m = v % Pow(n)
    BY <1>1, <2>1, DivMod
  <2>3. PICK d \in Nat : d = (v \div Pow(n)) * Pow(n) /\ v - d = m
    <3>1. PICK q \in Nat, b \in Nat : q = v \div Pow(n) /\ b = Pow(n) /\ v - q * b = m
      BY <1>1, <2>1, <2>2, DivMod
    <3>2. q * b \in Nat
      OBVIOUS
    <3> QED
      BY <3>1, <3>2
  <2>4. PICK w \in Nat : w = 2^Width /\ v < w
    BY WidthPow, NumberFits
  <2>5. m < w
    BY <1>1, <2>3, <2>4
  <2>6. m % w = m
    BY <2>5, SmallMod
  <2> QED
    BY <2>2, <2>4, <2>6 DEF LebValue
<1> QED
  BY <1>1, <1>2, <1>3, <1>4, <1>5 DEF DecodeLeb

\* The shortest form of a number is the form in a number of bytes that holds
\* all of it.
LEMMA EmitLebIs ==
  ASSUME NEW v \in Numbers
  PROVE  \E n \in 1..MaxLen : EmitLeb(v) = EmitPadded(v, n) /\ v % Pow(n) = v
<1> DEFINE Gone(k) == v \div Base^k = 0
           First(n) == Gone(n) /\ \A j \in 1..(n - 1) : ~Gone(j)
           M == {k \in 1..MaxLen : Gone(k)}
           c == CHOOSE n \in 1..MaxLen : First(n)
<1>1. EmitLeb(v) = EmitPadded(v, c)
  BY DEF EmitLeb
<1>2. MaxLen \in Nat /\ MaxLen >= 1 /\ Gone(MaxLen)
  BY Widths, NumberFits DEF Pow
<1> HIDE DEF Gone
<1>3. M \in SUBSET Nat /\ MaxLen \in M
  BY <1>2
<1>4. PICK n \in M : \A m \in M : n <= m
  <2> HIDE DEF M
  <2> QED
    BY <1>3, Least
<1>5. n \in 1..MaxLen /\ First(n)
  BY <1>2, <1>4
<1> HIDE DEF First
<1>6. c \in 1..MaxLen /\ First(c)
  BY <1>5
<1> HIDE DEF c
<1>7. v \div Pow(c) = 0
  BY <1>6 DEF First, Gone, Pow
<1>8. v % Pow(c) = v
  <2>1. v \in Nat /\ c \in 0..MaxLen
    BY <1>2, <1>6, NumberFits
  <2>2. PICK b \in Nat : b = Pow(c) /\ b >= 1
    BY <2>1, PowIs
  <2>3. v - (v \div b) * b = v % b
    BY <2>1, <2>2, DivMod
  <2>4. v \div b = 0 /\ 0 * b = 0
    BY <1>7, <2>2
  <2>5. v - 0 = v % b
    BY <2>3, <2>4
  <2> QED
    BY <2>1, <2>2, <2>5
<1> QED
  BY <1>1, <1>6, <1>8

-----------------------------------------------------------------------------
(***************************************************************************)
(* The readers of a buffer, in any order.                                  *)
(***************************************************************************)
\* The invariant of a buffer.
BInv ==
  /\ buf \in Seq(Nat)
  /\ \A i \in 1..Len(buf) : buf[i] < 2 * Base
  /\ ptr \in Nat \ {0}
  /\ last.call = "u32leb" => last.val \in Numbers

LEMMA BufferReads ==
  ASSUME BInv, NEW signed,
         NEW r, r = ReadLeb(buf, ptr, limit, signed)
  PROVE  /\ r.ptr \in Nat \ {0}
         /\ r.ptr = ptr \/ (ptr < r.ptr /\ r.ptr <= limit)
         /\ ~signed => r.val \in Numbers
<1>1. ptr \in Nat /\ ptr # 0 /\ limit \in Nat
  BY DEF BInv, limit
<1>2. \A i \in ptr..(limit - 1) : buf[i] \in Nat
  BY DEF BInv, limit
<1>3. r = ReadLeb(buf, ptr, limit, signed)
  OBVIOUS
<1>4. /\ r.ptr \in Nat
      /\ ptr >= limit => r.ptr = ptr
      /\ ptr < limit => ptr < r.ptr /\ r.ptr <= limit
      /\ ~signed => r.val \in Numbers
  <2>1. PICK at \in Nat, l \in Nat : at = ptr /\ l = limit
    BY <1>1
  <2>2. \A i \in at..(l - 1) : buf[i] \in Nat
    BY <1>2, <2>1
  <2>3. r = ReadLeb(buf, at, l, signed)
    BY <1>3, <2>1
  <2>4. /\ r.ptr \in Nat
        /\ at >= l => r.ptr = at
        /\ at < l => at < r.ptr /\ r.ptr <= l
        /\ ~signed => r.val \in Numbers
    BY <2>2, <2>3, ReadRange
  <2> QED
    BY <2>1, <2>4
<1> QED
  BY <1>1, <1>4

LEMMA BufferInit ==
  ASSUME Init
  PROVE  BInv
<1>1. Base \in Nat
  BY PowIs
<1>2. buf \in Seq(0..(2 * Base - 1))
  BY <1>1, BufferAssumption DEF BufferAssumption, Init
<1>3. 0..(2 * Base - 1) \subseteq Nat
  BY <1>1
<1>4. buf \in Seq(Nat)
  <2> DEFINE S == 0..(2 * Base - 1)
  <2>1. S \subseteq Nat /\ buf \in Seq(S)
    BY <1>2, <1>3
  <2> HIDE DEF S
  <2>2. Len(buf) \in Nat /\ buf = [i \in 1..Len(buf) |-> buf[i]]
    BY <2>1
  <2>3. ASSUME NEW i \in 1..Len(buf) PROVE buf[i] \in Nat
    <3>1. buf[i] \in S
      BY <2>1
    <3> QED
      BY <2>1, <3>1
  <2> QED
    BY <2>2, <2>3
<1>5. ASSUME NEW i \in 1..Len(buf) PROVE buf[i] < 2 * Base
  <2> DEFINE S == 0..(2 * Base - 1)
  <2>1. buf \in Seq(S)
    BY <1>2
  <2> HIDE DEF S
  <2>2. buf[i] \in S
    BY <2>1
  <2> USE DEF S
  <2> QED
    BY <1>1, <2>2
<1> QED
  BY <1>4, <1>5 DEF Init, BInv

LEMMA BufferStep ==
  ASSUME BInv, [Next]_vars
  PROVE  /\ BInv'
         /\ last'.call # "u32" \/ UNCHANGED vars
              => ptr' = ptr \/ (ptr < ptr' /\ ptr' <= limit)
<1>1. ptr \in Nat /\ ptr # 0 /\ limit \in Nat /\ U32Bytes \in Nat /\ buf \in Seq(Nat)
  BY BufferAssumption DEF BInv, limit, BufferAssumption
<1> DEFINE Good == /\ BInv'
                   /\ last'.call # "u32" => ptr' = ptr \/ (ptr < ptr' /\ ptr' <= limit)
<1>2. ASSUME ReadU32Leb PROVE Good
  <2>1. ~FALSE /\ FALSE \in BOOLEAN
    OBVIOUS
  <2>2. PICK r : /\ r = ReadLeb(buf, ptr, limit, FALSE)
                 /\ r.ptr \in Nat \ {0} /\ r.val \in Numbers
                 /\ r.ptr = ptr \/ (ptr < r.ptr /\ r.ptr <= limit)
    BY <2>1, BufferReads
  <2>3. UNCHANGED buf /\ ptr' = r.ptr /\ last'.val = r.val
    BY <1>2, <2>2 DEF ReadU32Leb, CallLeb, Return
  <2> QED
    BY <1>1, <2>2, <2>3 DEF BInv
<1>3. ASSUME ReadI32Leb PROVE Good
  <2>1. TRUE \in BOOLEAN
    OBVIOUS
  <2>2. PICK r : /\ r = ReadLeb(buf, ptr, limit, TRUE)
                 /\ r.ptr \in Nat \ {0}
                 /\ r.ptr = ptr \/ (ptr < r.ptr /\ r.ptr <= limit)
    BY <2>1, BufferReads
  <2>3. UNCHANGED buf /\ ptr' = r.ptr /\ last'.call = "i32leb"
    BY <1>3, <2>2 DEF ReadI32Leb, CallLeb, Return
  <2> QED
    BY <1>1, <2>2, <2>3 DEF BInv
<1>4. ASSUME ReadU8 PROVE Good
  BY <1>1, <1>4 DEF ReadU8, Return, BInv
<1>5. ASSUME ReadU32 PROVE Good
  BY <1>1, <1>5 DEF ReadU32, Return, BInv
<1>6. ASSUME ReadU64 PROVE Good
  BY <1>1, <1>6 DEF ReadU64, Return, BInv
<1>7. ASSUME ReadString PROVE Good
  <2> DEFINE r == ReadLeb(buf, ptr, limit, FALSE)
  <2>1. ~FALSE /\ FALSE \in BOOLEAN
    OBVIOUS
  <2>2. /\ r.ptr \in Nat \ {0} /\ r.val \in Numbers
        /\ r.ptr = ptr \/ (ptr < r.ptr /\ r.ptr <= limit)
    BY <2>1, BufferReads
  <2>3. r.val \in Nat
    BY <2>2, NumberFits
  <2>4. UNCHANGED buf
    BY <1>7 DEF ReadString
  <2>5. CASE r.ptr + r.val > limit
    <3>1. ptr' = r.ptr /\ Return("string", <<>>)
      BY <1>7, <2>5 DEF ReadString
    <3>2. last'.call = "string"
      BY <3>1 DEF Return
    <3> QED
      BY <1>1, <2>2, <2>3, <2>4, <3>1, <3>2 DEF BInv
  <2>6. CASE ~(r.ptr + r.val > limit)
    <3>1. ptr' = r.ptr + r.val /\ Return("string", SubSeq(buf, r.ptr, r.ptr + r.val - 1))
      BY <1>7, <2>6 DEF ReadString
    <3>2. last'.call = "string"
      BY <3>1 DEF Return
    <3> HIDE DEF r
    <3> QED
      BY <1>1, <2>2, <2>3, <2>4, <2>6, <3>1, <3>2 DEF BInv
  <2> QED
    BY <2>5, <2>6
<1>8. ASSUME UNCHANGED vars PROVE BInv' /\ ptr' = ptr
  BY <1>8 DEF vars, BInv
<1> QED
  BY <1>2, <1>3, <1>4, <1>5, <1>6, <1>7, <1>8 DEF Next

EmittedSeq(v, n) == EmitPadded(v, n) \in Seq(Nat) /\ Len(EmitPadded(v, n)) = n

LEMMA EmittedIsSeq ==
  ASSUME NEW v \in Nat, NEW n \in 1..MaxLen
  PROVE  EmittedSeq(v, n)
<1>1. n \in Nat /\ MaxLen \in Nat
  BY Widths
<1>2. ASSUME NEW k \in 1..n PROVE Digit(v, k) + (IF k < n THEN Base ELSE 0) \in Nat
  <2>1. k \in 1..MaxLen
    BY <1>1
  <2>2. Digit(v, k) \in Nat /\ Base \in Nat
    BY <2>1, DigitIs, PowIs
  <2> QED
    BY <2>2
<1> QED
  BY <1>1, <1>2 DEF EmitPadded, EmittedSeq

\* What n bytes emitted in front of anything are read as.
LEMMA Reread ==
  ASSUME NEW v \in Numbers, NEW n \in 1..MaxLen, NEW rest \in Seq(Nat), NEW signed, ~signed
  PROVE  LET data == EmitPadded(v, n) \o rest
         IN DecodeLeb(data, 1, Len(data) + 1, signed) = [val |-> v % Pow(n), len |-> n]
<1> DEFINE e == EmitPadded(v, n)
           data == e \o rest
<1>1. n \in Nat /\ MaxLen \in Nat /\ v \in Nat
  BY Widths, NumberFits
<1>2. e \in Seq(Nat) /\ Len(e) = n
  BY <1>1, EmittedIsSeq DEF EmittedSeq
<1> HIDE DEF e
<1>3. data \in Seq(Nat) /\ Len(data) = n + Len(rest) /\ Len(rest) \in Nat
  BY <1>2
<1>4. ASSUME NEW k \in 1..n PROVE data[1 + k - 1] = e[k]
  <2>1. 1 + k - 1 = k /\ data[k] = e[k]
    BY <1>1, <1>2
  <2> QED
    BY <2>1
<1> HIDE DEF data
<1>5. Holds(data, 1, v, n)
  BY <1>4 DEF Holds, e
<1>6. Len(data) + 1 \in Nat /\ 1 + n <= Len(data) + 1
  BY <1>1, <1>3
<1>7. PICK at \in Nat, l \in Nat : at = 1 /\ l = Len(data) + 1
  BY <1>6
<1>8. Holds(data, at, v, n) /\ at + n <= l
  BY <1>5, <1>6, <1>7
<1>9. DecodeLeb(data, at, l, signed) = [val |-> v % Pow(n), len |-> n]
  BY <1>8, EmittedIsRead
<1> QED
  BY <1>7, <1>9 DEF data, e

\* Read back, all of it or all that n bytes have place for.
ReadBack(v, e, data, n, signed) ==
  LET d == DecodeLeb(data, 1, Len(data) + 1, signed)
  IN /\ d.len = Len(e)
     /\ d.val = v \/ (n = MaxLen - 1 /\ d.val = v % Pow(n) /\ v >= Pow(n))

LEMMA EveryForm ==
  ASSUME NEW v \in Numbers, NEW n \in 1..MaxLen, NEW rest \in Seq(Nat), NEW signed, ~signed,
         v % Pow(n) = v \/ n = MaxLen - 1
  PROVE  ReadBack(v, EmitPadded(v, n), EmitPadded(v, n) \o rest, n, signed)
<1> DEFINE data == EmitPadded(v, n) \o rest
           d == DecodeLeb(data, 1, Len(data) + 1, signed)
<1>1. v \in Nat /\ Pow(n) \in Nat
  <2>1. n \in 0..MaxLen
    BY Widths
  <2> QED
    BY <2>1, NumberFits, PowIs
<1>2. d = [val |-> v % Pow(n), len |-> n]
  BY Reread
<1>3. Len(EmitPadded(v, n)) = n
  BY <1>1, EmittedIsSeq DEF EmittedSeq
<1>4. v < Pow(n) => v % Pow(n) = v
  BY <1>1, SmallMod
<1> HIDE DEF d
<1>5. d.len = n /\ d.val = v % Pow(n)
  BY <1>2
<1>6. d.val = v \/ (n = MaxLen - 1 /\ d.val = v % Pow(n) /\ v >= Pow(n))
  BY <1>1, <1>4, <1>5
<1> QED
  BY <1>3, <1>5, <1>6 DEF ReadBack, d

LEMMA InvRoundTrip ==
  ASSUME BInv
  PROVE  RoundTrip
<1> DEFINE v == last.val
<1> SUFFICES ASSUME last.call = "u32leb",
                    NEW e \in {EmitLeb(v), EmitLeb5(v), EmitLeb4(v)}
             PROVE  LET data == e \o buf
                        d == DecodeLeb(data, 1, Len(data) + 1, FALSE)
                    IN /\ d.len = Len(e)
                       /\ d.val = v \/ (/\ e = EmitLeb4(v)
                                        /\ d.val = v % Base^(MaxLen - 1)
                                        /\ v >= Base^(MaxLen - 1))
  BY DEF RoundTrip
<1>1. v \in Numbers /\ buf \in Seq(Nat) /\ ~FALSE
  BY DEF BInv
<1>2. MaxLen \in Nat /\ MaxLen >= 2 /\ MaxLen - 1 \in 1..MaxLen /\ MaxLen \in 1..MaxLen
  BY Widths
<1> HIDE DEF v
<1>3. \E n \in 1..MaxLen : e = EmitPadded(v, n) /\ (v % Pow(n) = v \/ n = MaxLen - 1)
  <2>1. CASE e = EmitLeb(v)
    BY <1>1, <2>1, EmitLebIs
  <2>2. CASE e = EmitLeb5(v)
    BY <1>1, <1>2, <2>2, NumberFits DEF EmitLeb5
  <2>3. CASE e = EmitLeb4(v)
    BY <1>2, <2>3 DEF EmitLeb4
  <2> QED
    BY <2>1, <2>2, <2>3
<1>4. PICK n \in 1..MaxLen : e = EmitPadded(v, n) /\ (v % Pow(n) = v \/ n = MaxLen - 1)
  BY <1>3
<1>5. ReadBack(v, e, e \o buf, n, FALSE)
  BY <1>1, <1>4, EveryForm
<1>6. n = MaxLen - 1 => e = EmitLeb4(v)
  BY <1>4 DEF EmitLeb4
<1> QED
  BY <1>5, <1>6 DEF ReadBack, Pow

\* Whatever has been read, in any order: what weeify emits of a number that
\* was read is read back as that number, in whatever it stands in front of.
THEOREM EmittedNumbersAreRead == Spec => []RoundTrip
<1>1. Init => BInv
  BY BufferInit
<1>2. BInv /\ [Next]_vars => BInv'
  BY BufferStep
<1>3. BInv => RoundTrip
  BY InvRoundTrip
<1> QED
  BY <1>1, <1>2, <1>3, PTL DEF Spec

\* Every reader but read_u32, which compares with nothing (common.c:181-186) and
\* may go past the end, moves its pointer forward to the end at most, and one that
\* starts where read_u32 went past the end leaves the pointer there.
THEOREM ReadersStopAtEnd == Spec => StopsAtEnd
<1>1. Init => BInv
  BY BufferInit
<1>2. BInv /\ [Next]_vars => BInv'
  BY BufferStep
<1>3. BInv /\ [Next]_vars
        => [last'.call # "u32" => ptr' = ptr \/ (ptr < ptr' /\ ptr' <= limit)]_vars
  BY BufferStep
<1> QED
  BY <1>1, <1>2, <1>3, PTL DEF Spec, StopsAtEnd

-----------------------------------------------------------------------------
(***************************************************************************)
(* The readers accept what the grammar does.  Where the loop ends, the     *)
(* last byte is legal exactly if the grammar has a digit for it; below it  *)
(* grammar and decoder add up the same payloads.                           *)
(***************************************************************************)
LEMMA DivLess ==
  ASSUME NEW a \in Nat, NEW b \in Nat, NEW c \in Nat, b >= 1
  PROVE  a \div b < c <=> a < c * b
<1>1. PICK q \in Nat, r \in Nat : q = a \div b /\ r = a % b /\ r < b /\ a - q * b = r
  <2>1. a \div b \in Nat /\ a % b \in Nat /\ a % b < b /\ a - (a \div b) * b = a % b
    BY DivMod
  <2> QED
    BY <2>1
<1>2. PICK x \in Nat : x = q * b
  OBVIOUS
<1>3. ASSUME q < c PROVE a < c * b
  <2>1. c - (q + 1) \in Nat
    BY <1>3
  <2>2. PICK d \in Nat : d = c - (q + 1)
    BY <2>1
  <2>3. c = q + 1 + d
    BY <2>2
  <2>4. c * b = q * b + b + d * b /\ d * b \in Nat
    BY <2>3
  <2> QED
    BY <1>1, <1>2, <2>4
<1>4. ASSUME ~(q < c) PROVE ~(a < c * b)
  <2>1. q - c \in Nat
    BY <1>4
  <2>2. PICK d \in Nat : d = q - c
    BY <2>1
  <2>3. q = c + d
    BY <2>2
  <2>4. q * b = c * b + d * b /\ d * b \in Nat /\ c * b \in Nat
    BY <2>3
  <2> QED
    BY <1>1, <1>2, <2>4
<1> QED
  BY <1>1, <1>3, <1>4

\* Half of Base, half of the last byte's bits, and how often these go into Base.
Half == 2^(Group - 1)
Top  == 2^(LastBits - 1)
Tops == 2^(Group - LastBits)

LEMMA Halves ==
  /\ Half \in Nat /\ Half >= 1 /\ Base = 2 * Half /\ Base \div 2 = Half
  /\ Top \in Nat /\ Top >= 1 /\ 2^LastBits = 2 * Top
  /\ Tops \in Nat /\ Tops >= 2 /\ Half = Tops * Top
  /\ 2^(Group - LastBits + 1) = 2 * Tops
<1>1. /\ Group \in Nat /\ Group >= 2 /\ MaxLen \in Nat /\ MaxLen >= 2
      /\ LastBits \in 1..(Group - 1) /\ Group * MaxLen \in Nat
  BY Widths
<1>2. Group * MaxLen >= Group
  <2>1. MaxLen \in 1..MaxLen /\ Group * MaxLen = Group * (MaxLen - 1) + Group
    BY <1>1, BitPlaces
  <2>2. Group * (MaxLen - 1) \in Nat
    BY <1>1
  <2> QED
    BY <1>1, <2>1, <2>2
<1>3. PICK G \in Nat, L \in Nat, N \in Nat :
        /\ G = Group /\ L = LastBits /\ N = Group * MaxLen
        /\ L >= 1 /\ L <= G - 1 /\ G <= N
  BY <1>1, <1>2
<1>4. /\ G \in 1..N /\ L \in 1..N /\ (G - L) \in 1..N /\ (G - L) + 1 \in 1..N
  BY <1>3
<1>5. 2^G = 2 * 2^(G - 1) /\ 2^L = 2 * 2^(L - 1) /\ 2^(G - L) = 2 * 2^((G - L) - 1)
  BY <1>3, <1>4, PowerDoubles
<1>6. 2^((G - L) + 1) = 2 * 2^(G - L)
  <2>1. 2^((G - L) + 1) = 2 * 2^(((G - L) + 1) - 1)
    BY <1>3, <1>4, PowerDoubles
  <2>2. ((G - L) + 1) - 1 = G - L
    BY <1>3
  <2> QED
    BY <2>1, <2>2
<1>7. G - 1 \in 0..N /\ L - 1 \in 0..N /\ G - L \in 0..N /\ (G - L) - 1 \in 0..N
  BY <1>3
<1>8. /\ 2^(G - 1) \in Nat \ {0} /\ 2^(L - 1) \in Nat \ {0} /\ 2^(G - L) \in Nat \ {0}
      /\ 2^((G - L) - 1) \in Nat \ {0}
  BY <1>3, <1>7, LebPowersAssumption
<1>9. 2^((G - L) + (L - 1)) = 2^(G - L) * 2^(L - 1) /\ (G - L) + (L - 1) = G - 1
  <2>1. (G - L) + (L - 1) = G - 1 /\ (G - L) + (L - 1) <= N
    BY <1>3
  <2> QED
    BY <1>3, <1>7, <2>1, LebPowersAssumption
<1>10. PICK x \in Nat : x = 2^(G - 1) /\ 2 * x = 2^G /\ (2 * x) \div 2 = x
  <2>1. PICK x \in Nat : x = 2^(G - 1)
    BY <1>8
  <2>2. 2 * x \in Nat /\ 2 \in Nat /\ 0 \in Nat /\ (2 * x) - x * 2 = 0
    OBVIOUS
  <2>3. (2 * x) \div 2 = x
    BY <2>2, DivModUnique
  <2> QED
    BY <1>5, <2>1, <2>3
<1> QED
  BY <1>3, <1>5, <1>6, <1>8, <1>9, <1>10 DEF Half, Top, Tops, Base

\* Half leaves room for two Tops below it and above it.
LEMMA TopBelowHalf == 2 * Top <= Half /\ Top <= Base /\ Half <= Base - Top /\ Base - Top \in Nat
<1>1. PICK a \in Nat, t \in Nat, n \in Nat :
        a = Half /\ t = Top /\ n = Tops /\ n >= 2 /\ a = n * t /\ Base = 2 * a
  BY Halves
<1>2. PICK c \in Nat : n = 2 + c
  <2>1. n - 2 \in Nat
    BY <1>1
  <2>2. PICK c \in Nat : c = n - 2
    BY <2>1
  <2> QED
    BY <1>1, <2>2
<1>3. n * t = 2 * t + c * t /\ c * t \in Nat
  BY <1>2
<1> QED
  BY <1>1, <1>3

\* The last byte of the width: what the decoder accepts of it.
LEMMA LegalLast ==
  ASSUME NEW b \in Nat, b < Base, NEW signed
  PROVE  /\ signed => (UpperLegal(b, signed) <=> b < Top \/ b >= Base - Top)
         /\ ~signed => (UpperLegal(b, signed) <=> b < 2 * Top)
<1>1. Payload(b) = b
  BY PayloadOf
<1>2. PICK t \in Nat, u \in Nat, B \in Nat :
        /\ t = Top /\ u = 2 * Tops /\ B = Base /\ t >= 1 /\ u >= 2 /\ B = u * t
        /\ u = 2^(Group - LastBits + 1)
  <2>1. Base = (2 * Tops) * Top
    BY Halves
  <2> QED
    BY <2>1, Halves
<1>3. PICK q \in Nat : q = b \div t
  BY <1>2, DivMod
<1>4. UpperLegal(b, signed) <=> q \in {0, IF signed THEN u - 1 ELSE 1}
  BY <1>1, <1>2, <1>3 DEF UpperLegal, Top
<1>5. /\ q < 1 <=> b < 1 * t
      /\ q < 2 <=> b < 2 * t
      /\ q < u <=> b < u * t
      /\ q < u - 1 <=> b < (u - 1) * t
  <2>1. 1 \in Nat /\ 2 \in Nat /\ u - 1 \in Nat
    BY <1>2
  <2> QED
    BY <1>2, <1>3, <2>1, DivLess
<1>6. (u - 1) * t = B - t
  BY <1>2
<1>7. 1 * t = t
  BY <1>2
<1>8. q = 0 <=> b < t
  BY <1>3, <1>5, <1>7
<1>9. q = 1 \/ q = 0 <=> b < 2 * t
  BY <1>3, <1>5
<1>10. q = u - 1 <=> b >= B - t
  BY <1>2, <1>3, <1>5, <1>6
<1> QED
  BY <1>2, <1>4, <1>8, <1>9, <1>10

-----------------------------------------------------------------------------
\* The payload of some bytes, and of one more.
LEMMA PayloadStep ==
  ASSUME NEW data, NEW at \in Nat, NEW n \in 0..MaxLen,
         \A k \in 1..n : data[at + k - 1] \in Nat
  PROVE  /\ Payloads(data, at, 0) = 0
         /\ \A k \in 0..n : Payloads(data, at, k) \in Nat /\ Payloads(data, at, k) < Pow(k)
         /\ \A k \in 1..n : /\ Payload(data[at + k - 1]) \in Nat /\ Payload(data[at + k - 1]) < Base
                            /\ Payloads(data, at, k) =
                                 Payloads(data, at, k - 1) + Payload(data[at + k - 1]) * Pow(k - 1)
<1> DEFINE D == [k \in 1..n |-> Payload(data[at + k - 1]) * Pow(k - 1)]
<1>1. n \in Nat /\ MaxLen \in Nat
  BY Widths
<1>2. ASSUME NEW k \in 1..n
      PROVE  /\ Payload(data[at + k - 1]) \in Nat /\ Payload(data[at + k - 1]) < Base
             /\ Pow(k - 1) \in Nat /\ Pow(k - 1) >= 1
  <2>1. k - 1 \in 0..MaxLen
    BY <1>1
  <2>2. Pow(k - 1) \in Nat /\ Pow(k - 1) >= 1 /\ Base \in Nat /\ Base >= 1
    BY <2>1, PowIs
  <2>3. data[at + k - 1] % Base \in Nat /\ data[at + k - 1] % Base < Base
    BY <2>2, DivMod
  <2> QED
    BY <2>2, <2>3 DEF Payload
<1>3. \A k \in 1..n : D[k] \in Nat /\ D[k] = Payload(data[at + k - 1]) * Pow(k - 1)
  BY <1>2
<1> HIDE DEF D
<1>4. PICK g : /\ g[0] = 0
               /\ \A k \in 1..n : g[k] = g[k - 1] + D[k]
               /\ \A k \in 0..n : g[k] \in Nat
  BY <1>1, <1>3, SumExists
<1>5. ASSUME NEW k \in 0..n PROVE Payloads(data, at, k) = g[k]
  <2>1. \A j \in 1..k : g[j] = g[j - 1] + Payload(data[at + j - 1]) * Base^(j - 1)
    BY <1>1, <1>3, <1>4 DEF Pow
  <2> QED
    BY <1>1, <1>4, <2>1, PayloadsIs
<1> DEFINE T == {k \in 0..n : g[k] < Pow(k)}
<1>6. 0 \in T
  BY <1>1, <1>4, PowIs
<1>7. ASSUME NEW k \in 1..n, k - 1 \in T PROVE k \in T
  <2>1. k \in 1..MaxLen /\ k - 1 \in 0..n
    BY <1>1
  <2>2. PICK a \in Nat, b \in Nat, d \in Nat, s \in Nat :
          /\ a = Pow(k - 1) /\ b = Base /\ d = Payload(data[at + k - 1]) /\ s = g[k - 1]
          /\ d < b /\ s < a /\ Pow(k) = a * b /\ g[k] = s + d * a
    <3>1. Pow(k) = Pow(k - 1) * Base /\ Base \in Nat
      BY <2>1, PowIs
    <3>2. g[k] = g[k - 1] + Payload(data[at + k - 1]) * Pow(k - 1) /\ g[k - 1] \in Nat
      BY <1>3, <1>4, <2>1
    <3> QED
      BY <1>2, <1>7, <3>1, <3>2
  <2>3. PICK c \in Nat : b = d + 1 + c
    <3>1. b - (d + 1) \in Nat
      BY <2>2
    <3>2. PICK c \in Nat : c = b - (d + 1)
      BY <3>1
    <3> QED
      BY <2>2, <3>2
  <2>4. a * b = d * a + a + a * c /\ a * c \in Nat /\ d * a \in Nat
    BY <2>3
  <2>5. g[k] < Pow(k)
    BY <2>2, <2>4
  <2> QED
    BY <1>1, <2>5
<1> HIDE DEF T
<1>8. 0..n \subseteq T
  BY <1>1, <1>6, <1>7, UpTo
<1>9. \A k \in 0..n : g[k] < Pow(k)
  BY <1>8 DEF T
<1>10. \A k \in 1..n : /\ Payload(data[at + k - 1]) \in Nat /\ Payload(data[at + k - 1]) < Base
                       /\ Payloads(data, at, k) =
                            Payloads(data, at, k - 1) + Payload(data[at + k - 1]) * Pow(k - 1)
  <2> SUFFICES ASSUME NEW k \in 1..n
               PROVE  Payloads(data, at, k) =
                        Payloads(data, at, k - 1) + Payload(data[at + k - 1]) * Pow(k - 1)
    BY <1>2
  <2>1. k \in 0..n /\ k - 1 \in 0..n
    BY <1>1
  <2> QED
    BY <1>3, <1>4, <1>5, <2>1
<1>11. Payloads(data, at, 0) = 0
  BY <1>1, <1>4, <1>5
<1> QED
  BY <1>4, <1>5, <1>9, <1>10, <1>11

\* What is left of the width for the k-th byte and those behind it.
LEMMA Remaining ==
  ASSUME NEW k \in 1..MaxLen
  PROVE  LET N == Width - Group * (k - 1)
         IN /\ N \in Nat /\ N >= 1
            /\ N > Group <=> k < MaxLen
            /\ k = MaxLen => N = LastBits
            /\ k < MaxLen => /\ 2^N \in Nat /\ 2^N >= Base
                             /\ 2^(N - 1) \in Nat /\ 2^(N - 1) >= Half
<1>1. /\ Group \in Nat /\ Group >= 2 /\ MaxLen \in Nat /\ MaxLen >= 2
      /\ LastBits \in 1..(Group - 1) /\ Width = Group * (MaxLen - 1) + LastBits
      /\ Group * MaxLen \in Nat /\ k \in Nat /\ Width \in Nat
  BY Widths
<1>2. PICK N \in Int, m \in Nat, x \in Nat, y \in Nat :
        /\ m = MaxLen - k /\ x = Group * m /\ y = Group * (k - 1)
        /\ N = Width - y /\ N = x + LastBits /\ Group * MaxLen = y + x + Group
  <2>1. PICK a \in Nat, m \in Nat, G \in Nat :
          a = k - 1 /\ m = MaxLen - k /\ G = Group /\ MaxLen - 1 = a + m /\ MaxLen = a + m + 1
    BY <1>1
  <2>2. /\ G * (a + m) = G * a + G * m /\ G * a \in Nat /\ G * m \in Nat
        /\ G * (a + m + 1) = G * a + G * m + G
    OBVIOUS
  <2> QED
    BY <1>1, <2>1, <2>2
<1>3. CASE k = MaxLen
  <2>1. m = 0 /\ x = 0
    BY <1>1, <1>2, <1>3
  <2> QED
    BY <1>1, <1>2, <1>3, <2>1
<1>4. CASE k < MaxLen
  <2>1. x >= Group
    <3>1. m - 1 \in Nat
      BY <1>1, <1>2, <1>4
    <3>2. PICK c \in Nat, G \in Nat : c = m - 1 /\ G = Group
      BY <1>1, <3>1
    <3>3. m = c + 1
      BY <1>2, <3>2
    <3>4. G * m = G * c + G /\ G * c \in Nat
      BY <3>3
    <3> QED
      BY <1>2, <3>2, <3>4
  <2>2. N > Group /\ N <= Group * MaxLen
    BY <1>1, <1>2, <2>1
  <2>3. PICK r \in Nat, s \in Nat : r = N - Group /\ s = Group - 1
    BY <1>1, <2>2
  <2>4. /\ Group \in 0..(Group * MaxLen) /\ r \in 0..(Group * MaxLen) /\ s \in 0..(Group * MaxLen)
        /\ Group + r <= Group * MaxLen /\ s + r <= Group * MaxLen
        /\ Group + r = N /\ s + r = N - 1
    BY <1>1, <2>2, <2>3
  <2>5. 2^(Group + r) = 2^Group * 2^r /\ 2^(s + r) = 2^s * 2^r
    BY <2>4, LebPowersAssumption
  <2>6. 2^r \in Nat \ {0}
    BY <2>4, LebPowersAssumption
  <2>7. PICK z \in Nat, B \in Nat, h \in Nat : /\ z = 2^r /\ z >= 1 /\ B = 2^Group /\ h = 2^s
                                               /\ B = Base /\ h = Half
    BY <2>3, <2>6, PowIs, Halves DEF Base, Half
  <2>8. PICK c \in Nat : z = c + 1
    <3>1. z - 1 \in Nat
      BY <2>7
    <3>2. PICK c \in Nat : c = z - 1
      BY <3>1
    <3> QED
      BY <2>7, <3>2
  <2>9. B * z = B + B * c /\ h * z = h + h * c /\ B * c \in Nat /\ h * c \in Nat
    BY <2>8
  <2>10. 2^N = B * z /\ 2^(N - 1) = h * z
    BY <2>4, <2>5, <2>7
  <2>11. /\ 2^N \in Nat /\ 2^N >= Base /\ 2^(N - 1) \in Nat /\ 2^(N - 1) >= Half
    BY <2>7, <2>9, <2>10
  <2> QED
    BY <1>1, <1>2, <1>4, <2>2, <2>11
<1> QED
  BY <1>1, <1>3, <1>4

\* The last byte as the last digit of the grammar.
DigitValue(b, signed) == IF signed /\ b >= Half THEN b - Base ELSE b

DigitSet(b, n, signed) ==
  IF signed
  THEN IF b < Base \div 2 THEN {b} \cap 0..(2^(n - 1) - 1)
                          ELSE {b - Base} \cap (-2^(n - 1))..(-1)
  ELSE {b} \cap 0..(2^n - 1)

LEMMA DigitSetIs ==
  ASSUME NEW b \in Nat, b < Base, NEW k \in 1..MaxLen, NEW signed
  PROVE  DigitSet(b, Width - Group * (k - 1), signed) =
           IF k < MaxLen \/ UpperLegal(b, signed) THEN {DigitValue(b, signed)} ELSE {}
<1>1. PICK B \in Nat, h \in Nat, t \in Nat :
        /\ B = Base /\ h = Half /\ t = Top /\ B = 2 * h /\ B \div 2 = h
        /\ 2 * t <= h /\ h <= B - t /\ t >= 1 /\ h >= 1
  BY Halves, TopBelowHalf
<1>2. PICK N \in Nat : /\ N = Width - Group * (k - 1)
                       /\ k = MaxLen => N = LastBits
                       /\ k < MaxLen => /\ 2^N \in Nat /\ 2^N >= Base
                                        /\ 2^(N - 1) \in Nat /\ 2^(N - 1) >= Half
  BY Remaining
<1>3. CASE k < MaxLen
  <2>1. PICK x \in Nat, y \in Nat : x = 2^N /\ y = 2^(N - 1) /\ x >= B /\ y >= h
    BY <1>1, <1>2, <1>3
  <2>2. DigitSet(b, N, signed) = IF signed
                                 THEN IF b < h THEN {b} \cap 0..(y - 1) ELSE {b - B} \cap (-y)..(-1)
                                 ELSE {b} \cap 0..(x - 1)
    BY <1>1, <2>1 DEF DigitSet
  <2>3. DigitSet(b, N, signed) = {DigitValue(b, signed)}
    BY <1>1, <2>1, <2>2 DEF DigitValue
  <2> QED
    BY <1>2, <1>3, <2>3
<1>4. CASE k = MaxLen
  <2>1. N = LastBits /\ 2^N = 2 * t /\ 2^(N - 1) = t
    BY <1>1, <1>2, <1>4, Halves DEF Top
  <2>2. DigitSet(b, N, signed) = IF signed
                                 THEN IF b < h THEN {b} \cap 0..(t - 1) ELSE {b - B} \cap (-t)..(-1)
                                 ELSE {b} \cap 0..(2 * t - 1)
    BY <1>1, <2>1 DEF DigitSet
  <2>3. /\ signed => (UpperLegal(b, signed) <=> b < t \/ b >= B - t)
        /\ ~signed => (UpperLegal(b, signed) <=> b < 2 * t)
    BY <1>1, LegalLast
  <2>4. DigitSet(b, N, signed) = IF UpperLegal(b, signed) THEN {DigitValue(b, signed)} ELSE {}
    <3>1. CASE ~signed
      <4>1. {b} \cap 0..(2 * t - 1) = IF b < 2 * t THEN {b} ELSE {}
        BY <1>1
      <4> QED
        BY <2>2, <2>3, <3>1, <4>1 DEF DigitValue
    <3>2. CASE signed /\ b < h
      <4>1. {b} \cap 0..(t - 1) = IF b < t THEN {b} ELSE {}
        BY <1>1
      <4>0. ~(b >= B - t)
        BY <1>1, <3>2
      <4>2. UpperLegal(b, signed) <=> b < t
        BY <2>3, <3>2, <4>0, Zenon
      <4>3. DigitValue(b, signed) = b
        BY <1>1, <3>2 DEF DigitValue
      <4> QED
        BY <2>2, <3>2, <4>1, <4>2, <4>3
    <3>3. CASE signed /\ ~(b < h)
      <4>1. {b - B} \cap (-t)..(-1) = IF b >= B - t THEN {b - B} ELSE {}
        BY <1>1
      <4>0. ~(b < t)
        BY <1>1, <3>3
      <4>2. UpperLegal(b, signed) <=> b >= B - t
        BY <2>3, <3>3, <4>0, Zenon
      <4>3. DigitValue(b, signed) = b - B
        BY <1>1, <3>3 DEF DigitValue
      <4> QED
        BY <2>2, <3>3, <4>1, <4>2, <4>3
    <3> QED
      BY <3>1, <3>2, <3>3
  <2>5. ~(k < MaxLen)
    BY <1>4, Widths
  <2> QED
    BY <1>2, <2>4, <2>5
<1>5. k < MaxLen \/ k = MaxLen
  BY Widths
<1> QED
  BY <1>3, <1>4, <1>5

\* Sign extension of a number of which the last byte b, of B values, starts at
\* a: the arithmetic.
Extended(a, q, h, b, B, n) ==
  SignExtend(q + b * a, n) = q + (IF b >= h THEN b - B ELSE b) * a

LEMMA ExtendsFull ==
  ASSUME NEW a \in Nat, a >= 1, NEW q \in Nat, q < a, NEW h \in Nat, h >= 1,
         NEW b \in Nat, b < 2 * h, NEW n, 2^n = a * (2 * h), 2^(n - 1) = a * h
  PROVE  Extended(a, q, h, b, 2 * h, n)
<1>1. PICK v \in Nat, w \in Nat, z \in Nat, y \in Nat :
        v = q + b * a /\ w = a * (2 * h) /\ z = a * h /\ y = b * a /\ w = 2 * z
  <2>1. b * a \in Nat /\ a * h \in Nat /\ a * (2 * h) = 2 * (a * h)
    OBVIOUS
  <2> QED
    BY <2>1
<1>2. v < w
  <2>1. 2 * h - (b + 1) \in Nat
    OBVIOUS
  <2>2. PICK c \in Nat : c = 2 * h - (b + 1)
    BY <2>1
  <2>3. 2 * h = b + 1 + c
    BY <2>2
  <2>4. a * (2 * h) = b * a + a + a * c /\ a * c \in Nat
    BY <2>3
  <2> QED
    BY <1>1, <2>4
<1>3. v % w = v
  BY <1>2, SmallMod
<1>4. v >= z <=> b >= h
  <2>1. ASSUME b >= h PROVE v >= z
    <3>1. b - h \in Nat
      BY <2>1
    <3>2. PICK c \in Nat : c = b - h
      BY <3>1
    <3>3. b = h + c
      BY <3>2
    <3>4. b * a = a * h + c * a /\ c * a \in Nat
      BY <3>3
    <3> QED
      BY <1>1, <3>4
  <2>2. ASSUME ~(b >= h) PROVE v < z
    <3>1. h - (b + 1) \in Nat
      BY <2>2
    <3>2. PICK c \in Nat : c = h - (b + 1)
      BY <3>1
    <3>3. h = b + 1 + c
      BY <3>2
    <3>4. a * h = b * a + a + a * c /\ a * c \in Nat
      BY <3>3
    <3> QED
      BY <1>1, <3>4
  <2> QED
    BY <1>1, <2>1, <2>2
<1>5. SignExtend(q + b * a, n) = IF v >= z THEN v - w ELSE v
  BY <1>1, <1>3 DEF SignExtend
<1>6. (b - 2 * h) * a = y - w
  <2>1. (b - 2 * h) * a = b * a - a * (2 * h)
    OBVIOUS
  <2> QED
    BY <1>1, <2>1
<1> QED
  BY <1>1, <1>4, <1>5, <1>6 DEF Extended

\* The same where the last byte has more bits than are used of it.
LEMMA ExtendsLast ==
  ASSUME NEW a \in Nat, a >= 1, NEW q \in Nat, q < a, NEW t \in Nat, t >= 1,
         NEW u \in Nat, NEW b \in Nat, b < 2 * u * t, b < t \/ b >= 2 * u * t - t,
         u >= 2, NEW n, 2^n = a * (2 * t), 2^(n - 1) = a * t
  PROVE  Extended(a, q, t, b, 2 * u * t, n)
<1>1. CASE b < t
  <2>1. b < 2 * t
    BY <1>1
  <2>2. Extended(a, q, t, b, 2 * t, n)
    BY <2>1, ExtendsFull
  <2> QED
    BY <1>1, <2>2 DEF Extended
<1>2. CASE ~(b < t)
  <2>1. PICK B \in Nat : B = 2 * u * t
    OBVIOUS
  <2>0. b >= B - t /\ b < B
    BY <1>2, <2>1
  <2>2. PICK c \in Nat : c = B - b /\ c >= 1 /\ c <= t
    <3>1. B - b \in Nat
      BY <2>0
    <3>2. PICK c \in Nat : c = B - b
      BY <3>1
    <3>3. c >= 1 /\ c <= t
      BY <2>0, <3>2
    <3> QED
      BY <3>2, <3>3
  <2>3. PICK w \in Nat, z \in Nat, v \in Nat, y \in Nat :
          /\ w = a * (2 * t) /\ z = a * t /\ w = 2 * z /\ v = q + b * a /\ y = c * a
    <3>1. b * a \in Nat /\ a * t \in Nat /\ a * (2 * t) = 2 * (a * t) /\ c * a \in Nat
      OBVIOUS
    <3> QED
      BY <3>1
  <2>4. z - y \in Nat /\ y >= a
    <3>1. PICK d \in Nat, f \in Nat : d = t - c /\ f = c - 1
      <4>1. t - c \in Nat /\ c - 1 \in Nat
        BY <2>2
      <4> QED
        BY <4>1
    <3>2. t = c + d /\ c = f + 1
      BY <2>2, <3>1
    <3>3. a * t = c * a + a * d /\ a * d \in Nat
      BY <3>2
    <3>4. c * a = f * a + a /\ f * a \in Nat
      BY <3>2
    <3> QED
      BY <2>3, <3>3, <3>4
  <2>5. b * a = u * w - y
    <3>1. b = B - c
      BY <2>2
    <3>2. b * a = B * a - c * a
      BY <3>1
    <3>3. (2 * u * t) * a = u * (a * (2 * t))
      OBVIOUS
    <3> QED
      BY <2>1, <2>3, <3>2, <3>3
  <2>6. PICK r \in Nat : r = w + q - y /\ r < w /\ r >= z
    BY <2>3, <2>4
  <2>7. v % w = r
    <3>1. PICK k \in Int : k = u - 1
      OBVIOUS
    <3>2. k * w = u * w - w
      BY <3>1
    <3>3. PICK x \in Int : x = u * w
      OBVIOUS
    <3>4. v - k * w = r /\ w >= 1
      BY <2>3, <2>4, <2>5, <2>6, <3>2, <3>3
    <3> QED
      BY <2>6, <3>4, DivModUnique
  <2>8. SignExtend(q + b * a, n) = r - w
    BY <2>3, <2>6, <2>7 DEF SignExtend
  <2>9. (b - B) * a = -y
    <3>1. b - B = -c
      BY <2>2
    <3> QED
      BY <2>3, <3>1
  <2> QED
    BY <1>2, <2>1, <2>3, <2>6, <2>8, <2>9 DEF Extended
<1> QED
  BY <1>1, <1>2

\* What the decoders return is what the bytes before the last one hold, and
\* the last digit.
ValueSplits(data, at, e, b, signed) ==
  /\ DigitValue(b, signed) \in Int
  /\ LebValue(Payloads(data, at, e), e, signed) =
       Payloads(data, at, e - 1) + DigitValue(b, signed) * Pow(e - 1)

LEMMA ValueIs ==
  ASSUME NEW data, NEW at \in Nat, NEW e \in 1..MaxLen, NEW signed,
         \A k \in 1..e : data[at + k - 1] \in Nat,
         NEW b \in Nat, b = data[at + e - 1], b < Base,
         e = MaxLen => UpperLegal(b, signed)
  PROVE  ValueSplits(data, at, e, b, signed)
<1>1. /\ Group \in Nat /\ Group >= 2 /\ MaxLen \in Nat /\ MaxLen >= 2 /\ Width \in Nat
      /\ LastBits \in 1..(Group - 1) /\ Width = Group * (MaxLen - 1) + LastBits /\ e \in Nat
      /\ Group * MaxLen \in Nat
  BY Widths
<1>0. PICK a \in Nat, q \in Nat, P \in Nat :
        /\ a = Pow(e - 1) /\ a >= 1 /\ q = Payloads(data, at, e - 1) /\ q < a
        /\ P = Payloads(data, at, e) /\ P = q + b * a /\ P < Pow(e)
  <2>1. e \in 0..MaxLen /\ e - 1 \in 0..MaxLen /\ e - 1 \in 0..e /\ e \in 0..e /\ e \in 1..e
    BY <1>1
  <2>2. Pow(e - 1) \in Nat /\ Pow(e - 1) >= 1
    BY <2>1, PowIs
  <2>3. /\ Payloads(data, at, e - 1) \in Nat /\ Payloads(data, at, e - 1) < Pow(e - 1)
        /\ Payloads(data, at, e) \in Nat /\ Payloads(data, at, e) < Pow(e)
        /\ Payloads(data, at, e) =
             Payloads(data, at, e - 1) + Payload(data[at + e - 1]) * Pow(e - 1)
    BY <2>1, PayloadStep
  <2>4. Payload(data[at + e - 1]) = b
    BY PayloadOf
  <2>5. Payloads(data, at, e) = Payloads(data, at, e - 1) + b * Pow(e - 1)
    BY <2>3, <2>4
  <2> QED
    BY <2>2, <2>3, <2>5
<1>00. PICK B \in Nat, h \in Nat, t \in Nat, u \in Nat :
         /\ B = Base /\ h = Half /\ t = Top /\ u = Tops
         /\ B = 2 * h /\ h = u * t /\ h >= 1 /\ t >= 1 /\ u >= 2 /\ 2 * t <= h /\ h <= B - t
  BY Halves, TopBelowHalf
<1>2. /\ a = Pow(e - 1) /\ a >= 1 /\ q = Payloads(data, at, e - 1) /\ q < a
      /\ P = Payloads(data, at, e) /\ P = q + b * a
      /\ B = Base /\ h = Half /\ t = Top /\ u = Tops
      /\ B = 2 * h /\ h = u * t /\ h >= 1 /\ t >= 1 /\ u >= 2 /\ 2 * t <= h /\ h <= B - t
  BY <1>0, <1>00
<1>3. DigitValue(b, signed) = IF signed /\ b >= h THEN b - B ELSE b
  BY <1>2 DEF DigitValue
<1>4. b < B
  BY <1>2
<1>5. DigitValue(b, signed) \in Int
  BY <1>2, <1>3
<1>6. 2^Width \in Nat /\ e = MaxLen => 2^Width = a * (2 * t) /\ 2^(Width - 1) = a * t
  <2> SUFFICES ASSUME e = MaxLen PROVE 2^Width = a * (2 * t) /\ 2^(Width - 1) = a * t
    OBVIOUS
  <2>1. 2^Width = a * (2 * t)
    BY <1>2, WidthPow, Halves
  <2>2. 2^(Width - 1) = a * t
    <3>1. PICK x \in Nat, L \in Nat, N \in Nat :
            /\ x = Group * (MaxLen - 1) /\ L = LastBits - 1 /\ N = Group * MaxLen
            /\ x + L = Width - 1 /\ x + L <= N /\ N = x + Group
      <4>1. MaxLen \in 1..MaxLen
        BY <1>1
      <4>2. Group * (MaxLen - 1) \in 0..(Group * MaxLen) /\ Group * MaxLen = Group * (MaxLen - 1) + Group
        BY <4>1, BitPlaces
      <4> QED
        BY <1>1, <4>2
    <3>2. x \in 0..N /\ L \in 0..N
      BY <3>1
    <3>3. 2^(x + L) = 2^x * 2^L
      BY <3>1, <3>2, LebPowersAssumption
    <3>4. MaxLen - 1 \in 0..MaxLen
      BY <1>1
    <3>5. Pow(MaxLen - 1) = 2^x
      BY <3>1, <3>4, LebPowersAssumption DEF Pow
    <3> QED
      BY <1>2, <3>1, <3>3, <3>5 DEF Top
  <2> QED
    BY <2>1, <2>2
<1>7. e < MaxLen => /\ 2^(e * Group) = a * (2 * h) /\ 2^(e * Group - 1) = a * h
                    /\ ~(e * Group > Width)
  <2> SUFFICES ASSUME e < MaxLen
               PROVE  /\ 2^(e * Group) = a * (2 * h) /\ 2^(e * Group - 1) = a * h
                      /\ ~(e * Group > Width)
    OBVIOUS
  <2>1. PICK x \in Nat, y \in Nat, N \in Nat :
          /\ x = Group * (e - 1) /\ y = e * Group /\ y = x + Group /\ N = Group * MaxLen
          /\ y = Group * e /\ y <= N /\ x \in 0..N /\ y \in 0..N
    <3>1. Group * e = e * Group
      BY <1>1
    <3> QED
      BY <1>1, <3>1, BitPlaces
  <2>2. y <= Width
    <3>1. MaxLen - 1 - e \in Nat
      BY <1>1
    <3>2. PICK c \in Nat, G \in Nat, f \in Nat, m \in Nat :
            c = MaxLen - 1 - e /\ G = Group /\ f = e /\ m = MaxLen - 1 /\ m = f + c
      BY <1>1, <3>1
    <3>3. G * m = G * f + G * c /\ G * c \in Nat /\ G * f \in Nat
      BY <3>2
    <3> QED
      BY <1>1, <2>1, <3>2, <3>3
  <2>3. e \in 0..MaxLen /\ e - 1 \in 0..MaxLen
    BY <1>1
  <2>4. Pow(e) = 2^y /\ Pow(e - 1) = 2^x
    BY <2>1, <2>3, LebPowersAssumption DEF Pow
  <2>5. Pow(e) = a * B
    BY <1>2, PowIs
  <2>6. PICK g \in Nat : g = Group - 1 /\ x + g = y - 1 /\ g \in 0..N /\ x + g <= N
    BY <1>1, <2>1
  <2>7. 2^(x + g) = 2^x * 2^g
    BY <2>1, <2>6, LebPowersAssumption
  <2>8. 2^(y - 1) = a * h
    BY <1>2, <2>4, <2>6, <2>7 DEF Half
  <2> QED
    BY <1>1, <1>2, <2>1, <2>2, <2>4, <2>5, <2>8
<1>8. e = MaxLen => e * Group > Width
  <2>1. Group * MaxLen = Group * (MaxLen - 1) + Group /\ MaxLen * Group = Group * MaxLen
    <3>1. MaxLen \in 1..MaxLen
      BY <1>1
    <3> QED
      BY <1>1, <3>1, BitPlaces
  <2>2. Group * (MaxLen - 1) \in Nat
    BY <1>1
  <2> QED
    BY <1>1, <2>1, <2>2
<1>9. CASE ~signed
  <2>1. P < 2^Width
    <3>1. PICK w \in Nat, x \in Nat, l \in Nat : /\ w = 2^Width /\ x = Pow(MaxLen - 1) /\ l = 2 * t
                                                 /\ w = x * l /\ l >= 1
      <4>1. MaxLen - 1 \in 0..MaxLen
        BY <1>1
      <4> QED
        BY <1>2, <4>1, WidthPow, PowIs, Halves
    <3>2. CASE e = MaxLen
      <4>1. b < l
        BY <1>2, <1>9, <3>1, <3>2, LegalLast
      <4>2. l - (b + 1) \in Nat
        BY <4>1
      <4>3. PICK c \in Nat : c = l - (b + 1)
        BY <4>2
      <4>4. l = b + 1 + c
        BY <3>1, <4>3
      <4>5. a * l = b * a + a + a * c /\ a * c \in Nat /\ b * a \in Nat
        BY <4>4
      <4>6. w = a * l
        BY <1>2, <3>1, <3>2
      <4> QED
        BY <1>2, <3>1, <4>5, <4>6
    <3>3. CASE e < MaxLen
      <4>1. P < Pow(e)
        BY <1>0
      <4>2. PICK y \in Nat, N \in Nat, r \in Nat :
              /\ y = Group * e /\ N = Group * MaxLen /\ y + r = Width /\ y + r <= N
              /\ y \in 0..N /\ r \in 0..N
        <5>1. MaxLen - 1 - e \in Nat
          BY <1>1, <3>3
        <5>2. PICK c \in Nat, G \in Nat, f \in Nat, m \in Nat :
                c = MaxLen - 1 - e /\ G = Group /\ f = e /\ m = MaxLen - 1 /\ m = f + c
                  /\ MaxLen = m + 1
          BY <1>1, <5>1
        <5>3. /\ G * m = G * f + G * c /\ G * c \in Nat /\ G * f \in Nat
              /\ G * (m + 1) = G * m + G /\ G * m \in Nat
          BY <5>2
        <5>4. PICK y \in Nat, r \in Nat : y = G * f /\ r = G * c + LastBits
          BY <1>1, <5>3
        <5>5. y + r = Width /\ Group * MaxLen = G * m + G /\ LastBits <= G
          BY <1>1, <5>2, <5>3, <5>4
        <5>6. y + r <= Group * MaxLen
          BY <1>1, <5>2, <5>3, <5>4, <5>5
        <5> QED
          BY <1>1, <5>2, <5>4, <5>5, <5>6
      <4>3. 2^(y + r) = 2^y * 2^r /\ 2^r \in Nat \ {0} /\ 2^y \in Nat \ {0}
        BY <4>2, LebPowersAssumption
      <4>4. Pow(e) = 2^y
        <5>1. e \in 0..MaxLen
          BY <1>1
        <5> QED
          BY <4>2, <5>1, LebPowersAssumption DEF Pow
      <4>5. PICK z \in Nat, s \in Nat : z = 2^y /\ s = 2^r /\ w = z * s /\ s >= 1
        BY <3>1, <4>2, <4>3
      <4>6. s - 1 \in Nat
        BY <4>5
      <4>7. PICK c \in Nat : c = s - 1
        BY <4>6
      <4>8. s = c + 1
        BY <4>5, <4>7
      <4>9. z * s = z * c + z /\ z * c \in Nat
        BY <4>8
      <4> QED
        BY <3>1, <4>1, <4>4, <4>5, <4>9
    <3> QED
      BY <1>1, <3>2, <3>3
  <2>2. P % 2^Width = P
    <3>1. 2^Width \in Nat
      BY WidthPow
    <3> QED
      BY <2>1, <3>1, SmallMod
  <2>3. LebValue(P, e, signed) = P
    BY <1>9, <2>2 DEF LebValue
  <2> QED
    BY <1>2, <1>3, <1>5, <1>9, <2>3 DEF ValueSplits
<1>10. CASE signed /\ e < MaxLen
  <2>1. LebValue(P, e, signed) = SignExtend(P, e * Group)
    BY <1>7, <1>10 DEF LebValue
  <2>2. b < 2 * h
    BY <1>2, <1>4
  <2>3. SignExtend(q + b * a, e * Group) = q + (IF b >= h THEN b - 2 * h ELSE b) * a
    <3>1. PICK n : n = e * Group
      OBVIOUS
    <3>2. 2^n = a * (2 * h) /\ 2^(n - 1) = a * h
      BY <1>7, <1>10, <3>1
    <3>3. a >= 1 /\ q < a /\ h >= 1
      BY <1>2
    <3>4. Extended(a, q, h, b, 2 * h, n)
      BY <2>2, <3>2, <3>3, ExtendsFull
    <3> QED
      BY <3>1, <3>4 DEF Extended
  <2> QED
    BY <1>2, <1>3, <1>5, <1>10, <2>1, <2>3 DEF ValueSplits
<1>11. CASE signed /\ e = MaxLen
  <2>1. LebValue(P, e, signed) = SignExtend(P, Width)
    BY <1>8, <1>11 DEF LebValue
  <2>2. b < t \/ b >= B - t
    BY <1>2, <1>11, LegalLast
  <2>3. B = 2 * u * t
    BY <1>2
  <2>4. 2^Width = a * (2 * t) /\ 2^(Width - 1) = a * t
    BY <1>6, <1>11, WidthPow
  <2>5. SignExtend(q + b * a, Width) = q + (IF b >= t THEN b - 2 * u * t ELSE b) * a
    <3>1. b < 2 * u * t /\ (b < t \/ b >= 2 * u * t - t)
      BY <1>4, <2>2, <2>3
    <3>2. a >= 1 /\ q < a /\ t >= 1 /\ u >= 2
      BY <1>2
    <3>3. PICK n : n = Width
      OBVIOUS
    <3>4. 2^n = a * (2 * t) /\ 2^(n - 1) = a * t
      BY <2>4, <3>3
    <3>5. Extended(a, q, t, b, 2 * u * t, n)
      BY <3>1, <3>2, <3>4, ExtendsLast
    <3> QED
      BY <3>3, <3>5 DEF Extended
  <2>6. b >= t <=> b >= h
    BY <1>2, <2>2
  <2> QED
    BY <1>2, <1>3, <1>5, <1>11, <2>1, <2>3, <2>5, <2>6 DEF ValueSplits
<1>12. e < MaxLen \/ e = MaxLen
  BY <1>1
<1> QED
  BY <1>9, <1>10, <1>11, <1>12

-----------------------------------------------------------------------------
\* The numbers at the k-th byte, of those at the next.
GrammarStep(next, at, k, signed) ==
  LET N == Width - Group * (k - 1)
  IN IF at + k - 1 >= limit THEN {}
     ELSE LET b == buf[at + k - 1]
          IN IF b < Base THEN {<<v, k>> : v \in DigitSet(b, N, signed)}
             ELSE IF N > Group
             THEN {<<Base * m[1] + (b - Base), m[2]>> : m \in next}
             ELSE {}

GrammarEqn(x, at, signed) ==
  x = [k \in 1..MaxLen |-> GrammarStep(x[k + 1], at, k, signed)]

LEMMA GrammarChoice ==
  ASSUME NEW at, NEW signed
  PROVE  Grammar(at, signed) = (CHOOSE x : GrammarEqn(x, at, signed))[1]
BY DEF Grammar, GrammarEqn, GrammarStep, DigitSet, Base, Base, MaxLen, MaxLen

LEMMA GrammarExists ==
  ASSUME NEW at, NEW signed
  PROVE  \E x : GrammarEqn(x, at, signed)
<1>1. MaxLen \in Nat /\ MaxLen >= 2
  BY Widths
<1> DEFINE Good(f, j) ==
      \A k \in (MaxLen - j)..MaxLen : f[k] = GrammarStep(f[k + 1], at, k, signed)
           T == {j \in 0..(MaxLen - 1) : \E f : Good(f, j)}
<1>2. ASSUME NEW s, NEW r
      PROVE  GrammarStep(s, at, MaxLen, signed) = GrammarStep(r, at, MaxLen, signed)
  <2>1. ~(Width - Group * (MaxLen - 1) > Group)
    <3>1. MaxLen \in 1..MaxLen /\ ~(MaxLen < MaxLen)
      BY <1>1
    <3> QED
      BY <3>1, Remaining
  <2> QED
    BY <2>1 DEF GrammarStep
<1>3. 0 \in T
  <2> DEFINE h == [k \in 1..MaxLen |-> GrammarStep({}, at, k, signed)]
  <2>1. h[MaxLen] = GrammarStep({}, at, MaxLen, signed)
    BY <1>1
  <2>2. h[MaxLen] = GrammarStep(h[MaxLen + 1], at, MaxLen, signed)
    BY <1>2, <2>1
  <2> HIDE DEF h
  <2>3. Good(h, 0)
    BY <1>1, <2>2
  <2> HIDE DEF Good
  <2>4. \E f : Good(f, 0)
    BY <2>3
  <2> QED
    BY <1>1, <2>4
<1>4. ASSUME NEW j \in 1..(MaxLen - 1), j - 1 \in T PROVE j \in T
  <2>1. PICK f : Good(f, j - 1)
    BY <1>4
  <2>2. PICK m \in 1..MaxLen : m = MaxLen - j /\ m < MaxLen /\ m + 1 = MaxLen - (j - 1)
    BY <1>1
  <2> DEFINE h == [k \in 1..MaxLen |-> IF k = m THEN GrammarStep(f[m + 1], at, m, signed) ELSE f[k]]
  <2>3. \A k \in (m + 1)..MaxLen : h[k] = f[k]
    BY <1>1, <2>2
  <2>4. h[m] = GrammarStep(f[m + 1], at, m, signed)
    BY <2>2
  <2>9. m + 1 \in (m + 1)..MaxLen
    BY <1>1, <2>2
  <2> HIDE DEF h
  <2>5. h[m] = GrammarStep(h[m + 1], at, m, signed)
    BY <2>3, <2>4, <2>9
  <2>6. ASSUME NEW k \in (m + 1)..MaxLen PROVE h[k] = GrammarStep(h[k + 1], at, k, signed)
    <3>1. f[k] = GrammarStep(f[k + 1], at, k, signed)
      BY <2>1, <2>2, <2>6
    <3>2. CASE k = MaxLen
      BY <1>2, <2>3, <3>1, <3>2
    <3>3. CASE k # MaxLen
      <4>1. k + 1 \in (m + 1)..MaxLen
        BY <1>1, <2>2, <3>3
      <4> QED
        BY <2>3, <3>1, <4>1
    <3> QED
      BY <3>2, <3>3
  <2>7. Good(h, j)
    BY <2>2, <2>5, <2>6
  <2> HIDE DEF Good
  <2>8. \E g : Good(g, j)
    BY <2>7
  <2> QED
    BY <2>8
<1> HIDE DEF T
<1>5. PICK n \in Nat : n = MaxLen - 1
  BY <1>1
<1>6. 0..n \subseteq T
  BY <1>3, <1>4, <1>5, UpTo
<1>7. MaxLen - 1 \in T
  BY <1>5, <1>6
<1>8. PICK f : Good(f, MaxLen - 1)
  BY <1>7 DEF T
<1> DEFINE h == [k \in 1..MaxLen |-> f[k]]
<1>9. ASSUME NEW k \in 1..MaxLen PROVE h[k] = GrammarStep(h[k + 1], at, k, signed)
  <2>1. h[k] = GrammarStep(f[k + 1], at, k, signed)
    BY <1>1, <1>8
  <2>2. CASE k = MaxLen
    BY <1>2, <2>1, <2>2
  <2>3. CASE k # MaxLen
    <3>1. h[k + 1] = f[k + 1]
      BY <1>1, <2>3
    <3> QED
      BY <2>1, <3>1
  <2> QED
    BY <2>2, <2>3
<1>10. h = [k \in 1..MaxLen |-> h[k]]
  OBVIOUS
<1> HIDE DEF h
<1>11. h = [k \in 1..MaxLen |-> GrammarStep(h[k + 1], at, k, signed)]
  BY <1>9, <1>10
<1> QED
  BY <1>11 DEF GrammarEqn

LEMMA GrammarIs ==
  ASSUME NEW at, NEW signed
  PROVE  \E x : /\ Grammar(at, signed) = x[1]
                /\ \A k \in 1..MaxLen : x[k] = GrammarStep(x[k + 1], at, k, signed)
<1> DEFINE x == CHOOSE x : GrammarEqn(x, at, signed)
<1>1. Grammar(at, signed) = x[1]
  BY GrammarChoice
<1>2. GrammarEqn(x, at, signed)
  BY GrammarExists
<1> HIDE DEF x
<1>3. \A k \in 1..MaxLen : x[k] = GrammarStep(x[k + 1], at, k, signed)
  BY <1>2 DEF GrammarEqn
<1> QED
  BY <1>1, <1>3

\* Below the last byte the grammar puts one payload in front after the other.
Chained(x, at, e) ==
  \A k \in 1..(e - 1) :
    x[k] = {<<Base * m[1] + Payload(buf[at + k - 1]), m[2]>> : m \in x[k + 1]}

LEMMA ChainsNone ==
  ASSUME NEW x, NEW at \in Nat, NEW e \in Nat, e >= 1, Chained(x, at, e), x[e] = {}
  PROVE  x[1] = {}
<1> DEFINE T == {j \in 0..(e - 1) : x[e - j] = {}}
<1>1. 0 \in T
  OBVIOUS
<1>2. ASSUME NEW j \in 1..(e - 1), j - 1 \in T PROVE j \in T
  <2>1. PICK k \in 1..(e - 1) : k = e - j /\ k + 1 = e - (j - 1)
    OBVIOUS
  <2>2. x[k + 1] = {}
    BY <1>2, <2>1
  <2>3. x[k] = {}
    BY <2>2 DEF Chained
  <2> QED
    BY <2>1, <2>3
<1> HIDE DEF T
<1>3. PICK n \in Nat : n = e - 1
  OBVIOUS
<1>4. 0..n \subseteq T
  BY <1>1, <1>2, <1>3, UpTo
<1>5. e - 1 \in T
  BY <1>3, <1>4
<1>6. e - (e - 1) = 1
  OBVIOUS
<1> QED
  BY <1>5, <1>6 DEF T

\* All of the payload in front of byte e, and v in its place.
ChainIs(c, at, e, v) == c = {<<Payloads(buf, at, e - 1) + v * Pow(e - 1), e>>}

LEMMA ChainsOne ==
  ASSUME NEW x, NEW at \in Nat, NEW e \in 1..MaxLen, Chained(x, at, e),
         \A k \in 1..e : buf[at + k - 1] \in Nat,
         NEW v \in Int, x[e] = {<<v, e>>}
  PROVE  ChainIs(x[1], at, e, v)
<1>1. e \in Nat /\ e >= 1 /\ MaxLen \in Nat
  BY Widths
<1> DEFINE P(k) == Payloads(buf, at, k)
           V == P(e - 1) + v * Pow(e - 1)
           At(k, y) == x[k] = {<<y, e>>} /\ V = P(k - 1) + y * Pow(k - 1)
           T == {j \in 0..(e - 1) : \E y \in Int : At(e - j, y)}
<1>2. /\ P(0) = 0 /\ \A k \in 0..e : P(k) \in Nat
      /\ \A k \in 1..e : /\ Payload(buf[at + k - 1]) \in Nat
                         /\ P(k) = P(k - 1) + Payload(buf[at + k - 1]) * Pow(k - 1)
  <2>1. e \in 0..MaxLen
    BY <1>1
  <2> QED
    BY <2>1, PayloadStep
<1>3. 0 \in T
  <2>1. At(e, v) /\ e - 0 = e
    BY <1>1
  <2> HIDE DEF At
  <2>2. \E y \in Int : At(e - 0, y)
    BY <2>1
  <2> QED
    BY <1>1, <2>2
<1> HIDE DEF P, V
<1>4. ASSUME NEW j \in 1..(e - 1), j - 1 \in T PROVE j \in T
  <2>1. PICK k \in 1..(e - 1) : k = e - j /\ k + 1 = e - (j - 1)
    BY <1>1
  <2>2. PICK y \in Int : At(k + 1, y)
    BY <1>4, <2>1
  <2>3. PICK b \in Nat, d \in Nat, a \in Nat, q \in Nat :
          /\ b = Base /\ d = Payload(buf[at + k - 1]) /\ a = Pow(k - 1) /\ q = P(k - 1)
          /\ Pow(k) = a * b /\ P(k) = q + d * a
    <3>1. k \in 1..e /\ k - 1 \in 0..e /\ k \in 1..MaxLen /\ k - 1 \in 0..MaxLen
      BY <1>1
    <3> QED
      BY <1>2, <3>1, PowIs, ZenonT(60)
  <2>4. x[k] = {<<b * y + d, e>>}
    <3>1. x[k] = {<<b * m[1] + d, m[2]>> : m \in {<<y, e>>}}
      BY <2>2, <2>3 DEF Chained
    <3> QED
      BY <3>1
  <2>5. V = P(k) + y * Pow(k)
    <3>1. (k + 1) - 1 = k
      BY <1>1
    <3> QED
      BY <2>2, <3>1
  <2>6. y * (a * b) = (b * y) * a /\ (b * y + d) * a = (b * y) * a + d * a
    OBVIOUS
  <2>7. V = q + (b * y + d) * a
    <3>1. PICK r \in Int, s \in Int : r = (b * y) * a /\ s = d * a
      OBVIOUS
    <3> QED
      BY <2>3, <2>5, <2>6, <3>1
  <2>8. PICK z \in Int : z = b * y + d
    OBVIOUS
  <2>9. At(k, z)
    BY <2>3, <2>4, <2>7, <2>8
  <2> HIDE DEF At
  <2>10. \E w \in Int : At(e - j, w)
    BY <2>1, <2>9
  <2> QED
    BY <2>10
<1> HIDE DEF T
<1>5. PICK n \in Nat : n = e - 1
  BY <1>1
<1>6. 0..n \subseteq T
  BY <1>3, <1>4, <1>5, UpTo
<1>7. e - 1 \in T
  BY <1>5, <1>6
<1>8. PICK y \in Int : At(1, y)
  <2>1. e - (e - 1) = 1
    BY <1>1
  <2> QED
    BY <1>7, <2>1 DEF T
<1>9. V = y
  <2>1. P(1 - 1) = 0 /\ Pow(1 - 1) = 1
    BY <1>2, PowIs
  <2>2. V = 0 + y * 1
    BY <1>8, <2>1
  <2> QED
    BY <2>2
<1> QED
  BY <1>8, <1>9 DEF V, P, ChainIs

\* What the grammar finds at the pointer is what the decoder returns.
Agrees(d, numbers) ==
  IF d.len <= 0 THEN d.val = 0 /\ numbers = {} ELSE numbers = {<<d.val, d.len>>}

LEMMA GrammarDecodes ==
  ASSUME NEW at \in Nat, at >= 1, NEW L \in Nat, L = limit, at < L, NEW signed,
         \A i \in 1..(L - 1) : buf[i] \in Nat /\ buf[i] < 2 * Base
  PROVE  Agrees(DecodeLeb(buf, at, L, signed), Grammar(at, signed))
<1>1. PICK e \in 1..MaxLen :
        /\ e = LebEnd(buf, at, L) /\ Ends(buf, at, L, e)
        /\ \A k \in 1..(e - 1) : ~Ends(buf, at, L, k)
  BY LebEndIs
<1>2. /\ e \in Nat /\ e >= 1 /\ MaxLen \in Nat /\ Base \in Nat /\ Base >= 1
      /\ e < MaxLen \/ e = MaxLen
  BY Widths, PowIs
<1>3. PICK x : /\ Grammar(at, signed) = x[1]
               /\ \A k \in 1..MaxLen : x[k] = GrammarStep(x[k + 1], at, k, signed)
  BY GrammarIs
<1>4. Chained(x, at, e)
  <2> SUFFICES ASSUME NEW k \in 1..(e - 1)
               PROVE  x[k] = {<<Base * m[1] + Payload(buf[at + k - 1]), m[2]>> : m \in x[k + 1]}
    BY DEF Chained
  <2>1. PICK b : b = buf[at + k - 1]
    OBVIOUS
  <2>2. at + k <= L /\ k < MaxLen /\ b >= Base /\ k \in 1..MaxLen /\ at + k - 1 \in 1..(L - 1)
    BY <1>1, <1>2, <2>1 DEF Ends, More
  <2>3. b \in Nat /\ b < 2 * Base /\ ~(b < Base)
    BY <1>2, <2>1, <2>2
  <2>4. b - Base \in Nat /\ b - Base < Base /\ (b - Base) + Base = b
    BY <1>2, <2>2, <2>3
  <2>5. Payload(b) = b - Base
    <3>1. PICK c \in Nat : c = b - Base
      BY <2>4
    <3>2. Payload(c + Base) = c
      BY <2>4, <3>1, PayloadOf
    <3> QED
      BY <2>4, <3>1, <3>2
  <2>6. Width - Group * (k - 1) > Group
    BY <2>2, Remaining
  <2>7. ~(at + k - 1 >= limit)
    BY <1>2, <2>2
  <2>8. x[k] = {<<Base * m[1] + (b - Base), m[2]>> : m \in x[k + 1]}
    BY <1>3, <2>1, <2>2, <2>3, <2>6, <2>7, ZenonT(60) DEF GrammarStep
  <2> QED
    BY <2>1, <2>5, <2>8
<1>5. PICK d : d = DecodeLeb(buf, at, L, signed)
  OBVIOUS
<1>6. x[e] = GrammarStep(x[e + 1], at, e, signed)
  BY <1>3
<1>7. ASSUME x[e] = {}, d.len <= 0, d.val = 0 PROVE Agrees(d, x[1])
  <2>1. x[1] = {}
    BY <1>2, <1>4, <1>7, ChainsNone
  <2> QED
    BY <1>7, <2>1 DEF Agrees
<1>8. CASE at + e > L
  <2>1. d = [val |-> 0, len |-> -(e - 1)]
    BY <1>1, <1>5, <1>8 DEF DecodeLeb
  <2>2. x[e] = {}
    BY <1>2, <1>6, <1>8 DEF GrammarStep
  <2> QED
    BY <1>2, <1>3, <1>5, <1>7, <2>1, <2>2
<1>9. CASE at + e <= L
  <2>1. PICK b : b = buf[at + e - 1]
    OBVIOUS
  <2>2. b \in Nat /\ at + e - 1 < L
    BY <1>2, <1>9, <2>1
  <2>3. ~(at + e - 1 >= limit)
    BY <1>2, <2>2
  <2>4. d = IF e = MaxLen /\ (More(b) \/ ~UpperLegal(b, signed)) THEN [val |-> 0, len |-> -e]
            ELSE [val |-> LebValue(Payloads(buf, at, e), e, signed), len |-> e]
    BY <1>1, <1>2, <1>5, <1>9, <2>1 DEF DecodeLeb
  <2>5. ASSUME e = MaxLen, More(b) \/ ~UpperLegal(b, signed) PROVE Agrees(d, x[1])
    <3>1. d.val = 0 /\ d.len <= 0
      BY <1>2, <2>4, <2>5
    <3>2. CASE More(b)
      <4>1. ~(b < Base)
        BY <1>2, <2>2, <3>2 DEF More
      <4>2. ~(Width - Group * (e - 1) > Group)
        BY <1>2, <2>5, Remaining
      <4>3. x[e] = {}
        BY <1>6, <2>1, <2>3, <4>1, <4>2 DEF GrammarStep
      <4> QED
        BY <1>7, <3>1, <4>3
    <3>3. CASE ~More(b)
      <4>1. b < Base
        BY <1>2, <2>2, <3>3 DEF More
      <4>2. DigitSet(b, Width - Group * (e - 1), signed) = {}
        <5>1. ~(e < MaxLen \/ UpperLegal(b, signed))
          BY <1>2, <2>5, <3>3
        <5> QED
          BY <2>2, <4>1, <5>1, DigitSetIs
      <4>3. x[e] = {}
        BY <1>6, <2>1, <2>3, <4>1, <4>2 DEF GrammarStep
      <4> QED
        BY <1>7, <3>1, <4>3
    <3> QED
      BY <3>2, <3>3
  <2>6. ASSUME ~(e = MaxLen /\ (More(b) \/ ~UpperLegal(b, signed))) PROVE Agrees(d, x[1])
    <3>1. ~More(b)
      BY <1>1, <1>9, <2>1, <2>6 DEF Ends
    <3>2. b < Base
      BY <1>2, <2>2, <3>1 DEF More
    <3>3. e < MaxLen \/ UpperLegal(b, signed)
      BY <1>2, <2>6
    <3>4. DigitSet(b, Width - Group * (e - 1), signed) = {DigitValue(b, signed)}
      BY <2>2, <3>2, <3>3, DigitSetIs
    <3>5. x[e] = {<<DigitValue(b, signed), e>>}
      <4>1. x[e] = {<<v, e>> : v \in DigitSet(b, Width - Group * (e - 1), signed)}
        BY <1>6, <2>1, <2>3, <3>2 DEF GrammarStep
      <4> QED
        BY <3>4, <4>1
    <3>6. \A k \in 1..e : buf[at + k - 1] \in Nat
      BY <1>2, <1>9
    <3>7. /\ DigitValue(b, signed) \in Int
          /\ LebValue(Payloads(buf, at, e), e, signed) =
               Payloads(buf, at, e - 1) + DigitValue(b, signed) * Pow(e - 1)
      <4>1. e = MaxLen => UpperLegal(b, signed)
        BY <1>2, <3>3
      <4>2. ValueSplits(buf, at, e, b, signed)
        BY <2>1, <2>2, <3>2, <3>6, <4>1, ValueIs
      <4> QED
        BY <4>2 DEF ValueSplits
    <3>8. x[1] = {<<Payloads(buf, at, e - 1) + DigitValue(b, signed) * Pow(e - 1), e>>}
      <4>1. PICK v \in Int : v = DigitValue(b, signed)
        BY <3>7
      <4>2. x[e] = {<<v, e>>}
        BY <3>5, <4>1
      <4>3. x[1] = {<<Payloads(buf, at, e - 1) + v * Pow(e - 1), e>>}
        <5>1. at \in Nat /\ e \in 1..MaxLen
          BY <1>2
        <5>2. Chained(x, at, e)
          BY <1>4
        <5>3. ChainIs(x[1], at, e, v)
          BY <3>6, <4>2, <5>1, <5>2, ChainsOne
        <5> QED
          BY <5>3 DEF ChainIs
      <4> QED
        BY <4>1, <4>3
    <3>9. d.val = LebValue(Payloads(buf, at, e), e, signed) /\ d.len = e
      BY <2>4, <2>6
    <3>10. ~(d.len <= 0)
      BY <1>2, <3>9
    <3>11. x[1] = {<<d.val, d.len>>}
      BY <3>7, <3>8, <3>9
    <3> QED
      BY <3>10, <3>11 DEF Agrees
  <2>7. Agrees(d, x[1])
    BY <2>5, <2>6
  <2> QED
    BY <1>3, <1>5, <2>7
<1>10. at + e > L \/ at + e <= L
  BY <1>2
<1> QED
  BY <1>8, <1>9, <1>10

\* What a call of a LEB reader returns and where it leaves the pointer.
LEMMA GrammarRead ==
  ASSUME BInv, NEW signed, NEW r, r = ReadLeb(buf, ptr, limit, signed)
  PROVE  LET numbers == Grammar(ptr, signed)
         IN IF numbers # {} THEN <<r.val, r.ptr - ptr>> \in numbers
            ELSE r.val = 0 /\ r.ptr = IF ptr > limit THEN ptr ELSE limit
<1>1. PICK at \in Nat, L \in Nat : at = ptr /\ at >= 1 /\ L = limit
  BY DEF BInv, limit
<1>2. \A i \in 1..(L - 1) : buf[i] \in Nat /\ buf[i] < 2 * Base
  BY <1>1 DEF BInv, limit
<1>3. r = ReadLeb(buf, at, L, signed)
  BY <1>1
<1>4. CASE at >= L
  <2>1. r = [val |-> 0, ptr |-> at]
    BY <1>3, <1>4, ReadLebIs
  <2>2. Grammar(ptr, signed) = {}
    <3>1. PICK x : /\ Grammar(at, signed) = x[1]
                   /\ \A k \in 1..MaxLen : x[k] = GrammarStep(x[k + 1], at, k, signed)
      BY GrammarIs
    <3>2. 1 \in 1..MaxLen
      BY Widths
    <3>3. at + 1 - 1 >= limit
      BY <1>1, <1>4
    <3>4. x[1] = {}
      BY <3>1, <3>2, <3>3 DEF GrammarStep
    <3> QED
      BY <1>1, <3>1, <3>4
  <2>3. r.val = 0 /\ r.ptr = IF ptr > limit THEN ptr ELSE limit
    BY <1>1, <1>4, <2>1
  <2> QED
    BY <2>2, <2>3
<1>5. CASE at < L
  <2>1. PICK d : d = DecodeLeb(buf, at, L, signed)
    OBVIOUS
  <2>2. r = [val |-> d.val, ptr |-> AfterLeb(at, L, d.len)]
    BY <1>3, <1>5, <2>1, ReadLebIs
  <2>3. Agrees(d, Grammar(at, signed))
    BY <1>1, <1>2, <1>5, <2>1, GrammarDecodes
  <2>4. d.len \in Int
    BY <1>1, <1>2, <1>5, <2>1, DecodeRange
  <2>5. CASE d.len <= 0
    <3>1. Grammar(at, signed) = {} /\ r.val = 0 /\ r.ptr = L
      BY <2>2, <2>3, <2>5 DEF Agrees, AfterLeb
    <3> QED
      BY <1>1, <1>5, <3>1
  <2>6. CASE ~(d.len <= 0)
    <3>1. Grammar(at, signed) = {<<d.val, d.len>>}
      BY <2>3, <2>6 DEF Agrees
    <3>2. r.val = d.val /\ r.ptr = at + d.len
      BY <2>2, <2>6 DEF AfterLeb
    <3>3. r.ptr - ptr = d.len
      BY <1>1, <2>4, <3>2
    <3> QED
      BY <1>1, <3>1, <3>2, <3>3
  <2> QED
    BY <2>5, <2>6
<1> QED
  BY <1>1, <1>4, <1>5

\* The property of one step.
GrammarFollowed ==
  last'.call \in LebCalls =>
    LET numbers == Grammar(ptr, last'.call = "i32leb")
    IN IF numbers # {} THEN <<last'.val, ptr' - ptr>> \in numbers
       ELSE last'.val = 0 /\ ptr' = IF ptr > limit THEN ptr ELSE limit

LEMMA StepFollowsGrammar ==
  ASSUME BInv, [Next]_vars
  PROVE  [GrammarFollowed]_vars
<1>1. ASSUME ReadU32Leb PROVE GrammarFollowed
  <2>1. PICK r : r = ReadLeb(buf, ptr, limit, FALSE)
    OBVIOUS
  <2>2. ptr' = r.ptr /\ last' = [call |-> "u32leb", from |-> ptr, val |-> r.val]
    BY <1>1, <2>1 DEF ReadU32Leb, CallLeb, Return
  <2>3. last'.val = r.val /\ (last'.call = "i32leb") = FALSE
    BY <2>2
  <2> QED
    BY <2>1, <2>2, <2>3, GrammarRead DEF GrammarFollowed
<1>2. ASSUME ReadI32Leb PROVE GrammarFollowed
  <2>1. PICK r : r = ReadLeb(buf, ptr, limit, TRUE)
    OBVIOUS
  <2>2. ptr' = r.ptr /\ last' = [call |-> "i32leb", from |-> ptr, val |-> r.val]
    BY <1>2, <2>1 DEF ReadI32Leb, CallLeb, Return
  <2>3. last'.val = r.val /\ (last'.call = "i32leb") = TRUE
    BY <2>2
  <2> QED
    BY <2>1, <2>2, <2>3, GrammarRead DEF GrammarFollowed
<1>3. ASSUME ReadU8 \/ ReadU32 \/ ReadU64 \/ ReadString
      PROVE  last'.call \notin LebCalls
  <2>1. last'.call \in {"u8", "u32", "u64", "string"}
    <3>1. ASSUME ReadString PROVE last'.call = "string"
      <4>1. PICK v : Return("string", v)
        BY <3>1 DEF ReadString
      <4> QED
        BY <4>1 DEF Return
    <3>2. ASSUME ReadU8 PROVE last'.call = "u8"
      BY <3>2 DEF ReadU8, Return
    <3>3. ASSUME ReadU32 PROVE last'.call = "u32"
      BY <3>3 DEF ReadU32, Return
    <3>4. ASSUME ReadU64 PROVE last'.call = "u64"
      BY <3>4 DEF ReadU64, Return
    <3> QED
      BY <1>3, <3>1, <3>2, <3>3, <3>4
  <2> QED
    BY <2>1 DEF LebCalls
<1>4. ASSUME last'.call \notin LebCalls PROVE GrammarFollowed
  BY <1>4 DEF GrammarFollowed
<1> QED
  BY <1>1, <1>2, <1>3, <1>4 DEF Next

\* A LEB reader takes what the WebAssembly grammar has a number for, with its
\* value, and nothing else: of bytes in which the grammar finds no number it
\* makes 0 and the end of the buffer.
THEOREM ReadersFollowTheGrammar == Spec => ReadsTheGrammar
<1>1. Init => BInv
  BY BufferInit
<1>2. BInv /\ [Next]_vars => BInv'
  BY BufferStep
<1>3. BInv /\ [Next]_vars => [GrammarFollowed]_vars
  BY StepFollowsGrammar
<1> QED
  BY <1>1, <1>2, <1>3, PTL DEF Spec, ReadsTheGrammar, GrammarFollowed

-----------------------------------------------------------------------------
(***************************************************************************)
(* While bytes are missing, the file offset is where the next byte belongs *)
(* in memory; it is read from there until the memory is full.  This, and    *)
(* the value that is returned, make WholeOrFailed inductive.                *)
(***************************************************************************)
Counts ==
  /\ disk \in Nat /\ fpos \in Nat /\ size \in Nat
  /\ remain \in Nat /\ p \in Nat

LoadInv ==
  /\ Counts
  /\ pc \in {"open", "stat", "read", "done"}
  /\ fpos = p
  /\ WholeOrFailed
  /\ pc \in {"open", "stat"} => p = 0 /\ fpos = 0

LEMMA LoadStarts == LoadInit => LoadInv
  BY SizesAssumption DEF LoadInit, LoadInv, Counts, WholeOrFailed

(***************************************************************************)
(* One turn of the loop adds bytes behind those that are there.             *)
(***************************************************************************)
LEMMA ReadKeeps == LoadInv /\ ReadSome => LoadInv'
<1> SUFFICES ASSUME LoadInv, ReadSome PROVE LoadInv'
  OBVIOUS
<1>1. PICK r \in 0..remain :
        /\ IF fpos < disk THEN r \in 1..(disk - fpos) ELSE r = 0
        /\ start' = [k \in 1..size |-> IF k \in (p + 1)..(p + r) THEN fpos + k - p ELSE start[k]]
        /\ fpos' = fpos + r
        /\ remain' = Left(r)
        /\ p' = Advanced(r)
  BY DEF ReadSome
<1>2. /\ p + remain = size /\ fpos = p /\ size \in Nat /\ remain \in Nat /\ p \in Nat
      /\ \A k \in 1..size : start[k] = IF k <= p THEN k ELSE Unread
      /\ size' = size /\ pc' = "read" /\ pc = "read" /\ disk' = disk /\ disk \in Nat
  BY DEF LoadInv, Counts, WholeOrFailed, ReadSome
<1>3. r \in Nat /\ p' = p + r /\ remain' = remain - r /\ remain' \in Nat /\ p' \in Nat /\ fpos' = p'
  BY <1>1, <1>2 DEF Left, Advanced
<1>4. ASSUME NEW k \in 1..size' PROVE start'[k] = IF k <= p' THEN k ELSE Unread
  <2>1. k \in 1..size
    BY <1>2
  <2>2. start'[k] = IF k \in (p + 1)..(p + r) THEN fpos + k - p ELSE start[k]
    BY <1>1, <2>1
  <2>3. CASE k \in (p + 1)..(p + r)
    BY <2>1, <2>2, <2>3, <1>2, <1>3
  <2>4. CASE k \notin (p + 1)..(p + r)
    <3>1. start'[k] = IF k <= p THEN k ELSE Unread
      BY <2>1, <2>2, <2>4, <1>2
    <3>2. (k <= p) <=> (k <= p')
      BY <2>1, <2>4, <1>2, <1>3
    <3> QED
      BY <3>1, <3>2
  <2> QED
    BY <2>3, <2>4
<1>5. p' + remain' = size'
  BY <1>2, <1>3
<1> QED
  BY <1>2, <1>3, <1>4, <1>5 DEF LoadInv, Counts, WholeOrFailed

LEMMA LoadReturnKeeps ==
  ASSUME NEW r \in Int, LoadInv, LoadReturn(r), r < 0 \/ (r = size /\ p = size)
  PROVE  LoadInv'
  BY DEF LoadInv, Counts, WholeOrFailed, LoadReturn

LEMMA LoadKeeps == LoadInv /\ [LoadNext]_loadVars => LoadInv'
<1> SUFFICES ASSUME LoadInv, [LoadNext]_loadVars PROVE LoadInv'
  OBVIOUS
<1>1. CASE Open
  BY <1>1, LoadReturnKeeps DEF Open, LoadInv, Counts, WholeOrFailed
<1>2. CASE Stat
  <2>1. CASE LoadReturn(-1)
    BY <2>1, LoadReturnKeeps
  <2>2. CASE ~LoadReturn(-1)
    <3>1. /\ size' = disk /\ remain' = disk /\ p' = 0 /\ disk' = disk /\ fpos' = fpos
          /\ start' = [k \in 1..disk |-> Unread] /\ pc' = "read" /\ pc = "stat"
      BY <1>2, <2>2 DEF Stat
    <3>2. disk \in Nat /\ fpos = 0
      BY <3>1 DEF LoadInv, Counts
    <3> QED
      BY <3>1, <3>2 DEF LoadInv, Counts, WholeOrFailed
  <2> QED
    BY <2>1, <2>2
<1>3. CASE ReadSome
  BY <1>3, ReadKeeps
<1>4. CASE ReadFails
  BY <1>4, LoadReturnKeeps DEF ReadFails
<1>5. CASE ReadDone
  <2>1. p = size /\ size \in Int /\ LoadReturn(size)
    BY <1>5 DEF ReadDone, LoadInv, Counts, WholeOrFailed
  <2> QED
    BY <2>1, LoadReturnKeeps
<1>6. CASE Resize
  BY <1>6, SizesAssumption DEF Resize, LoadInv, Counts, WholeOrFailed
<1>7. CASE UNCHANGED loadVars
  BY <1>7 DEF loadVars, LoadInv, Counts, WholeOrFailed
<1> QED
  BY <1>1, <1>2, <1>3, <1>4, <1>5, <1>6, <1>7 DEF LoadNext, Load

(***************************************************************************)
(* load_file returns a whole file or an error, for files of every length,  *)
(* however the reads are cut and whatever is written to the file meanwhile. *)
(***************************************************************************)
THEOREM LoadedWhole == LoadSpec => []WholeOrFailed
<1>1. LoadInv => WholeOrFailed
  BY DEF LoadInv
<1> QED
  BY LoadStarts, LoadKeeps, <1>1, PTL DEF LoadSpec
=============================================================================
