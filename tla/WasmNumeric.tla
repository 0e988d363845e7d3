----------------------------- MODULE WasmNumeric -----------------------------
(***************************************************************************)
(* What WebAssembly says of the results of its numeric instructions: not   *)
(* how they are computed but which number is right, bit by bit for shifts  *)
(* and rotations, by their defining equations for quotients and            *)
(* remainders, by bounds for truncations.                                  *)
(***************************************************************************)
EXTENDS Integers, FiniteSets

CONSTANTS Width, Trap

Range32 == 0..(2^Width - 1)
Places  == 0..(Width - 1)

BitOf(x, k)   == (x \div 2^k) % 2
Signed32(x)   == IF x >= 2^(Width - 1) THEN x - 2^Width ELSE x
Magnitude(x)  == IF x < 0 THEN -x ELSE x
Truth(p)      == IF p THEN 1 ELSE 0

\* q is the quotient of x and y rounded towards zero: what is left over is
\* smaller than y and has the sign of x.
IsQuotient(x, y, q) ==
  LET r == x - q * y
  IN Magnitude(r) < Magnitude(y) /\ (r # 0 => (r < 0) = (x < 0))

Divides(o, a, b, r) ==
  LET signed == o \in {"div_s", "rem_s"}
      x == IF signed THEN Signed32(a) ELSE a
      y == IF signed THEN Signed32(b) ELSE b
      value == IF signed THEN Signed32(r) ELSE r
      representable == IF signed THEN (-2^(Width - 1))..(2^(Width - 1) - 1) ELSE Range32
  IN IF o \in {"div_s", "div_u"}
     THEN IF r = Trap THEN ~ \E q \in representable : IsQuotient(x, y, q)
          ELSE r \in Range32 /\ IsQuotient(x, y, value)
     ELSE IF r = Trap THEN y = 0
          ELSE /\ r \in Range32
               /\ \E q \in (-2^(Width - 1))..(2^Width - 1) :
                    IsQuotient(x, y, q) /\ x = q * y + value

\* Where bit k of the result of a shift or rotation of a by n comes from: a
\* bit of a, the constant 0, or the sign.
Moved(o, a, n, k) ==
  LET sign == BitOf(a, Width - 1) IN
  CASE o = "rotl"  -> BitOf(a, (k - n) % Width)
    [] o = "rotr"  -> BitOf(a, (k + n) % Width)
    [] o = "shl"   -> IF k >= n THEN BitOf(a, k - n) ELSE 0
    [] o = "shr_u" -> IF k + n < Width THEN BitOf(a, k + n) ELSE 0
    [] o = "shr_s" -> IF k + n < Width THEN BitOf(a, k + n) ELSE sign

Combined(o, x, y) ==
  CASE o = "and" -> Truth(x = 1 /\ y = 1)
    [] o = "or"  -> Truth(x = 1 \/ y = 1)
    [] o = "xor" -> Truth(x # y)

\* r leads with, or trails, exactly this many zeros.
LeadingZeros(a, r) ==
  /\ \A k \in Places : k > Width - 1 - r => BitOf(a, k) = 0
  /\ r < Width => BitOf(a, Width - 1 - r) = 1
TrailingZeros(a, r) ==
  /\ \A k \in Places : k < r => BitOf(a, k) = 0
  /\ r < Width => BitOf(a, r) = 1

Congruent(x, y) == (x - y) % 2^Width = 0

Compared(o, a, b) ==
  LET x == Signed32(a)  y == Signed32(b) IN
  CASE o = "eq"   -> a = b      [] o = "ne"   -> ~(a = b)
    [] o = "lt_s" -> x < y      [] o = "lt_u" -> a < b
    [] o = "gt_s" -> y < x      [] o = "gt_u" -> b < a
    [] o = "le_s" -> ~(y < x)   [] o = "le_u" -> ~(b < a)
    [] o = "ge_s" -> ~(x < y)   [] o = "ge_u" -> ~(a < b)

\* r is the result of o on the operands a and b; of a unary instruction on b,
\* where an extension has the number of its bits in a.
Yields(o, a, b, r) ==
  /\ r \in Range32
  /\ CASE o = "add" -> Congruent(r, a + b)
       [] o = "sub" -> Congruent(r, a - b)
       [] o = "mul" -> Congruent(r, a * b)
       [] o \in {"and", "or", "xor"} ->
            \A k \in Places : BitOf(r, k) = Combined(o, BitOf(a, k), BitOf(b, k))
       [] o \in {"shl", "shr_s", "shr_u", "rotl", "rotr"} ->
            \A k \in Places : BitOf(r, k) = Moved(o, a, b % Width, k)
       [] o = "clz"    -> r \in 0..Width /\ LeadingZeros(b, r)
       [] o = "ctz"    -> r \in 0..Width /\ TrailingZeros(b, r)
       [] o = "popcnt" -> r = Cardinality({k \in Places : BitOf(b, k) = 1})
       [] o = "extend" -> \A k \in Places :
                            BitOf(r, k) = BitOf(b, IF k < a THEN k ELSE a - 1)
       [] o = "eqz"    -> r = Truth(b = 0)
       [] OTHER        -> r = Truth(Compared(o, a, b))

\* z is the number of halves d without its fraction.
IsTruncated(d, z) ==
  /\ 2 * Magnitude(z) <= Magnitude(d) /\ Magnitude(d) < 2 * Magnitude(z) + 2
  /\ z # 0 => (z < 0) = (d < 0)

Truncates(o, d, r) ==
  LET representable ==
        IF o = "trunc_s" THEN (-2^(Width - 1))..(2^(Width - 1) - 1) ELSE Range32
  IN IF r = Trap
     THEN d.kind = "number" => ~ \E z \in representable : IsTruncated(d.halves, z)
     ELSE /\ d.kind = "number" /\ r \in Range32
          /\ IsTruncated(d.halves, IF o = "trunc_s" THEN Signed32(r) ELSE r)

Converts(o, a, d) ==
  d = [kind |-> "number", halves |-> 2 * (IF o = "convert_s" THEN Signed32(a) ELSE a)]
=============================================================================
