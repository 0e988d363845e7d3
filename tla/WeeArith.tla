------------------------------ MODULE WeeArith ------------------------------
(***************************************************************************)
(* The numeric instructions of weerun.c: what each handler pushes for the  *)
(* operands it pops.                                                       *)
(*                                                                         *)
(* Numbers are of Width bits where the code has 32, and of 2 * Width where *)
(* it has 64.  What C leaves undefined is what the machine does, an x86-64 *)
(* processor: a shift count is taken modulo the width, an overflowing      *)
(* division ends the process (SIGFPE), and a double that has no integer is *)
(* converted to the smallest integer.  A double is a number of halves, an  *)
(* infinity or NaN.                                                        *)
(***************************************************************************)
EXTENDS Integers

CONSTANTS
  Width,     \* the bits of an i32; a power of two
  ExtSizes,  \* the bits from which values are sign-extended: 8 and 16
  Doubles,   \* the doubles that are converted
  Trap,      \* the handler ended the program (TRAP)
  SigFpe,    \* the processor did
  None       \* no result yet

ASSUME WidthAssumption == Width \in Nat \ {0} /\ ExtSizes \subseteq 1..(Width - 1)

\* Arithmetic, of powers that the provers know nothing of.
ASSUME PowerAssumption ==
  /\ 2^0 = 1 /\ 2^1 = 2
  /\ \A m \in 0..Width : 2^m \in Nat \ {0}
  /\ \A m, n \in 0..Width : m + n <= Width => 2^(m + n) = 2^m * 2^n
  /\ 2^Width % Width = 0      \* as Width is a power of two

ASSUME OutcomesAssumption ==
  SigFpe \notin Int /\ Trap \notin Int /\ SigFpe # Trap /\ SigFpe # None

\* Numbers of halves; a double of another kind has no integer.
ASSUME DoublesAssumption == \A d \in Doubles : d.kind = "number" => d.halves \in Int

VARIABLES
  op,   \* the instruction
  v1,   \* the operand popped first: the right one
  v2,   \* the one popped second, if there is one
  res   \* what is pushed, or how the program ended

vars == <<op, v1, v2, res>>

-----------------------------------------------------------------------------
Modulus == 2^Width
Half    == 2^(Width - 1)
Words   == 0..(Modulus - 1)

\* Casts to uint32_t and int32_t, to uint64_t, and of a comparison to int.
Unsigned(x)   == x % Modulus
Signed(x)     == Unsigned(x + Half) - Half
Unsigned64(x) == x % (Modulus * Modulus)
Bool(p)       == IF p THEN 1 ELSE 0

INT_MIN == -Half
INT_MAX == Half - 1

Abs(x)  == IF x < 0 THEN -x ELSE x
Sign(x) == IF x < 0 THEN -1 ELSE 1

\* idiv: the quotient and the remainder, rounded towards zero.
Idiv(x, y) == Sign(x) * Sign(y) * (Abs(x) \div Abs(y))

\* Mutant: the remainder takes the sign of the divisor.
MutIrem(x, y) ==
  LET r == x - y * Idiv(x, y)
  IN IF r # 0 /\ Sign(r) # Sign(y) THEN r + y ELSE r

Irem(x, y) == x - y * Idiv(x, y)
IdivFaults(x, y) == y = 0 \/ Idiv(x, y) > INT_MAX

\* The bits of x, those of y, combined one by one.
Bit(x, k) == (x \div 2^k) % 2
FromBits(bits) ==
  LET sum[k \in 0..Width] == IF k = 0 THEN 0 ELSE sum[k - 1] + bits[k - 1] * 2^(k - 1)
  IN sum[Width]
BitAnd(x, y) == FromBits([k \in 0..(Width - 1) |-> Bit(x, k) * Bit(y, k)])
BitOr(x, y)  == FromBits([k \in 0..(Width - 1) |-> Bit(x, k) + Bit(y, k) - Bit(x, k) * Bit(y, k)])
BitXor(x, y) == FromBits([k \in 0..(Width - 1) |-> (Bit(x, k) + Bit(y, k)) % 2])

\* << and >> by a count in a register.
Count(c) == c % Width
Shl(x, c) == Unsigned(x * 2^Count(c))
Shr(x, c) == x \div 2^Count(c)

-----------------------------------------------------------------------------
\* BINARY_OP_I32: the operators of C on operands cast to one signedness.
BinaryOps == {"add", "sub", "mul", "and", "or", "xor", "shl", "shr_s", "shr_u",
              "eq", "ne", "lt_s", "lt_u", "gt_s", "gt_u", "le_s", "le_u", "ge_s", "ge_u"}

BinaryOpI32(o, x, y) ==
  CASE o = "add"   -> Unsigned(x + y)
    [] o = "sub"   -> Unsigned(x - y)
    [] o = "mul"   -> Unsigned(x * y)
    [] o = "and"   -> BitAnd(x, y)
    [] o = "or"    -> BitOr(x, y)
    [] o = "xor"   -> BitXor(x, y)
    [] o = "shl"   -> Shl(x, y)
    [] o = "shr_s" -> Unsigned(Shr(Signed(x), y))
    [] o = "shr_u" -> Shr(x, y)
    [] o = "eq"    -> Bool(x = y)
    [] o = "ne"    -> Bool(x # y)
    [] o = "lt_s"  -> Bool(Signed(x) < Signed(y))
    [] o = "lt_u"  -> Bool(x < y)
    [] o = "gt_s"  -> Bool(Signed(x) > Signed(y))
    [] o = "gt_u"  -> Bool(x > y)
    [] o = "le_s"  -> Bool(Signed(x) <= Signed(y))
    [] o = "le_u"  -> Bool(x <= y)
    [] o = "ge_s"  -> Bool(Signed(x) >= Signed(y))
    [] o = "ge_u"  -> Bool(x >= y)

\* Mutant: only the division by zero is checked.
MutDivOpI32(x, y) ==
  CASE y = 0 -> Trap
    [] OTHER -> IF IdivFaults(Signed(x), Signed(y)) THEN SigFpe
                ELSE Unsigned(Idiv(Signed(x), Signed(y)))

\* DIV_OP_I32.
DivOpI32(x, y) ==
  CASE y = 0                                       -> Trap
    [] Signed(x) = INT_MIN /\ Signed(y) = -1       -> Trap
    [] OTHER -> IF IdivFaults(Signed(x), Signed(y)) THEN SigFpe
                ELSE Unsigned(Idiv(Signed(x), Signed(y)))

\* DIV_OP_U32.
DivOpU32(x, y) == IF y = 0 THEN Trap ELSE x \div y

\* REM_OP_I32: the remainder comes out of the same instruction as the quotient.
RemOpI32(x, y) ==
  CASE y = 0                                 -> Trap
    [] Signed(x) = INT_MIN /\ Signed(y) = -1 -> 0
    [] OTHER -> IF IdivFaults(Signed(x), Signed(y)) THEN SigFpe
                ELSE Unsigned(Irem(Signed(x), Signed(y)))

\* REM_OP_U32.
RemOpU32(x, y) == IF y = 0 THEN Trap ELSE x % y

\* Mutant: the second shift is by one bit too few.
MutRotl(x, y) == BitOr(Shl(x, y), Shr(x, Unsigned(Width - 1 - y)))

\* ROTATE_OP: two shifts, by the amount and by the rest of the width.  The
\* rest is an unsigned number, and both counts are taken modulo the width.
Rotl(x, y) == BitOr(Shl(x, y), Shr(x, Unsigned(Width - y)))
Rotr(x, y) == BitOr(Shr(x, y), Shl(x, Unsigned(Width - y)))

-----------------------------------------------------------------------------
\* EXT_I32: the sign bit is set in all the bits above it, or they are cleared.
ExtI32(x, sz) ==
  IF Bit(x, sz - 1) = 1
  THEN BitOr(x, (2^(Width - sz) - 1) * 2^sz)
  ELSE BitAnd(x, 2^sz - 1)

\* clz, ctz and popcnt; the builtins have no result for 0.
Ones(x) == {k \in 0..(Width - 1) : Bit(x, k) = 1}
Clz(x)  == IF x # 0 THEN CHOOSE n \in 0..(Width - 1) :
                           Width - 1 - n \in Ones(x) /\ \A k \in Ones(x) : k <= Width - 1 - n
           ELSE Width
Ctz(x)  == IF x # 0 THEN CHOOSE n \in Ones(x) : \A k \in Ones(x) : n <= k ELSE Width
Popcnt(x) == LET sum[k \in 0..Width] == IF k = 0 THEN 0 ELSE sum[k - 1] + Bit(x, k - 1)
             IN sum[Width]

-----------------------------------------------------------------------------
Number(h) == [kind |-> "number", halves |-> h]

\* cvttsd2si of a double that trunc() made an integer.
ToInt64(d) ==
  IF d.kind = "number" /\ d.halves \in (-Half * Modulus * 2)..((Half * Modulus - 1) * 2)
  THEN d.halves \div 2 ELSE -Half * Modulus

\* (uint64_t) of a double: from 2^63 on it is converted as a double less 2^63.
TwoTo63 == Half * Modulus
ToUint64(d) ==
  CASE d.kind = "number" /\ d.halves >= 2 * TwoTo63 ->
         Unsigned64(ToInt64(Number(d.halves - 2 * TwoTo63)) + TwoTo63)
    [] d.kind = "inf" -> Unsigned64(ToInt64(d) + TwoTo63)
    [] OTHER          -> Unsigned64(ToInt64(d))

\* trunc() of math.h.
CTrunc(d) ==
  IF d.kind = "number" THEN Number(2 * Sign(d.halves) * (Abs(d.halves) \div 2)) ELSE d

\* TRUNC_S and TRUNC_U.
TruncS(d) ==
  LET n == ToInt64(CTrunc(d))
  IN IF n > INT_MAX \/ n < INT_MIN THEN Trap ELSE Unsigned(n)

\* Mutant: negative numbers are converted without a test.
MutTruncU(d) ==
  LET n == ToInt64(CTrunc(d))
  IN IF n >= Modulus THEN Trap ELSE Unsigned(n)

TruncU(d) ==
  LET n == ToUint64(CTrunc(d))
  IN IF n \div Modulus # 0 THEN Trap ELSE Unsigned(n)

\* CONVERT.
ConvertS(x) == Number(2 * Signed(x))
ConvertU(x) == Number(2 * x)

-----------------------------------------------------------------------------
DivOps   == {"div_s", "div_u", "rem_s", "rem_u"}
UnaryOps == {"eqz", "clz", "ctz", "popcnt", "convert_s", "convert_u"}

Init ==
  /\ \/ op \in BinaryOps \cup DivOps \cup {"rotl", "rotr"} /\ v1 \in Words /\ v2 \in Words
     \/ op \in UnaryOps /\ v1 \in Words /\ v2 = None
     \/ op = "extend" /\ v1 \in Words /\ v2 \in ExtSizes
     \/ op \in {"trunc_s", "trunc_u"} /\ v1 \in Doubles /\ v2 = None
  /\ res = None

\* One handler: the result of instruction o is r.
Handler(o, r) ==
  /\ op = o /\ res = None
  /\ res' = r
  /\ UNCHANGED <<op, v1, v2>>

Next ==
  \/ \E o \in BinaryOps : Handler(o, BinaryOpI32(o, v2, v1))
  \/ Handler("div_s", DivOpI32(v2, v1))
  \/ Handler("div_u", DivOpU32(v2, v1))
  \/ Handler("rem_s", RemOpI32(v2, v1))
  \/ Handler("rem_u", RemOpU32(v2, v1))
  \/ Handler("rotl", Rotl(v2, v1))
  \/ Handler("rotr", Rotr(v2, v1))
  \/ Handler("eqz", Bool(v1 = 0))
  \/ Handler("clz", Clz(v1))
  \/ Handler("ctz", Ctz(v1))
  \/ Handler("popcnt", Popcnt(v1))
  \/ Handler("extend", ExtI32(v1, v2))
  \/ Handler("convert_s", ConvertS(v1))
  \/ Handler("convert_u", ConvertU(v1))
  \/ Handler("trunc_s", TruncS(v1))
  \/ Handler("trunc_u", TruncU(v1))

Spec == Init /\ [][Next]_vars
-----------------------------------------------------------------------------
Wasm == INSTANCE WasmNumeric

\* The checks before a division leave no operands on which idiv faults: the
\* quotient is never the one number too large for an int32_t.
NeverFaults == op \in DivOps => res # SigFpe

\* Divisions and remainders have the quotient and remainder of WebAssembly or
\* trap where it has none.
DivisionsExact ==
  op \in DivOps /\ res \notin {None, SigFpe} => Wasm!Divides(op, v2, v1, res)

\* Every bit of what a shift, a rotation, a sign extension or a bitwise
\* operator pushes comes from where WebAssembly takes it, whatever the count;
\* sums and products wrap, comparisons are of the signedness they name, and
\* bits are counted up to the width.
WordsMatch ==
  op \notin DivOps \cup {"trunc_s", "trunc_u", "convert_s", "convert_u"} /\ res # None
    => Wasm!Yields(op, v2, v1, res)

\* Doubles below 2^64 and other than infinity.  Of the others TRUNC_U makes 0.
Convertible ==
  \A d \in Doubles : d.kind # "inf" /\ (d.kind = "number" => d.halves < 4 * TwoTo63)

\* A double is truncated to the i32 nearest to it towards zero, or the program
\* traps: at the infinities, at NaN, and just beyond either end of the range.
\* An i32 becomes the double of the number it is with the sign, or without.
ConversionsExact ==
  /\ op \in {"trunc_s", "trunc_u"} /\ res # None => Wasm!Truncates(op, v1, res)
  /\ op \in {"convert_s", "convert_u"} /\ res # None => Wasm!Converts(op, v1, res)
=============================================================================
