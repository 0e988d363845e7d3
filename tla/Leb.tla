--------------------------------- MODULE Leb ---------------------------------
(***************************************************************************)
(* The LEB128 codec: the decoders of common.c (the macro BODY and its four *)
(* instances) and the encoders of weeify.c.                                *)
(*                                                                         *)
(* A byte carries Group payload bits, low bits first, and one bit that     *)
(* says that more bytes follow; a number has Width bits.  In the program   *)
(* Group is 7 and Width 32 or 64; both are constants so that every byte    *)
(* sequence can be checked at a smaller width.  Bytes are the numbers      *)
(* 0..(2 * Base - 1); positions in a buffer count from 1 and its limit is  *)
(* the position behind its last byte.                                      *)
(***************************************************************************)
EXTENDS Integers, Sequences

CONSTANTS Group, Width

\* A number needs more than one byte, and its width is not a multiple of the
\* group: the last byte is never full.
LebAssumption == /\ Group \in Nat \ {0, 1}
                 /\ Width \in Nat /\ Width > Group
                 /\ Width % Group # 0

ASSUME LebAssumption

Base == 2^Group

\* The bytes a number can take, and the payload bits used of the last one.
MaxLen   == (Width \div Group) + 1
LastBits == Width % Group

\* Arithmetic, of powers that the provers know nothing of.
ASSUME LebPowersAssumption ==
  /\ 2^0 = 1 /\ 2^1 = 2
  /\ \A m \in 0..(Group * MaxLen) : 2^m \in Nat \ {0}
  /\ \A m, n \in 0..(Group * MaxLen) : m + n <= Group * MaxLen => 2^(m + n) = 2^m * 2^n
  /\ \A k \in 0..MaxLen : Base^k = 2^(Group * k)

More(b)    == b >= Base
Payload(b) == b % Base

\* The two's complement reading of the low n bits of v.
SignExtend(v, n) == LET low == v % 2^n IN IF low >= 2^(n - 1) THEN low - 2^n ELSE low

-----------------------------------------------------------------------------
\* The bits of the last byte from the highest used one up: clear, or, for a
\* signed number, all set, or, for an unsigned one, only that one set.
UpperLegal(b, signed) ==
  LET upper == Payload(b) \div 2^(LastBits - 1)
  IN upper \in {0, IF signed THEN 2^(Group - LastBits + 1) - 1 ELSE 1}

\* Mutant: a number that ends before its last byte is not sign-extended.
MutLebValue(result, k, signed) ==
  IF signed /\ k * Group > Width THEN SignExtend(result, Width)
  ELSE result % 2^Width

\* What is returned when k bytes put the payload into result: a signed number
\* is extended from its highest bit, but from none above its width.
LebValue(result, k, signed) ==
  IF signed THEN SignExtend(result, IF k * Group > Width THEN Width ELSE k * Group)
  ELSE result % 2^Width

\* The payload bits of the n bytes at ptr.
Payloads(bytes, ptr, n) ==
  LET result[k \in 0..n] ==
        IF k = 0 THEN 0 ELSE result[k - 1] + Payload(bytes[ptr + k - 1]) * Base^(k - 1)
  IN result[n]

\* The number of the byte with which the decoders' loop ends: the first that
\* says so, the last of the width, or the one at the limit, which is not read.
LebEnd(bytes, ptr, limit) ==
  LET Ends(k) == ptr + k > limit \/ k = MaxLen \/ ~More(bytes[ptr + k - 1])
  IN CHOOSE k \in 1..MaxLen : Ends(k) /\ \A j \in 1..(k - 1) : ~Ends(j)

\* decode_{i32,u32,i64,u64}leb on the bytes from ptr up to the limit: the
\* value, and the number of bytes read, negated if they are malformed.
DecodeLeb(bytes, ptr, limit, signed) ==
  LET Error(n) == [val |-> 0, len |-> -n]
      Bad(b)   == More(b) \/ ~UpperLegal(b, signed)
      number[k \in 1..MaxLen] ==
        IF ptr + k > limit THEN Error(k - 1)
        ELSE IF k = MaxLen /\ Bad(bytes[ptr + k - 1]) THEN Error(k)
        ELSE [val |-> LebValue(Payloads(bytes, ptr, k), k, signed), len |-> k]
  IN number[LebEnd(bytes, ptr, limit)]

\* A malformed number forces failure: nothing is left to read behind it.
AfterLeb(ptr, limit, len) == IF len <= 0 THEN limit ELSE ptr + len

\* read_u32leb and read_i32leb at ptr: the value and the new pointer.
ReadLeb(bytes, ptr, limit, signed) ==
  LET read[b \in [ptr : Nat, end : Nat]] ==
        IF b.ptr >= b.end THEN [val |-> 0, ptr |-> b.ptr]
        ELSE LET d == DecodeLeb(bytes, b.ptr, b.end, signed)
             IN [val |-> d.val, ptr |-> AfterLeb(b.ptr, b.end, d.len)]
  IN read[[ptr |-> ptr, end |-> limit]]

-----------------------------------------------------------------------------
Digit(val, k) == (val \div Base^(k - 1)) % Base

\* Mutant: the last byte says that more follow, too.
MutEmitPadded(val, n) == [k \in 1..n |-> Digit(val, k) + Base]

\* val in exactly n bytes; bits that do not fit are dropped.  emit_u32leb5 has
\* MaxLen bytes, emit_u32leb4 one less.
EmitPadded(val, n) ==
  [k \in 1..n |-> Digit(val, k) + IF k < n THEN Base ELSE 0]

EmitLeb5(val) == EmitPadded(val, MaxLen)

EmitLeb4(val) == EmitPadded(val, MaxLen - 1)

\* emit_u32leb: bytes until nothing of the value is left, which it is after
\* the first one at the earliest.
EmitLeb(val) ==
  LET Gone(k) == val \div Base^k = 0
  IN EmitPadded(val, CHOOSE n \in 1..MaxLen : Gone(n) /\ \A j \in 1..(n - 1) : ~Gone(j))
=============================================================================
