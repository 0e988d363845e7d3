------------------------------ MODULE WeeBuffer ------------------------------
(***************************************************************************)
(* The buffer every parser of the program reads from (buffer_t, and the    *)
(* read_* functions of common.c), under any sequence of calls.             *)
(*                                                                         *)
(* No reader reports an error to its caller: each returns 0 and leaves the *)
(* pointer somewhere.  Where it leaves it is all that keeps a parser from  *)
(* taking the middle of one field for the start of another.                *)
(***************************************************************************)
EXTENDS Leb

CONSTANTS
  Buffers,    \* the contents a buffer may have
  U32Bytes    \* the bytes of a fixed-size integer, 4 in the program

BufferAssumption == /\ Buffers \subseteq Seq(0..(2 * Base - 1))
                    /\ U32Bytes \in Nat \ {0}

ASSUME BufferAssumption

VARIABLES
  buf,   \* the bytes; the limit, buf->end, is behind the last of them
  ptr,   \* buf->ptr
  last   \* the last call: its name, where it started, what it returned

vars == <<buf, ptr, last>>

limit == Len(buf) + 1

Return(call, val) == last' = [call |-> call, from |-> ptr, val |-> val]

CallLeb(call, signed) ==
  LET r == ReadLeb(buf, ptr, limit, signed)
  IN Return(call, r.val) /\ ptr' = r.ptr /\ UNCHANGED buf

ReadU32Leb == CallLeb("u32leb", FALSE)
ReadI32Leb == CallLeb("i32leb", TRUE)

\* At the end, read_u8 returns 0 and stays where it is.
ReadU8 ==
  /\ UNCHANGED buf
  /\ IF ptr >= limit
     THEN Return("u8", 0) /\ UNCHANGED ptr
     ELSE Return("u8", buf[ptr]) /\ ptr' = ptr + 1

\* The n bytes at p, the low one first.  What is behind the buffer reads as
\* some byte, here 0; nothing is claimed of it.
FixedInt(p, n) ==
  LET sum[k \in 0..n] ==
        IF k = 0 THEN 0
        ELSE sum[k - 1] + (IF p + k - 1 < limit THEN buf[p + k - 1] ELSE 0)
                            * (2 * Base)^(k - 1)
  IN sum[n]

\* read_u32 compares nothing with the end: its callers answer for it.  (The
\* guard only bounds the model: disassemble makes two calls in a row.)
ReadU32 ==
  /\ ptr <= limit
  /\ Return("u32", FixedInt(ptr, U32Bytes))
  /\ ptr' = ptr + U32Bytes
  /\ UNCHANGED buf

\* Mutant: the bound is that of the first half only.
MutReadU64 ==
  /\ UNCHANGED buf
  /\ IF ptr + U32Bytes > limit
     THEN Return("u64", 0) /\ UNCHANGED ptr
     ELSE Return("u64", FixedInt(ptr, 2 * U32Bytes)) /\ ptr' = ptr + 2 * U32Bytes

ReadU64 ==
  /\ UNCHANGED buf
  /\ IF ptr + 2 * U32Bytes > limit
     THEN Return("u64", 0) /\ UNCHANGED ptr
     ELSE Return("u64", FixedInt(ptr, 2 * U32Bytes)) /\ ptr' = ptr + 2 * U32Bytes

\* A length and that many bytes.  If they are not there the pointer stays
\* behind the length and the string is NULL, here the empty string.
ReadString ==
  /\ UNCHANGED buf
  /\ LET sz == ReadLeb(buf, ptr, limit, FALSE)
     IN IF sz.ptr + sz.val > limit
        THEN Return("string", <<>>) /\ ptr' = sz.ptr
        ELSE /\ Return("string", SubSeq(buf, sz.ptr, sz.ptr + sz.val - 1))
             /\ ptr' = sz.ptr + sz.val

-----------------------------------------------------------------------------
Init ==
  /\ buf \in Buffers
  /\ ptr = 1
  /\ last = [call |-> "none", from |-> 1, val |-> 0]

Next == ReadU32Leb \/ ReadI32Leb \/ ReadU8 \/ ReadU32 \/ ReadU64 \/ ReadString

Spec == Init /\ [][Next]_vars
-----------------------------------------------------------------------------
\* The numbers that the WebAssembly grammar finds at p, as <<value, length>>:
\* uN ::= n            if n < 2^7 and n < 2^N
\*      | n m:u(N-7)   if n >= 2^7 and N > 7, the value 2^7 m + (n - 2^7)
\* and likewise sN; 2^7 is Base here.
Grammar(p, signed) ==
  LET digit(b, n) ==
        IF signed
        THEN IF b < Base \div 2 THEN {b} \cap 0..(2^(n - 1) - 1)
                                ELSE {b - Base} \cap (-2^(n - 1))..(-1)
        ELSE {b} \cap 0..(2^n - 1)
      number[k \in 1..MaxLen] ==
        LET N == Width - Group * (k - 1)
        IN IF p + k - 1 >= limit THEN {}
           ELSE LET b == buf[p + k - 1]
                IN IF b < Base THEN {<<v, k>> : v \in digit(b, N)}
                   ELSE IF N > Group
                   THEN {<<Base * m[1] + (b - Base), m[2]>> : m \in number[k + 1]}
                   ELSE {}
  IN number[1]

LebCalls == {"u32leb", "i32leb"}

\* A LEB reader accepts exactly what the WebAssembly grammar accepts, with its
\* value, and stops behind it.  Anything else, a number cut short by the end
\* or with bits above its width, reads as 0 and ends the buffer, so that no
\* byte of it is taken for something else.
ReadsTheGrammar ==
  [][last'.call \in LebCalls =>
       LET numbers == Grammar(ptr, last'.call = "i32leb")
       IN IF numbers # {} THEN <<last'.val, ptr' - ptr>> \in numbers
          ELSE last'.val = 0 /\ ptr' = IF ptr > limit THEN ptr ELSE limit]_vars

\* Every reader that compares with the end stops there, also after read_u32, which
\* does not compare, went past it: the pointer never moves back, and no other
\* reader leaves it at a place behind the end that it did not start from.
StopsAtEnd ==
  [][last'.call # "u32" => ptr' = ptr \/ (ptr < ptr' /\ ptr' <= limit)]_vars

\* What weeify emits the readers read back, wherever it stands: the shortest
\* form and the 5-byte form of every number, and the 4-byte form of the
\* numbers it has bits for (of the others it drops the high bits).
RoundTrip ==
  last.call = "u32leb" =>
    \A bytes \in {EmitLeb(last.val), EmitLeb5(last.val), EmitLeb4(last.val)} :
      LET data == bytes \o buf
          d    == DecodeLeb(data, 1, Len(data) + 1, FALSE)
      IN /\ d.len = Len(bytes)
         /\ d.val = last.val \/ (/\ bytes = EmitLeb4(last.val)
                                 /\ d.val = last.val % Base^(MaxLen - 1)
                                 /\ last.val >= Base^(MaxLen - 1))
=============================================================================
