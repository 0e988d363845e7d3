----------------------------- MODULE MCWeeArith -----------------------------
(***************************************************************************)
(* All operands of four bits.  The doubles are all halves up to a little   *)
(* beyond the range of the eight-bit integers that stand for int64_t,      *)
(* downwards, and up to the range of their unsigned ones, upwards.         *)
(***************************************************************************)
EXTENDS WeeArith

Specials == {[kind |-> "-inf"], [kind |-> "nan"]}

\* Below 2^(2 * Width), and no positive infinity.
ConvertibleDoubles == {Number(h) : h \in -300..511} \cup Specials

ASSUME MCConvertible == Convertible
=============================================================================
