---------------------------- MODULE MCWeeObjects ----------------------------
(***************************************************************************)
(* An instance of the object heap: an object and boxes whose payloads and  *)
(* hashes collide, both zeros and a NaN among the doubles.                 *)
(***************************************************************************)
EXTENDS WeeObjects

Zero      == 1
MinusZero == 2
NaN       == 3

MCF64Eq(a, b) == {a, b} \subseteq {Zero, MinusZero}

\* Payloads and objects collide: the mixing of hash_object keeps equal bits
\* equal, whatever their type is.
MCHash(type, payload) == payload

MCI32    == {1}
MCF64    == {Zero, MinusZero, NaN}
MCStored == {0, 1}
=============================================================================
