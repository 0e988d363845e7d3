----------------------------- MODULE MCWeeBuffer -----------------------------
(***************************************************************************)
(* Every buffer of up to MaxBytes bytes, at a width of three bytes.        *)
(***************************************************************************)
EXTENDS WeeBuffer, SequencesExt

CONSTANT MaxBytes

MCBuffers == BoundedSeq(0..(2 * Base - 1), MaxBytes)
=============================================================================
