------------------------------ MODULE MCLoadFile ------------------------------
(***************************************************************************)
(* Files of up to nine bytes; more than eight may not be loaded.            *)
(***************************************************************************)
EXTENDS LoadFile

MCSizes == 0..9
=============================================================================
