------------------------------ MODULE ObjectMap ------------------------------
(***************************************************************************)
(* What objects promise a Wee-O-Wasm program: an object is a map from keys *)
(* to references.  An object is a key by its identity, a box by its type   *)
(* and value: 0.0 and -0.0 are two keys, although obj.eq takes them for    *)
(* equal, and a NaN is none.  It knows nothing of hashes and chains.       *)
(***************************************************************************)
EXTENDS Naturals, Sequences, FiniteSets

CONSTANTS I32, F64, F64Eq(_, _), MaxObjects, MaxTables, Stored

VARIABLES
  heap,    \* reference -> [type, val]; the val of an object is its map
  call,    \* the last call, its arguments and its result
  trapped

vars == <<heap, call, trapped>>

Refs == 0..Len(heap)
IsObject(r) == r # 0 /\ heap[r].type = "object"

Key(r) == IF IsObject(r) THEN <<"object", r>> ELSE <<heap[r].type, heap[r].val>>

\* What is stored under a NaN is lost, since a NaN is not equal to itself.
IsKey(r) == heap[r].type = "f64" => F64Eq(heap[r].val, heap[r].val)

\* obj.eq of two references.
Same(a, b) ==
  \/ a = b /\ (a = 0 \/ IsObject(a))
  \/ /\ a # 0 /\ b # 0
     /\ heap[a].type = heap[b].type
     /\ \/ heap[a].type = "i32" /\ heap[a].val = heap[b].val
        \/ heap[a].type = "f64" /\ F64Eq(heap[a].val, heap[b].val)

-----------------------------------------------------------------------------
Answered(fn, args, result) == call' = [fn |-> fn, args |-> args, result |-> result]

Make(fn, args, o) ==
  /\ Len(heap) < MaxObjects
  /\ Answered(fn, args, Len(heap) + 1)
  /\ heap' = Append(heap, o)

New == /\ Cardinality({r \in Refs : IsObject(r)}) < MaxTables
       /\ Make("new", <<>>, [type |-> "object", val |-> <<>>])

Box == \/ \E v \in I32 : Make("box_i32", <<v>>, [type |-> "i32", val |-> v])
       \/ \E v \in F64 : Make("box_f64", <<v>>, [type |-> "f64", val |-> v])

Get(o, k) ==
  /\ Answered("get", <<o, k>>, IF Key(k) \in DOMAIN heap[o].val
                               THEN heap[o].val[Key(k)] ELSE 0)
  /\ UNCHANGED heap

Set(o, k, v) ==
  /\ Answered("set", <<o, k, v>>, 0)
  /\ \/ /\ IsKey(k)
        /\ heap' = [heap EXCEPT ![o].val = [x \in DOMAIN @ \cup {Key(k)} |->
                                              IF x = Key(k) THEN v ELSE @[x]]]
     \/ ~IsKey(k) /\ UNCHANGED heap

Unbox(b) == Answered(heap[b].type, <<b>>, heap[b].val) /\ UNCHANGED heap

Eq(a, b) ==
  Answered("eq", <<a, b>>, IF Same(a, b) THEN 1 ELSE 0) /\ UNCHANGED heap

Works ==
  \/ New \/ Box
  \/ \E o \in {r \in Refs : IsObject(r)}, k \in Refs \ {0} :
       Get(o, k) \/ \E v \in Refs \cap Stored : Set(o, k, v)
  \/ \E b \in Refs \ {0} : ~IsObject(b) /\ Unbox(b)
  \/ \E a, b \in Refs : Eq(a, b)

\* An access to what is no object or with a null key, an unboxing of what is no
\* such box.
Fails ==
  /\ \E a \in Refs :
       \/ \E k \in Refs :
            /\ ~IsObject(a) \/ k = 0
            /\ \/ Answered("get", <<a, k>>, 0)
               \/ \E v \in Refs \cap Stored : Answered("set", <<a, k, v>>, 0)
       \/ \E type \in {"i32", "f64"} :
            (a = 0 \/ heap[a].type # type) /\ Answered(type, <<a>>, 0)
  /\ UNCHANGED heap

Init ==
  /\ heap = <<>>
  /\ call = [fn |-> "none", args |-> <<>>, result |-> 0]
  /\ trapped = FALSE

Next ==
  /\ ~trapped
  /\ \/ Works /\ UNCHANGED trapped
     \/ Fails /\ trapped' = TRUE

Spec == Init /\ [][Next]_vars
=============================================================================
