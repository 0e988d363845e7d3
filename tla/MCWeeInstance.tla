---------------------------- MODULE MCWeeInstance ----------------------------
(***************************************************************************)
(* Instances whose bytes have one bit, whose i32 therefore has four, and   *)
(* whose pages have four bytes: 16 addresses, of which at most 12 can      *)
(* belong to a memory.                                                     *)
(***************************************************************************)
EXTENDS WeeInstance, SequencesExt

\* Loads of every width inside, across the ends of the pages and beyond, with
\* offsets that wrap; stores around the ends of the pages.
Loads ==
  {[op |-> o, n |-> n, addr |-> a, off |-> f, val |-> 0] :
     o \in {"load_s", "load_u"}, n \in {1, 2}, a \in {0, 3, 7, 15}, f \in {0, 15}}
  \cup {[op |-> "load_u", n |-> n, addr |-> a, off |-> f, val |-> 0] :
          n \in {4, 8}, a \in {0, 3, 7, 15}, f \in {0, 15}}

Stores ==
  {[op |-> "store", n |-> n, addr |-> a, off |-> f, val |-> 6] :
     n \in {1, 2, 4}, a \in {2, 3, 6, 15}, f \in {0, 1}}
  \cup {[op |-> "store", n |-> 8, addr |-> a, off |-> 0, val |-> 165] : a \in {0, 1}}

MCAccesses == Loads \cup Stores

MCLookups == [idx : {0, 1, 2, 3, 15}, type : {1, 2}]

Segment(p, s) == [offset |-> p, items |-> s]
Const(v)      == [op |-> "const", val |-> v]
Export(n, k, x) == [name |-> n, kind |-> k, index |-> x]

Main == <<Export("main", "memory", 9), Export("main", "func", 2), Export("other", "func", 1)>>

\* Three functions of the types 1, 2 and 1; the types differ.
Module(pages, data, size, elems) ==
  [pages |-> pages, data |-> data,
   num_tables |-> IF size > 0 THEN 1 ELSE 0, table_size |-> size, elems |-> elems,
   globals |-> <<Const(3), Const(7)>>, exports |-> Main,
   sigs |-> <<1, 2, 1>>, types |-> <<"a", "b">>]

Datas == {<<>>, <<Segment(1, <<1, 1, 0>>)>>,
          <<Segment(0, <<1, 1, 1, 1>>), Segment(13, <<>>), Segment(2, <<0, 1>>)>>}
Elems == {<<>>, <<Segment(1, <<2, 3>>)>>,
          <<Segment(0, <<1, 2>>), Segment(3, <<>>), Segment(1, <<1>>)>>}

\* Modules whose segments fit, or not, the empty ones among them beyond the end
\* of the memory or at and beyond that of the table; with a main or without;
\* their memory has the size declared, and no two of their types are equal.
MCModules ==
  {Module(p, d, 3, e) : p \in {1, 2}, d \in Datas, e \in Elems}
    \cup {Module(p, d, 2, e) : p \in {1, 2}, e \in Elems,
            d \in {<<>>, <<Segment(15, <<1, 1>>)>>, <<Segment(3, <<1, 1>>)>>}}
    \cup {Module(1, <<>>, 0, <<>>),
          [Module(1, <<>>, 0, <<>>) EXCEPT !.exports = <<Export("main", "global", 0)>>]}

ZeroBytes == {0}

ASSUME MCRegular == \A m \in Modules : Regular(m)
=============================================================================
