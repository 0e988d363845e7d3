---------------------------- MODULE MCWeeSections ----------------------------
(***************************************************************************)
(* The files of the section loader: modules with every section and without *)
(* it, custom sections anywhere, modules that Wee-O-Wasm does not support; *)
(* and what loading them has to yield.                                     *)
(*                                                                         *)
(* A file is its bytes, the module it encodes (ast), whether that is one   *)
(* of Wee-O-Wasm, and the number of the section that is not (bad).         *)
(***************************************************************************)
EXTENDS WeeSections, WasmBinary

Limit(min, max) == [initial |-> min, has_max |-> IF max = 0 THEN 0 ELSE 1, max |-> max]
Ty(p, r)    == [params |-> p, results |-> r]
Imp(t)      == [mod |-> <<109>>, name |-> <<102, 103>>, type |-> t]
Fn(t, l, c) == [type |-> t, locals |-> l, code |-> c]
Gl(v)       == [type |-> 127, mutable |-> 1, init |-> ConstExpr(v)]
Double      == [type |-> 124, mutable |-> 0, init |-> <<68, 11, 11, 0, 0, 0, 0, 0, 11, 11>>]
Exp(n, k)   == [name |-> n, kind |-> 0, index |-> k]

\* A module with every section, and what may be there instead of each.  (One
\* without functions of its own has no main that could be run.)
Full ==
  [types   |-> <<Ty(<<127>>, <<>>), Ty(<<>>, <<124>>)>>,
   imports |-> <<Imp(1), Imp(0)>>,
   funcs   |-> <<Fn(0, <<>>, <<11>>), Fn(1, <<[count |-> 2, type |-> 127]>>, <<65, 11, 26, 11>>)>>,
   tables  |-> <<Limit(3, 0)>>,
   mems    |-> <<Limit(1, 2)>>,
   globals |-> <<Gl(11), Double>>,
   exports |-> <<Exp(<<97>>, 2), Exp(<<>>, 0)>>,
   starts  |-> <<2>>,
   elems   |-> <<[offset |-> 0, funcs |-> <<2, 0>>], [offset |-> 2, funcs |-> <<>>]>>,
   data    |-> <<[offset |-> 11, bytes |-> <<11, 0, 65>>]>>]

Instead ==
  [imports |-> {<<>>, <<Imp(0)>>}, funcs |-> {<<Fn(1, <<>>, <<11>>)>>},
   tables |-> {<<>>, <<Limit(0, 5)>>}, mems |-> {<<>>, <<Limit(0, 0)>>},
   globals |-> {<<>>, <<Gl(-1)>>}, exports |-> {<<>>}, starts |-> {<<>>},
   elems |-> {<<>>}, data |-> {<<>>, <<[offset |-> 63, bytes |-> <<>>]>>}]

Fields == DOMAIN Instead

\* At most two fields other than in Full.
Supported ==
  {Full} \cup UNION {{[Full EXCEPT ![f] = x, ![g] = y] : x \in Instead[f], y \in Instead[g]} :
                       f \in Fields, g \in Fields}

NoExtra == [k \in 1..12 |-> <<>>]
CustomAt(S) == [k \in 1..12 |-> IF k \in S THEN SectionEnc(0, <<1, 120, 1, 99>>) ELSE <<>>]

File(m, extra, ok, b) == [bytes |-> EncodeWith(m, extra), ast |-> m, supported |-> ok, bad |-> b]

SupportedFiles ==
  {File(m, NoExtra, TRUE, 0) : m \in Supported}
    \cup {File(Full, CustomAt({a, b}), TRUE, 0) : a \in 1..12, b \in 1..12}
    \cup {[bytes |-> <<>>, ast |-> [f \in DOMAIN Full |-> <<>>], supported |-> TRUE, bad |-> 0]}

\* Modules with something instead of section b that Wee-O-Wasm does not have.
Without(f) == [Full EXCEPT ![f] = <<>>]
Unsupported(f, b, payload) ==
  File(Without(f), [NoExtra EXCEPT ![b] = SectionEnc(b, payload)], FALSE, b)

UnsupportedFiles ==
  { Unsupported("types", 1, <<1, 95, 0>>),                              \* a struct type
    Unsupported("imports", 2, <<1, 1, 109, 1, 110, 2, 0, 1>>),          \* a memory
    Unsupported("imports", 2, <<2, 1, 109, 1, 110, 3, 127, 0, 1, 109, 1, 110, 0, 1>>),
    Unsupported("mems", 5, <<2, 0, 1, 0, 1>>),                          \* two memories
    Unsupported("elems", 9, <<1, 1, 0, 1, 2>>),                         \* a passive segment
    Unsupported("data", 11, <<1, 1, 2, 7, 7>>),
    File(Full, [NoExtra EXCEPT ![10] = SectionEnc(12, <<1>>)], FALSE, 12) } \* a data count

AllFiles == SupportedFiles \cup UnsupportedFiles
-----------------------------------------------------------------------------
\* Each part of the module is what the file declares.  (Offsets of segments are
\* positive here: the loader takes a negative one for another number.)
Declared(part) ==
  LET a == file.ast IN
  CASE part = 1 -> module.sigs = a.types
    [] part = 2 -> module.imports = [k \in DOMAIN a.imports |->
                      [mod |-> a.imports[k].mod, name |-> a.imports[k].name,
                       kind |-> 0, index |-> a.imports[k].type]]
    [] part = 3 -> /\ Len(module.funcs) = Len(a.imports) + Len(a.funcs)
                   /\ \A k \in DOMAIN module.funcs : module.funcs[k].sig_index =
                        IF k <= Len(a.imports) THEN a.imports[k].type
                        ELSE a.funcs[k - Len(a.imports)].type
    [] part = 4 -> /\ Len(module.tables) = Len(a.tables)
                   /\ \A k \in DOMAIN a.tables :
                        module.tables[k].initial = a.tables[k].initial
    [] part = 5 -> IF a.mems = <<>> THEN module.num_mems = 0
                   ELSE module.num_mems = 1 /\ module.mem_limits.initial = a.mems[1].initial
    [] part = 6 -> /\ Len(module.globals) = Len(a.globals)
                   /\ \A k \in DOMAIN a.globals :
                        LET g == module.globals[k] IN
                        /\ g.type = a.globals[k].type /\ g.mutable = a.globals[k].mutable
                        /\ SubSeq(bytes, g.init.start, g.init.end - 1) = a.globals[k].init
    [] part = 7 -> module.exports = a.exports
    [] part = 8 -> IF a.starts = <<>> THEN ~module.has_start
                   ELSE module.has_start /\ module.start_idx = a.starts[1]
    [] part = 9 -> module.elems = [k \in DOMAIN a.elems |->
                      [offset |-> a.elems[k].offset, func_indexes |-> a.elems[k].funcs]]
    [] part = 10 -> \A k \in DOMAIN a.funcs :
                      LET f == module.funcs[Len(a.imports) + k] IN
                      /\ f.local_decl = a.funcs[k].locals
                      /\ SubSeq(bytes, f.code.start, f.code.end - 1) = a.funcs[k].code
    [] part = 11 -> /\ Len(module.data) = Len(a.data)
                    /\ \A k \in DOMAIN a.data :
                         LET d == module.data[k] IN
                         /\ d.offset = a.data[k].offset
                         /\ SubSeq(bytes, d.start, d.end - 1) = a.data[k].bytes
    [] OTHER -> FALSE

Untouched(part) ==
  CASE part = 1 -> module.sigs = <<>>       [] part = 2 -> module.imports = <<>>
    [] part = 3 -> module.funcs = <<>>      [] part = 4 -> module.tables = <<>>
    [] part = 5 -> module.num_mems = 0      [] part = 6 -> module.globals = <<>>
    [] part = 7 -> module.exports = <<>>    [] part = 8 -> ~module.has_start
    [] part = 9 -> module.elems = <<>>      [] part = 11 -> module.data = <<>>
    [] OTHER -> \A k \in DOMAIN module.funcs : module.funcs[k].code = Junk

\* A module of Wee-O-Wasm is loaded as it was declared, without a complaint:
\* the functions numbered behind the imported ones, the bodies given to the
\* right ones of them, and every section found, whatever custom sections are
\* between; one that is not of Wee-O-Wasm does not pass without a complaint.
LoadsModule ==
  phase = "loaded" =>
    IF file.supported THEN errors = {} /\ \A part \in 1..11 : Declared(part)
    ELSE errors # {}

\* No byte is taken for what it is not: after any number of sections, and after
\* a section that could not be decoded, every part but that one is as declared
\* or not there at all.
NothingMisread ==
  \A part \in (1..11) \ {file.bad} : Untouched(part) \/ Declared(part)

\* No decoder reads on without end.  (The loop of decode_sections itself ends:
\* each of its turns moves ptr behind the head of a section at least.)
NeverHangs == phase # "hangs"
=============================================================================
