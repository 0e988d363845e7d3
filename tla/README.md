# A verification of wasm-interpreter-minimal

The repository holds an interpreter for Wee-O-Wasm, a subset of WebAssembly
(`weerun`), and the tool that prepares modules for it (`weeify`). This directory
holds TLA+ models of the program, the configurations that check them with TLC,
and proofs checked by TLAPS. Sources are cited as `src/<file>:<line>`.

## 1. The system

The path of a program through the system:

    x.wat --wat2wasm--> x.wasm --weeify--> x.wee.wasm --weerun--> output
            (validates)          (pads labels,           |
                                  refuses opcodes)       +-- load_file: the bytes
                                                         +-- weedis: sections; labels become offsets
                                                         +-- instantiate: memory, table, globals
                                                         +-- run: start function, then main
                                                               +-- natives: objects, boxes

Everything is one process and one thread; the only other actor is a build that
writes the file while it is read. What is hard is the *long sequence of legal
steps*: pointers into one shared array that survive calls, tables reused between
functions, code overwritten while it is read, lengths patched after the fact, and
checks that are left out because a validator ran earlier in another process.

| component | source | state | operations | hard behaviour |
|---|---|---|---|---|
| interpreter loop | `src/weerun.c` `run` 526-1128, macros 38-250; `src/ir.h` stacks | `ip`, `fn_idx`, `top`, `frame`, `locals`, `op_ptr`, globals, memory, `return_result` | one handler per opcode, `start_init`, `main_init`, `exit_interp_loop` | all frames share one operand array; branches do not unwind it; no bound is checked; start and main share argument registers and the exit path |
| code loader | `src/weedis.c` `decode_locals`, `decode_expr`, `decode_code_section` 488-749 | the buffer pointer, the code (in place), `scope`, `static_ctr`, `dyn2static_idxs`, `static_blocks` | two runs over every body | `static_blocks` is shared by all functions and never cleared; the second run overwrites the code it reads; `dyn2static_idxs` starts uninitialised |
| section loader | `src/weedis.c` 189-485, 752-909 | `wasm_module_t` | one decoder per section | errors do not stop decoding; sections depend on one another |
| instantiation | `src/weerun.c` 315-443 | `wasm_instance_t` | memory, data, globals, table, exports | sizes are 32-bit products; segments are copied without a bound |
| numeric instructions, memory accesses | `src/weerun.c` 49-176, 810-1118 | none, linear memory | arithmetic, conversions, loads and stores | division and truncation at the ends of the range; addresses computed at two widths |
| native dispatch | `src/weerun.c` 496-523 | none | one call per import name | unknown names give a null reference |
| native objects | `src/native.c`, `src/object.c` | heap of objects, a hash table per object | new, box, unbox, get, set, eq | equality of keys differs from equality of their hashes; the table grows in the middle of an insertion |
| bytecode rewriter | `src/weeify.c` | the input pointer, the output file | copy sections, pad labels to 4 bytes, patch lengths | nested lengths are patched after what they measure is written; errors of a body are dropped |
| codecs, files | `src/common.c` | a buffer pointer; a file descriptor | LEB128, fixed-width integers, strings, `load_file` | numbers at the end of the buffer or of their width; readers report no errors; a file that changes under the reads |
| values | `src/ir.c` | none | parse, print | none |

How they interact: `weeify` guarantees the loader four-byte labels and void
block types; the loader guarantees the interpreter that the four bytes behind a
branch opcode are an offset to the right instruction; `wat2wasm` guarantees all
of them a validated module. The interpreter calls natives synchronously with a
pointer to their arguments in the operand array; a native may trap.

What makes each component correct:

- *interpreter*: control stays in function bodies; frames never overlap; no
  instruction pops an operand that is not there; a callee leaves its caller's
  values alone; programs without loops end; and, together with the loader, it
  behaves as the WebAssembly machine does.
- *code loader*: every label becomes the offset to its block's start (loop) or
  end; nothing else of the code is changed, and nothing twice; both runs number
  the blocks alike; loading ends.
- *section loader*: the module is what the file declares, or something was
  reported; no byte is taken for what it is not.
- *instantiation and accesses*: memory, table and globals hold what the sections
  say; an access is inside or traps.
- *numeric instructions*: the value, or the trap, of the WebAssembly definition
  at the operands' width; the processor never faults.
- *native objects*: an object is a finite map from keys to values; growing does
  not change the map.
- *bytecode rewriter*: the output is the same program with longer labels and
  correct lengths, or the tool reports failure.
- *codecs and files*: decoding inverts encoding; malformed numbers are refused;
  a file is loaded whole or not at all.

## 2. Modules

| module | what it is |
|---|---|
| `WeeCode` | opcodes, immediates and label slots of the byte code, as loader and interpreter both read them |
| `WeeLabels` | the meaning of a branch label, stated over a whole body: the reference for the loader |
| `WeeValid` | what a loaded module satisfies: the interpreter's precondition |
| `Weerun`, `Weerun_proofs` | the interpreter loop, one action per handler; the theorems about it |
| `WasmMachine` | the abstract machine: separate activations, labels instead of offsets, branches that unwind |
| `Weedis`, `Weedis_proofs` | the code loader; the theorems about it |
| `WeeWasm`, `WeeWasm_proofs` | loader and interpreter composed, from the code section in memory to the result; refines `WasmMachine`; the theorems, the refinement among them |
| `WeeSections` | the section loader on the bytes of a file |
| `WasmBinary` | the binary format: the encoder the section loader is compared with |
| `WeeInstance`, `WeeInstance_proofs` | instantiation, loads, stores and lookups in the table; theorems, the refinement of `WasmInstance` among them |
| `WasmInstance` | what WebAssembly says of them: one step, unbounded addresses |
| `WeeArith`, `WeeArith_proofs` | the numeric handlers; the theorems about division, words and conversion |
| `WasmNumeric` | which number is the right result of a numeric instruction |
| `WeeObjects`, `WeeObjects_proofs` | the natives and the hash table behind them, one action per native; theorems, the refinement of `ObjectMap` among them |
| `ObjectMap` | an object as a map: the specification `WeeObjects` implements |
| `Weeify`, `Weeify_proofs` | the rewriter with its output file; theorems |
| `Leb`, `WeeBuffer` | LEB128 in both directions; the readers of `common.c` under any sequence of calls |
| `LoadFile` | `load_file` with another process that changes the file |
| `Common_proofs` | the theorems about `common.c`: the codec, the readers and `load_file`. `Weeify_proofs` uses those of the codec as an instance |
| `WeeGen`, `WeePrograms` | a generator of valid bodies and an assembler; the programs that are checked |
| `MC*` | the instances TLC runs |

### Code as slots

In `Weedis`, `Weerun` and `WeeWasm` the code is a sequence of integers in which
a slot stands for a field: an opcode, an immediate or a label. `weeify` pads
labels to four bytes (`src/weeify.c:518`), so patching a label does not move the
code, in bytes or in slots. How many bytes a field takes is the matter of
`Weeify`, whose `OutputIsPadded` gives exactly this guarantee, and of `WeeBuffer`.

### Weerun

| TLA+ | code |
|---|---|
| `op` | the values from `op_stack_base` up to `top`; a pointer is the number of values below it |
| `locals`, `op_ptr`, `fn_idx`, `ip` | the registers of `run` (`src/weerun.c:555-560`) |
| `frames` | `call_stack_base` up to `frame`: the saved contexts (`src/ir.h:166`) |
| `phase` | which label of `run` control is at: `start_init`, `main_init`, in a handler, or out of the function |
| `Fetch(opcodes)` | `TARGET_FETCH`, the jump of the threaded dispatch |
| `CallImport`, `CallFunc` | `CALL_ROUTINE` (`src/weerun.c:218-250`) |
| `Return` | the handler of `return`, which the last `end` of a function jumps to, with `exit_interp_loop` |
| `Overrun` | a push beyond one of the arrays, after which C says nothing |

Values are numbers: what `val.i32` holds. `Unary` and `Binary` are constant
operators that yield a value or `Trap`, so the results below hold for every
arithmetic. A load yields any value or traps; an import yields any value or traps.
`op_ptr` is only used by traces in the code; it is kept because it says where a
frame's operands begin, which the properties are about. `block_depth` is left
out: only traces print it.

The precondition `Valid(p, Value)` carries the validator's operand heights as a
certificate, `p.height[f][a]`. It asks of each instruction that its operands are
there and that control goes to addresses of the same function whose height is
*at most* the one it arrives with. That is weaker than validation, and it has to be:
branches do not unwind the stack, so control does arrive with more. A program is
*exact* (`p.exact`) when every branch is taken with exactly the operands its
label's type says, as in all code that compilers of structured languages emit.

### Weedis

`phase` is the position in `decode_code_section` (`section`, `body`, `expr_end`,
`done`) or the loop of `decode_expr` (`expr`). `code` is overwritten in place,
`file` keeps the original for the properties. `dyn2static` is a partial
function: reading outside its domain is reading the uninitialised array, which
TLC reports as an error. `static_blocks` defaults to zeros, as a static array
does. `num_locals` is what `decode_locals` sums up.

### WeeWasm

One action for each part of `run()`: `Parse` (the steps of `Weedis`),
`Instantiate` (what the loader left becomes the interpreter's module: patched
code, bounds of the bodies, numbers of locals), `Interpret` (the steps of
`Weerun`). The refinement mapping reads the activations of the abstract machine
off the slices of the operand array, and the labels from the module as it is in
the *file*, which the interpreter never sees.

The refinement is about modules that are `Structured`: they are exact, the heights
of the certificate are those of instructions, what a label carries and what lies
below it is all there is at its branch, and a start function is not main and main
has no arguments. (For the others the machine and the interpreter differ, see
section 5.) TLC evaluates `Structured` of every module of the run `whole`, as
`MCStructured`.

### WeeSections

One action decodes one section, as the loop of `decode_sections` does; the
decoders are functions from a position to what they read, where they stopped and
what they reported, because that is what they are in C: nothing stops at an
error, and the comparison of where a decoder stopped with where the section ends
is all that keeps the loader on track. A number is one byte. A decoder that
never comes back is the phase `hangs`.

### WeeInstance

`phase` is the function of `module_instantiate` that comes next. Numbers wrap at
`U32`, pointers do not, and `GET_ADDR` (`src/weerun.c:117-125`) uses both: `maddr`
is computed in 32 bits, the comparison `Fits` in 64. A copy of anything that leaves
the memory or the table ends in the phase `overrun`, apart from `trapped`: what
happens then is undefined. An empty segment is copied nowhere (`Inside`). `Fresh` is what a byte of `malloc` may hold.
`Regular` modules are those the refinement is about: the memory has the size that
is declared and fits 32 bits, globals start with constants, and types are told
apart by their indices; TLC evaluates it as `MCRegular`.

### WeeArith

One handler per state; the operands are all pairs of words. What C leaves
undefined is what the build for x86-64 does: `idiv` faults, shift counts are taken
modulo the width, a double without an integer becomes the smallest one, and
`uint64_t` is computed from 2^63 on by a subtraction. Doubles are numbers of
halves, the infinities and NaN; `Convertible` ones are below 2^64 and not infinity
(`MCConvertible` in the instance).

### WeeObjects

`heap` is what `malloc` gave out: a reference is an index into it, 0 is the null
reference, and nothing is ever freed. An object's value is its table (`cap`,
`num_elems`, and for every bucket its chain from the head on); a box's value is
its payload. `call` records the last native with its arguments and its result, so
that the refinement compares answers with questions. `HtInsert` is the whole of
`ht_insert`: search, growth where the load asks for it, insertion, count.
`Hash` and `F64Eq` are constant operators: of the mixing in `hash_object` it matters
that equal bits have equal hashes and the two zeros have not, and the instance makes
all types collide. `MaxEntries` bounds a table, to which a NaN adds an entry each time.
`ht_destroy` (`src/object.c:145`) is left out: nothing calls it. Weerun keeps
imports nondeterministic: it needs none of what the natives compute.

### Weeify, Leb, WeeBuffer

`out` and `pos` are the output file and its offset: `EmitPatchedLength` seeks back,
writes and returns, as `emit_patched_length` does. `dropped` keeps the result of
`transform_body` that the code ignores (`src/weeify.c:263`). An instruction of a
module is `odd` if its block type is not void or its table not the first. What is
to be refused is stated without the table of `weeify.c`: by `JumpTable`, the opcodes
`run` can jump to (`src/weewasm.h`), and `IllegalHeader`, those of `illegal.h`. `Leb` has the codec
at any number of payload bits (`Group`) and any width; the last byte of a number
is partly used, as those of 32-bit and 64-bit numbers are. `Payloads` is what the
loop of `BODY` adds up, `LebEnd` the byte at which it ends. `WeeBuffer` is the buffer under
any sequence of calls; `ReadsTheGrammar` compares every answer with the grammar
of LEB128, `StopsAtEnd` says where a reader may leave the pointer.

### LoadFile

One action per system call. A byte is its place in the file, so a byte in the
wrong place shows. `Resize` is another process; it may act between any two calls.

## 3. Runs

| run | asks | instance |
|---|---|---|
| `weerun` | `TypeOK`, `ControlInBody`, `FramesNested`, `OperandsSuffice`, `HeightsExact`, `CallersUntouched`, `Terminates` | every valid main of up to 6 instructions over 15 control instructions with two helpers and over 17 data instructions, of up to 7 over 8 branch instructions, exact or not; start functions; refused arguments; arrays of 8 values and 2 frames |
| `whole` | `LoadedIsValid`, `ImplementsWasm` | the exact ones of these (5 over data), as files: main in front of its helper and behind it, locals in one declaration and in two; arrays of 14 values and 2 frames |
| `weedis` | `TypeOK`, `OpenBlocksNumbered`, `BranchesLand`, `LabelsReplacedOnce`, `SecondRunAgrees`, `Loads` | every well-bracketed body of up to 6 instructions, alone and as the second body behind one that filled `static_blocks` with two loops and a block |
| `sections` | `LoadsModule`, `NothingMisread`, `NeverHangs` | modules that differ from a full one in up to two sections, custom sections at any two of twelve places, seven kinds of modules Wee-O-Wasm does not have |
| `instance` | `TypeOK`, `AccessInside`, `ImplementsWasm` | pages of 4 bytes, 16 addresses, bytes of one bit; overlapping segments, segments that do not fit by one and by a wrapped sum, empty ones beyond the ends; accesses of 1, 2, 4 and 8 bytes at the ends of the pages and of the address space |
| `arith` | `NeverFaults`, `DivisionsExact`, `WordsMatch`, `ConversionsExact` | every instruction on every pair of four-bit operands; every half from -150 up to 255.5, minus infinity and NaN |
| `objects` | `TypeOK`, `BucketsSound`, `NoDuplicateKeys`, `LoadBounded`, `ImplementsMap` | every sequence of calls over one object and two boxes, both zeros and a NaN among the doubles; a table of one bucket that grows twice, at most three entries |
| `weeify` | `TypeOK`, `OutputIsPadded`, `RefusesRightly`, `PatchesOnlyLengths`, `Terminates` | one body of up to two instructions of every kind of immediate, or two of one; three forms of lengths and labels; a module cut short at every byte; an output file that is new or longer |
| `buffer` | `RoundTrip`, `ReadsTheGrammar`, `StopsAtEnd` | every buffer of up to 4 bytes with 3 payload bits, numbers of 8 bits, any sequence of reads |
| `loadfile` | `WholeOrFailed`, `Returns` | files of 0 to 9 bytes, of which 8 may be loaded, resized at any time |
| `weerun_residual` | `ResidualResult`: violated | one program |
| `weeify_illegal` | `IllegalBytecodesRefused`: violated | a module each with `i64.add`, `br_on_null` and `else` |

Why the bounds are enough.

*Interpreter.* Six instructions nest a loop in a block with a branch out of
both, leave operands behind in a loop and call a helper in the middle; seven let
a `br_table` with an index below, at and beyond its entries meet two enclosing
blocks. Values are 0..2: false, true, and a number beyond the table. Two saved
frames are a caller with a caller; main may call itself, so every run also meets
the end of both arrays. A main behind its helper is loaded when `static_blocks`
already holds the helper's blocks.

*Loader.* Six instructions nest four blocks or put a branch behind a closed
block, where the numbers of blocks and their depths differ; a second body shows
what the first left behind.

*Instance.* Sixteen addresses with memories of 4 and 8 bytes have addresses
inside, at either end of a page, beyond, and sums that wrap back inside; the
accesses are of one, two, four and eight bytes as in the code.

*Arithmetic.* Four bits have both signs, the smallest integer, -1 and counts
below, at and beyond the width; the handlers do nothing that depends on the
number of bits. The eight-bit integers stand for `int64_t`, and doubles go beyond
their range downwards.

*Objects.* Three keys are enough to fill a chain of two, grow the table with it
and grow once more (`LOAD_FACTOR` is the code's 60; 16 buckets only put the growth
further off). Two boxes of one payload are two references and one key, the
object is a key of its own table, and a second value to store tells whether an
entry was overwritten. The doubles are 0.0, -0.0 and a NaN, the ones whose equality
and hash do not agree or that are no key at all; for any others nothing differs
from an `i32`.

*Codecs.* Three bytes of three bits with a width of eight: the last byte is
partly used, so that a byte too many, padding bits that must be clear and padding
bits that must repeat the sign all occur; a fourth byte is the field behind.

Fairness is weak fairness of the step relation, as `WF_vars(Step)`: interpreter,
loader and rewriter are sequential loops that never wait for anything, so as
long as a step is possible it is taken. `LoadFile` is fair to the calls of
`load_file` (`WF_vars(Load)`) and not to the other process, which may never act;
`Returns` assumes that the file is at least as long as `fstat` said from some time
on. `Terminates` of `Weerun` is about programs without loops and recursion, the
premise is `LoopFree`. `NeverHangs` is a safety property: a decoder that reads on
at the end of its buffer is a state.

Deadlock is checked where the system goes on for ever or stutters in a halted
state (`weerun`, `whole`, `weedis`, `weeify`, `objects`, `buffer`). It is not
checked in `sections`, `instance`, `arith` and `loadfile`, which stop when the
module is loaded, the program has ended, the result is there or the function has
returned.

## 4. What is proved

| theorem | statement, for every value of the constants |
|---|---|
| `Weerun_proofs.TypeCorrect` | `Spec => []TypeOK` |
| `Weerun_proofs.ControlContained` | `Spec => []ControlInBody`: each frame is, or will resume, at an instruction of its function |
| `Weerun_proofs.FramesStayNested` | `Spec => []FramesNested`: the frames lie one above the other in the array |
| `Weerun_proofs.OperandsAlwaysSuffice` | `Spec => []OperandsSuffice`: no frame is ever short of an operand |
| `Weerun_proofs.HeightsStayExact` | `Spec => []HeightsExact`: in exact programs the stack has the validator's height: loops do not make it grow |
| `Weerun_proofs.CallersStayUntouched` | `Spec => CallersUntouched`: nothing below the current frame changes |
| `WeeWasm_proofs.LoadedModulesValid` | `Spec => []LoadedIsValid`: what the loader hands to the interpreter satisfies `Valid` |
| `WeeWasm_proofs.WholeRunsSafe` | `Spec => []RunSafe`: so `ControlInBody`, `FramesNested`, `OperandsSuffice` and `HeightsExact` hold of whole runs, from the labels of the file to the result |
| `WeeWasm_proofs.WholeRunsSpareCallers` | `Spec => Loop!CallersUntouched`, likewise |
| `WeeWasm_proofs.WholeRunsImplement` | `Spec /\ Structured(module) => Wasm!Init /\ [][Wasm!Next]_(Wasm!vars)`: every step of loader and interpreter is a step of `WasmMachine` on the module of the file, or a stutter |
| `Weedis_proofs.TypeCorrect` | `Spec => []TypeOK`: the pointer stays in the section, the tables where the bodies are |
| `Weedis_proofs.EveryBranchLands` | `Spec => []BranchesLand`: every offset leads to where its label meant to |
| `Weedis_proofs.RunsAgree` | `Spec => SecondRunAgrees`: the second run writes nothing new to `static_blocks`, although it reads the code it overwrites |
| `Weedis_proofs.LabelsAreReplacedOnce` | `Spec => LabelsReplacedOnce`: labels of the body at hand only, and none twice |
| `Weedis_proofs.SectionIsLinked` | `Spec => [](phase = "done" => HandedOver)`: the code with its labels replaced and nothing else changed, and the bounds and locals of every body |
| `Weedis_proofs.BlocksStayNumbered` | `Spec => []OpenBlocksNumbered`: for any code, well-bracketed or not, the entries of `dyn2static_idxs` for open blocks were written in this run |
| `WeeInstance_proofs.TypeCorrect` | `Spec => []TypeOK`, for any modules, page size and width, and whatever `malloc` returns |
| `WeeInstance_proofs.AccessesInside` | `Spec => []AccessInside`: although `maddr` wraps, an access that passes the comparison is inside |
| `WeeInstance_proofs.InstancesImplement` | `Spec => Wasm!Init /\ [][Wasm!Next]_(Wasm!vars)`, if memory comes cleared and the modules are `Regular`: instantiation in steps is that of one step for modules whose segments fit, a copy overruns for no other reason than a segment that is not empty and does not fit, accesses at 32 bits are those at unbounded addresses |
| `WeeArith_proofs.DivisionsSafe` | `Spec => []NeverFaults`: at any width |
| `WeeArith_proofs.DivisionsAreExact` | `Spec => []DivisionsExact`: quotients, remainders and traps are those of WebAssembly |
| `WeeArith_proofs.WordsAreExact` | `Spec => []WordsMatch`: shifts, rotations, bits and counts of bits are those of WebAssembly, at any width |
| `WeeArith_proofs.ConversionsAreExact` | `Convertible` implies `Spec => []ConversionsExact` |
| `WeeArith_proofs.SignedConversionsAreExact` | all but `trunc_u` are exact for every double |
| `WeeObjects_proofs.TypeCorrect` | `Spec => []TypeOK`, after any sequence of calls |
| `WeeObjects_proofs.BucketsStaySound` | `Spec => []BucketsSound`: at every capacity and for every hash an entry is in the chain where it is searched |
| `WeeObjects_proofs.KeysStayDifferent` | `Spec => []NoDuplicateKeys`: no key twice, where a double is a key by its bits and a NaN is none |
| `WeeObjects_proofs.LoadStaysBounded` | `Spec => []LoadBounded`: the count is right and tables grow in time |
| `WeeObjects_proofs.ObjectsAreMaps` | `Spec => ImplementsMap`: the refinement of `ObjectMap`, for all doubles |
| `Common_proofs.EmittedNumbersAreRead` | `Spec => []RoundTrip` of `WeeBuffer`: what the three emitters write is read back |
| `Common_proofs.ReadersStopAtEnd` | `Spec => StopsAtEnd` of `WeeBuffer`: of every reader but `read_u32`, which compares with nothing (`src/common.c:181-186`) |
| `Common_proofs.ReadersFollowTheGrammar` | `Spec => ReadsTheGrammar` of `WeeBuffer`: accepted are the numbers of the grammar, with its values, and nothing else |
| `Weeify_proofs.RewriterTypeCorrect` | `Spec => []TypeOK`: for any modules, whole or cut short, the pointers of weeify stay in the file |
| `Weeify_proofs.PatchesStay` | `Spec => PatchesOnlyLengths`: seeking back to patch nested lengths changes nothing else |
| `Weeify_proofs.WritesPadded` | `Spec => []OutputIsPadded`: what is written of a module in Wee-O-Wasm, in any form, is its encoding with padded labels and lengths |
| `Weeify_proofs.RefusesWhatItShould` | `Spec => []RefusesRightly`: of any module, what passes has only opcodes `run` can jump to, void blocks and the first table; a body is given up only for an opcode that is in `illegal.h` or that `run` has not, or for such an immediate |
| `Common_proofs.LoadedWhole` | `LoadSpec => []WholeOrFailed`: for files of any length, however reads are cut and whatever is written meanwhile |

### The interpreter

Assumptions: `ValueAssumption` (values are numbers, 0 is one, `Trap` and
`Sentinel` are none), `OperatorAssumption` (the arithmetic yields values or
traps), `StackAssumption` (limits are numbers) and `ProgramAssumption` (the
modules satisfy `Valid`). TLC evaluates all four in every run of `MCWeerun`, and
`LoadedIsValid` of the run `whole` says that the loader establishes the last.

None of the invariants is inductive alone: to know that `return` finds a frame
to go back to with enough operands, one must know about frames that are
suspended. The inductive invariant `IInv` is `TypeOK` with

- `CurrentOK`: the current frame is at an instruction of its function, its
  locals are below its operands, and it has at least the operands of its height,
  and exactly those if the program is exact;
- `SuspendedOK`, for every saved frame `c` with the function `g` of the frame
  above it and `top`, where that frame's locals begin: `c`'s return address is an
  instruction of its function, its pointers are in order, and what it has
  left up to `top`, *plus the result `g` owes it*, is what its return address
  needs;
- `CallersOK`: the saved frames satisfy that, each with respect to the next.

A call turns the current frame into a suspended one: `MayCall` gives the debt. A
return pays it. Every other handler touches only the current frame, and never
below `op_ptr` but for `local.set` and `local.tee`, whose slots lie above `locals`.

### The loader

`ImagesAssumption` (sections are `WellFormed`: bodies of whole instructions with
bracketed blocks) is the assumption of all theorems but `BlocksStayNumbered`, which
needs none. The invariant `LInv` says of the body at hand which of its instructions
were read (`Placed`, `Listed`, `CodeAhead`: what is ahead is as in the file, labels
behind are replaced only in the second run), that the open blocks are those the
nesting says, each with its number (`Tracked`), that `static_blocks` has of every
block read so far its start and, once closed, its end (`Recorded`), and that what
was patched lands (`Landed`). In the second run `Recorded` already covers the whole
body: that is why a branch may be patched before the end of its block is read
again. `KInv` adds that nothing but labels was changed. `BlocksStayNumbered` has an
invariant of its own: closing a block uncovers the number of the one around it, so
it orders the numbers of *all* open blocks, not only the innermost.

### Loader and interpreter

`WInv` joins `LInv`, `KInv` and, once the loader has returned, `IInv` of the
interpreter for the linked module (`ModulesAssumption`: the certificate of the
validator is that of the code and the labels of the file; `LoopAssumption`: values
and limits as above). So `ProgramAssumption`, which the interpreter alone takes for
granted, is a theorem about the loader.

For the refinement, the activations of `WasmMachine` are slices of the operand
array: `Current` from `locals` to the top, `Suspended` from a saved frame's
`locals` to the `locals` of the frame above it. The steps of the loader stutter;
each handler maps to one step of the machine: a call cuts the arguments off the
caller's slice, a return puts the result on it, and a branch of the machine, which
drops what its label does not carry, drops nothing in a structured module. A push
beyond the arrays maps to the machine's `Exhaust`.

### Instances, numbers, objects, files

`WeeInstance` (`InstanceAssumption`, `ModulesAssumption`, `AccessesAssumption`,
`LookupsAssumption`: sizes are numbers, segments hold bytes or functions, operands
have the width of an i32): memory and table are sequences of their kind, and the
memory is smaller than `U32`, which is why an address that wrapped cannot have
passed the comparison. For `InstancesImplement`, `RInv` says that the first `i - 1`
segments have been laid over the fresh memory or table; the steps of instantiation
stutter, the last is `Instantiate` of `WasmInstance`, and the first segment that is
not empty and does not fit is its `Overrun`, behind which nothing is said.

`WeeArith` (`WidthAssumption`, `PowerAssumption`, `OutcomesAssumption`,
`DoublesAssumption`): the invariants say that operands are words and the result is
of its instruction; a quotient is smaller than its dividend unless the divisor is 1
or -1, and rounding magnitudes down is rounding towards zero. For `WordsAreExact`,
a number is the sum of its bits (`FromBits`), and two numbers laid side by side
(`BitJoin`) have the bits of both: so shifts, rotations and the operators on bits
are followed place by place, by induction on the places. A rotation shifts by
`Width - n` modulo `Width`; that this is the other half of the word needs that the
width divides the modulus, the last part of `PowerAssumption`.

`WeeObjects` (`CapAssumption`, `HashAssumption`, and `DoublesAssumption`: doubles that
are equal and have equal hashes have equal bits; only the two zeros are equal with
different bits, and their hashes differ): the invariant says of every table that
each entry is in the bucket of its hash, no key is there twice and the count is that
of the entries, those of NaNs included. What a search compares, the hashes and then
`object_eq`, is whether keys are one (`ComparedKeys`). `ht_grow` is proved to keep
this and the map the table stands for, entry by entry.

`LoadFile` (`SizesAssumption`): while bytes are missing, the file offset is where the
next byte belongs in memory.

### Codec, readers and rewriter

Assumptions: `LebAssumption` (a number takes several bytes, and its last byte is
not full: 32 and 64 are no multiples of 7), `BufferAssumption` (bytes are bytes),
`FilesAssumption` and `WeeifyAssumption` (bytes are numbers).
`LebPowersAssumption`, like `PowerAssumption` and the last conjunct of
`AccessesAssumption`, is arithmetic on powers, of which the provers know nothing;
TLC evaluates them.

The grammar and the decoder build the same number from opposite ends: the grammar
takes the number behind a byte times `Base` and adds the byte's payload, `BODY`
shifts each payload to its place. Unfolding the grammar from the last byte down
gives `Payloads` (`ChainsOne`); what remains is the last byte: the decoder finds its
upper bits legal exactly when the grammar has a digit of the bits that are left
(`DigitSetIs`), and sign extension from the highest bit read gives that digit's sign
(`ValueIs`).

For weeify the invariant `WInv` adds to `TypeOK` that of a length that is open, the
bytes reserved are in front of where it writes, and that what it measures does not
end in front of the file. It is preserved by every step that leaves `BodiesFit`
true: no body ends behind the file. `transform_code_section` does not check that
(`src/weeify.c:253-265`), as it does for sections, so what follows for any file at
all is conditional (`RewriterStaysInFile`, `PatchesStayInLengths`), and the theorems
need to know what the file holds.

`ModulesAssumption` says that. A file is the encoding of a module, or the first
bytes of it, with lengths and labels in one form each: as short as possible,
padded to five bytes, labels also to four. The module is well-formed as the binary
format has it (`WellFormedSection`, `WellFormedBody`, `WellFormedInstr`): immediates
are those of their opcode, numbers end where the format says, labels and table
indices fit in four bytes, lengths in a word. Nothing is said about sections other
than the code section but that their length is right, nor about validity. Opcodes
may be any numbers, legal or not. TLC evaluates
the assumption for all modules of the run `weeify`.

`WholeInv` is `WInv` with `Along`: for some forms in which the file encodes its
module, weeify is at a piece of the module and has written the pieces in front of it.
In each phase,

- `AtSection`: `ptr` is where the i-th section begins in the encoding (`SecAt`), and
  `written`, the output up to the offset, is the padded encoding of all sections in
  front of it (`FileFront`);
- `AtBody`: in a code section, `ptr` is where the j-th body begins, `section_end` is
  where the next section does, and `written` is the front of the section with five
  bytes 0 in place of its length, the count of bodies, and the padded bodies so far
  (`CodeFront`); `before` is where the length is to go;
- `AtInstr`: the same for the k-th instruction of a body, with two lengths open
  (`BodyFront`);

and no instruction so far is to be refused (`CleanSections`, `CleanBodies`,
`CleanCode`), or `dropped` is set and one is. Once a body was given up nothing is
said of the output any more, but the pointers go on to be right: the rest of the
section is read from where the next body begins. A file that is cut short is given
up at its last section, by the comparison of the section's length with the file, or
by a length the file ends in.

The steps rest on what the readers make of an encoding. `FormRead`: a number in any
of the forms is read to its end, with its value, by `EmittedNumbersAreRead`'s lemmas.
`RawRead`: so is a number that is copied, in whatever form. `PlacesAre`, `FlatLies`:
pieces one behind the other lie each at the sum of the lengths in front of it.
From these: the locals (`DeclsRead`), the immediates of an instruction (`PlainEnd`,
`TableParts`), what it is replaced by (`WrittenInstr`), whether it is refused, the
header of a body (`OpenedBody`) and of a section (`SectionRead`). `PatchIs` closes a
length: with `written` a prefix, five bytes 0 and data, the patch makes it the prefix
and the data with its length.

### What stays with TLC

- Liveness: `Terminates`, `Loads`, `Returns`, and the fairness of the specifications
  that `ImplementsWasm` (of `whole` and of `instance`) refers to. TLAPS has no
  `ENABLED`. Their safety, initial states and steps, is proved.
- `LoadsModule`, `NothingMisread` and `NeverHangs` of `WeeSections`: they compare
  what was decoded with the module that was encoded, so they need that reading
  undoes the encoding of every kind of section, as is proved of the code section for
  weeify; and they hold only of files that keep clear of the divergences below
  (negative offsets, bodies cut short).

What recursive *functions* compute is proved by induction on their argument, from
the existence of a least element (lemmas `Least` and `UpTo`): the library's
induction theorems take an operator, which the installed provers cannot
instantiate. `RECURSIVE` operators occur only in modules that no theorem reaches.

## 5. Findings

1. *Residual operands* (`weerun_residual`). `br`, `br_if` and `br_table` move only
   the instruction pointer (`src/weerun.c:670-693`). Operands pushed in a block
   that is left by a branch stay and are popped as results later:
   `(i32.const 1) (block (i32.const 2) (br 0))` returns 2, where the engine
   behind `src/noderun.js` returns 1. The theorems show what remains true: no pop
   ever finds too few operands, and callers are never touched.
2. *`else` is let through* (`weeify_illegal`). In the entry
   `[WASM_OP_ELSE] = {"else", -1 }` (`src/weeify.c:378`) the mark of an illegal
   bytecode is in the place of the kind of immediate, so `else` passes although it
   stands under `// illegal bytecodes` and in `src/illegal.h:4`. It matters only for
   modules no validator saw: a valid `else` has an `if` in front, which is refused.

While modelling, other divergences showed. The models have them; the instances
keep clear of them, so that the properties say what holds elsewhere:

- *Start arguments.* `start_init` pushes main's arguments for the start function
  (`src/weerun.c:612-613`), whose locals then begin with them. `weerun` has such
  modules, `whole` has start functions only where main has no arguments.
- *Start is main.* `exit_interp_loop` tells the start function from main by its
  index (`src/weerun.c:1121`); when they are the same function, main runs for ever.
  Premise of `Terminates`; not among the modules of `whole`.
- *0.0, -0.0 and NaN.* `hash_object` hashes the bits of a double
  (`src/object.c:15`), `object_eq` compares doubles (`src/object.c:75`): the two
  zeros are equal and two keys, and nothing stored under a NaN is found again. In
  `src/noderun.js:22-33` each is one key. `ObjectMap` says what the code does, and
  `MCWeeObjects` has all three.
- *Exit code of weeify.* `transform_code_section` ignores what `transform_body`
  returns (`src/weeify.c:263`): a module with a refused instruction is reported on
  stderr and written without the rest of the body, with length 0, and exit code 0.
  No document says what the exit code should be; `exit_code` is in the model and in
  no property.
- *`table.get`, `table.set`* are in `src/illegal.h:16-17`, and legal in `weeify`
  (`src/weeify.c:315-316`) and `src/weewasm.h`; their handlers
  (`src/weerun.c:801-808`) do nothing and take the table index for an opcode.
  `f64.convert_i64_s` and `_u` are in `weewasm.h` only, their handlers do nothing.
  `Valid` has none of them.
- *Fresh memory.* `memory_instantiate` does not clear what `malloc` returned
  (`src/weerun.c:320`), where `src/proj2-tests/i32.load0.runs:4` expects zeros.
  `Fresh` is {0} for `ImplementsWasm`; the theorems hold for any.
- *Sizes.* A memory of 0 pages gets one (`src/weerun.c:316`), one of 65536 has 2^32
  bytes, which is 0 in 32 bits. The modules of `instance` have one or two pages.
- *Types.* `call_indirect` compares type indices (`src/weerun.c:747`), so equal
  types declared twice differ. The types of `instance` are different.
- *Globals.* One initialised by another global is reported and starts as
  0xDEADBEEF (`src/weerun.c:356`). The globals of `instance` are constants.
- *Segments* that do not fit are copied all the same (`src/weerun.c:331`, 416), where
  WebAssembly refuses the module. `ImplementsWasm` has a phase of its own for that
  and shows that it is reached only if a segment that is not empty does not fit. An
  empty one beyond the end is copied nowhere and the module gets its instance, in
  the code and in `WasmInstance`; WebAssembly refuses it too.
- *Truncation.* `i32.trunc_f64_u` of 2^64 or more, or of infinity, yields 0
  instead of a trap (`src/weerun.c:161`). The doubles of `arith` end below.
- *Errors of the loader.* `parse` returns 0 whatever was reported
  (`src/weerun.c:1134`). `LoadsModule` therefore speaks of what was reported.
- *Negative offsets* of segments are read as unsigned (`src/weedis.c:203`).
- *Bodies cut short.* At the end of its buffer `read_u8` yields 0, an opcode
  without immediates, and `decode_expr` never ends (`src/weedis.c:552`): weerun does
  not end on what weeify writes when it refuses an instruction. `NeverHangs` is
  checked on whole bodies.
- *Stale output.* weeify does not truncate its output file (`src/weeify.c:61`);
  `OutputIsPadded` is about the bytes up to where it stopped writing.
- *Shrinking files.* When the file is shorter than `fstat` said, `read` returns 0 and
  `load_file` loops (`src/common.c:105`). Premise of `Returns`.

## 6. Not modelled

- The arithmetic and comparison of doubles: it is the compiler's.
- Text: traces, disassembly, the printing and parsing of values (`src/ir.c`, the
  `DISASS` output of `weedis.c`, the growing strings of `src/common.c`).
- The names and signatures of imports (`src/weerun.c:496-523`): an import yields any
  value in `Weerun`; the natives themselves are the actions of `WeeObjects`.
- `src/parse.c`, `src/disass.c`, `src/rewrite.c`, `src/vm.h`: not part of the
  build (`src/Makefile` links `weedis.c` instead).
- `module_deinstantiate`, `module_free`, `unload_file`: they free memory when the
  process is about to end.
- `src/test.c`, the test programs, `src/noderun.js` (an engine of its own) and the
  grading scripts.
- Modules that no validator accepts, except where `sections` and `weeify` have
  them. The interpreter does not detect them, and `Valid` excludes them.
- `if`, `else`, `table.get`, `table.set`, `f64.convert_i64_s` and `_u` in the
  interpreter: their handlers are empty. `weeify` refuses only the first of them.

## 7. Plan

1. `WeeSections` and `WeeInstance` in front of `WeeWasm`, so that table, globals and
   start function come from the file as well.
