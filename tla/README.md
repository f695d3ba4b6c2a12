# A TLA+ development for gaston

gaston is a C compiler and static linker for ARM64 Linux, written in Go. One
process reads C, writes ELF objects or `ar` archives, and links them into a
static executable, together with a small C library of its own. Nothing in the
compiler runs concurrently. What is hard is that several passes compute the
same thing twice (caller and callee, layout and access, file offset and
address), that the linker works incrementally on inputs in any order, and that
a mistake shows only in the program that comes out. The library is small but
meets what every program meets: inputs that end anywhere, integers at their
limits, writes cut short, a reader at the other end of a pipe.

## Inventory

| part | source | state it keeps | operations | what makes it correct |
|---|---|---|---|---|
| preprocessor | `preproc.go` | macro table, conditional stack, include set, output | directives, include, expand | conditionals nest, expansion ends, lines stay aligned |
| lexer, parser, AST | `lexer.go`, `grammar.y`, `parser.go`, `ast.go` | typedef names, tree | tokens, reductions, struct layout | typedef feedback, field offsets as in C |
| semantic checker | `semcheck.go` | symbol tables, current function | declare, check statements and expressions | a use means the innermost declaration |
| IR generation | `irgen.go`, `ir.go` | quads, locals, globals, labels, temporaries | one per statement and expression | storage as large as its accesses; control flow as in C |
| frame and calls | `arm64.go` (`buildFrame`), `elfgen.go` | slot offsets, register indexes | lay out, route, store, return | slots disjoint; caller and callee agree |
| code builder, encoder | `elfgen.go`, `arm64enc.go` | words, labels, fixups, barrier | emit, label, patch | emitted words do what was asked for |
| object writer | `objgen.go` | section bytes, symbol table, relocations | place globals, emit symbols | every definition has storage and a symbol |
| archives | `arfmt.go` | members, symbol index | create, read | the index finds the first definition |
| linker | `linker.go` | objects, archives, definitions, addresses | load, pull, merge, lay out, relocate, write | right definition, right address, ends |
| driver, libc builder | `main.go`, `build.go`, `cmd/gastonlibc`, `muslbucket.go` | temporary objects, output | compile, archive, link | outputs survive failures |
| sscanf | `libc/sscanf.c` | positions in string and format, count, argument list | one per directive | stays inside its strings; stores what the text says; counts what it stored; returns |
| stdio | `libc/stdio.c`, `libc/printf.c` | descriptor 1, stdout's line buffer, the array being formatted, input's value and sign | output, input, puts, putchar, print_*, printf, fprintf, sprintf, snprintf | texts come out once and in order; integers read back; arrays not overrun |
| math builtins | `libc/mathbuiltins.c` | none | signbit, isnan, isinf, round | right for every bit pattern |
| sbrk | `elfgen.go` (`emitSbrkFn`) | `sbrk_cur_brk`, the kernel's break | sbrk | heap after BSS, never handed out twice, failures reported |
| other runtime | `libc/setjmp_arm64.s`, headers | jump buffers | setjmp, longjmp | registers restored |

How they interact: the driver calls preprocessor, parser, checker, IR
generation and one backend in sequence for each file; `objgen.go` drives
`elfgen.go` for the code and writes an object; the linker reads objects and
archives back (`parseObjELF`, `archiveRead`) and emits the runtime helpers with
the same code builder. Between compiler and linker the only channel is the
object file: symbol bindings, section offsets, COMMON sizes and alignments.

`PROJECT.json` lists the hazards at their lines.

## Modules

| module | models | state and actions |
|---|---|---|
| `Linker` | `linkWithObjs`, the index of `archiveRead` | `pc` is the phase; one action per loop body: `LoadInput`, `ForcePull`, `StartRound`, `ScanRef`, `EndRound`, `MergeObj`, `Suppress`, `BuildSymVA`, `ResolveEntry`, `RelocObj`, then `OpenOutput`, `WriteSection` and `EndWrite`, and one per error return (`WriteFails` for a failing write). An address is the place that provides the storage. |
| `Layout` | storage in `irgen.go`, placement in `objgen.go`, section folding and merging, COMMON allocation, addresses and file offsets in `linker.go` | `PlaceData`, `PlaceBss`, `PlaceCustom`, `SkipGlobal`, `EndUnit` per unit; then `MergeUnit`, `AllocCommon`, `AssignBases`. Addresses are numbers. |
| `Heap` | `emitSbrkFn`, on top of `Layout` | `Load` starts the linked program; `SbrkNoBreak`, `SbrkQuery` and `SbrkMove` are the paths through a call; `regions` is what the program owns. |
| `CodeBuilder` | `codeBuilder` of `elfgen.go` | `Emit`, `defineLabel`, `applyFixups`, `FixupError`; then `Step` runs one word, and the operation it belongs to with its last word; `StepElided` runs an operation without words. |
| `Frame` | `buildFrame`, `collectCallArgs`, `emitCall`, `emitPrologue`, `emitEpilogue`, `emitStructReturn`, va_start and va_arg, VLA and alloca | frame layout slot by slot, arguments one by one, prologue stores one by one, then a body that stores, allocates, calls, reads variadic arguments and returns in any order; `Return` leaves the result in registers or behind X8, `TakeResult` is the caller fetching it. |
| `Scanf` | `sscanf` | one action per kind of directive (`WhiteSpace`, `Literal`, `ConvInt`, `ConvFloat`, `ConvString`, `ConvChar`, `ConvSet`, `ConvPercent`, `ConvUnknown`, `Truncated`) and `Return`. `ScanInt`, `ScanFloat` and `InSet` are the helpers as functions. `args` records what each variadic argument received and from which piece of the input. |
| `Stdio` | the functions of `stdio.c` and `printf.c`, as called by one program whose output another reads with `input()` | a `Call...` action per function, then its steps: a digit into the buffer (`OutputDigit`), a level of recursion (`PrintPosDescend`, `PrintPosDigit`), a write (`OutputWrite`, `WriteNext`), a byte into stdout (`BufioPut`) or into the array (`FileStrPut`). `CallInput`, `InputByte` and `InputEOF` are the reader, `Exit` is `_start` leaving. |
| `ByteStream` | what the callers of the output functions rely on | the abstract specification `Stdio` implements: a text is begun when the one before is finished, and given to the descriptor piece by piece. |
| `MathBuiltins` | `mathbuiltins.c` | each function applied to one argument, over every bit pattern of formats of any width. |
| `LinkerProofs`, `LinkerMergeProofs` | theorems about `Linker` | |
| `LayoutProofs`, `HeapProofs`, `CodeBuilderProofs`, `FrameProofs`, `ScanfProofs`, `StdioProofs` | theorems about the module in the name | |
| `MC_*` | the instances TLC checks | |

`Linker` and `Layout` split the linker between them: `Linker` decides which
definition a name means and does not look at numbers, `Layout` gives numbers to
the places and does not look at names beyond COMMON merging.

`Heap` composes the program `Layout` has placed with its use of the heap: the
break cell and the end of BSS it starts from are the ones `Layout` computed.
`Stdio` runs a writer and a reader together: what `output()` prints is what
`input()` reads, in every interleaving.

Definitions whose comment starts with "Mutant" are wrong variants kept
beside the right one: replacing the original by its mutant must break the
property `PROJECT.json` pairs it with.

### Abstractions

- A symbol table is a function from names to binding, section, value and size;
  a name occurs in it once. Local symbols of the same name in one object
  (section symbols) are not told apart.
- The symbols of one object are visited in any order by `ScanRef`; in the code
  the order is that of the symbol table. Every order of the code is one of the
  model's.
- The executable is four pieces (headers, code, rodata, data), each of which is
  written, or fails having written a part or nothing. The result of the
  deferred `Close` is ignored by the code and not modelled; the warnings on
  stderr are left out.
- In `Layout` a unit uses at most one custom section name, and custom code
  sections are part of `text`.
- In `CodeBuilder` registers and slots hold symbolic values. The base of an
  immediate's four chunks and the reaches of the offset fields are constants;
  TLC's chunks have one bit and its fields reach 2 to 16, so that every range
  limit is met within four operations. CBZ and CBNZ are `bcond` (same field,
  same fixup), BL is `b`.
- In `Frame` a word of memory is a tuple naming its origin. The result of
  reading a word nothing wrote is `Junk`. Struct results and arguments are
  compared word by word. Registers from X19 on, which only struct parameters
  beyond any register could reach, read as `Junk`. A block that alloca gave and
  only a copied pointer still names is not followed, nor what is written through
  an X8 no caller has set. The order of `fn.Locals`
  (slot for X8, struct parameters, the body's locals) is three phases of the
  layout.
- In `Scanf` a character is a one-letter string; the bytes behind a terminator
  are read where the code's bitwise `&` reads them and may be anything. A long
  is `LongMax` wide. A double is the decimal (digits, digits after the point,
  exponent) it is computed from, before rounding.
- In `Stdio` picolibc is external: a format with its arguments is the text it
  expands to, stdout keeps a line until a newline or a full buffer (the flag
  `gaston-picolibc.patch` gives it), and stderr is the same stream. `write`
  accepts any prefix of what it is given, at most `MaxShort` times less than
  all; `read` yields one byte, or nothing once the writer has exited.
- In `Heap` the kernel is external: it may offer no heap at all, grants at most
  `HeapLimit` bytes and otherwise leaves the break alone. Registers have
  `2 * (AddrMax + 1)` values, so the sum with an increment can wrap.
- In `MathBuiltins` addition and conversion round to nearest even and the
  conversion to long saturates, as the processor's instructions do.

## Runs

| run | result | shows |
|---|---|---|
| `Linker` | holds, 229,000 states | fixpoint, termination, precedence, duplicates, one address per name, no missed definition, COMMON merge, a link reported done has written its whole output and a failed one a beginning of it (`OutputWhole`), members pulled on demand only |
| `LinkerFirstResolver` | violated | "first resolver wins" (`linker.go:445`): the round's set of defined names is stale, so two archives both contribute a definition |
| `Layout` | holds, 262,000 states | no slots overlap, alignment up to 16 kept, segments loadable; run with `Heap`: the cell of sbrk is the kernel's break, and what the program owns of the heap is granted, apart from all slots and from itself (`HeapApart`) |
| `LayoutObjects` | violated | "a following global must not overlap" (`objgen.go:197`): arrays of structs and static local structs are given too few words |
| `CodeBuilder` | holds, 448,000 states | the emitted words do what was asked for on every path |
| `Frame` | holds, 270,000 states | slots, arguments, variadic arguments, VLAs allocated any number of times, results through X0, X1, D0 and X8 |
| `FrameVaStart` | violated | `va_start` (`libc/stdarg.h:8`) with a floating-point named parameter, or after a VLA |
| `Scanf` | holds, 172,000 states | positions stay inside both strings and every turn advances (`InBounds`), stored numbers are what the consumed text denotes, clamped or wrapped (`NumbersExact`), the counted destinations are the first ones and come from successive pieces (`CountedFirst`), widths bound what is written (`WidthBounds`) |
| `ScanfEOF` | violated | "before any conversion" (`libc/sscanf.c:499`): `%*d` matches `1` and the result is EOF |
| `Stdio` | holds, 179,000 states | `Stdio` implements `ByteStream`; the buffer of `output` suffices; `input` reads back what `output` wrote and always returns; `snprintf` writes only what fits and reports the whole length |
| `StdioComplete` | violated | "printf / puts / putchar backed by picolibc tinystdio" (`libc/printf.c:1`): only printf is, so its text can come out late, or never at exit |
| `MathBuiltins` | holds, 13,000 states | the classification functions agree with the formats for double, float and long double; `round` within the range stated |

### Bounds

- `Linker`: five names, of which one is a helper label. Command lines come in
  families: two archives with competing and mutually dependent members and
  every kind of reference in a user object (pulling takes two rounds and more);
  every combination of eight kinds of symbol in two objects around members
  pulled from two archives, and in three objects (merging); unreadable inputs
  and missing entry points. Rules about a name involve at most three
  definitions of it, and the proofs below lift the central ones to any number.
- `Layout`: two units, the first with every pair of variable forms, the second
  with odd sizes and text that ends near a page, so that every alignment and
  page computation rounds.
- `Heap`: `MaxSbrk` = 3 calls, a heap of 40 bytes, increments that fit, that
  shrink it (below its start too), that are refused, and one that overflows
  (`AddrMax` = 2^23 - 1, above every address of the programs).
- `CodeBuilder`: `MaxOps` = 4 operations. A wrong elision needs a store, a
  label, a load and a branch.
- `Frame`: every list of up to three parameters over five classes, all lists of
  six integers and two more parameters, nine integers, nine doubles, structs up
  to the eleventh register; bodies with each kind of local; two frames that are
  not regular (an array of structs next to a VLA, more than 4096 bytes), of which
  only `TypeOK` and `FrameDisjoint` claim something. `MaxFrame` = 8192:
  from there on `encADDimm` changes the opcode and the word has no meaning
  worth modelling. `MaxStack` = 64 bytes below the frame: a VLA is allocated
  twice (its slot then names the second array) or next to two allocas.
- `Scanf`: every string of up to four or five characters over the characters
  each family of formats tells apart, with `LongMax` = 127 (three digits reach
  over both ends of the range) and `FracCap` = 2 fraction digits instead of 18;
  formats that end after `%`, `*`, a width, a modifier or inside a set. `Past`
  puts an `x` or a digit behind the terminators.
- `Stdio`: `LongMax` = 127 and `BufLen` = 5, so that -127 with its newline just
  fills the buffer of `output` as the extreme long nearly does in the code
  (21 of 24 bytes); a stdout buffer of 4 bytes that texts overflow; an array of
  6 for texts of up to 5; `MaxCalls` = 2 calls, `MaxReads` = 3 (one more than
  there are numbers), `MaxShort` = 1. `Ints` leaves out the most negative long,
  for which `0 - x` overflows and no digit is printed (`__stdio_print_long` prints
  `-(`); `BufferStaysBounded` holds for it too.
- `MathBuiltins`: doubles of 9 bits, floats of 6, longs up to 63; all patterns.

`CHECK_DEADLOCK FALSE` is set for everything that ends: a link, a compilation,
a function call, a program. `Scanf` is checked for deadlock: every state before
the return has a step, which with `InBounds` (the turns taken never exceed the
position in the format) is why the call returns.

### Fairness

`Linker` and `Layout` assume weak fairness of the next-state relation: the code
is one thread that does not block, so it takes a step while it has one. Only
`Termination` uses it.

`Stdio` assumes weak fairness of the writer and of the reader separately: both
are processes the kernel schedules, the writer never waits and the reader waits
only for a byte or for the writer's exit. `InputReturns` and the liveness of
`ByteStream` (a begun text is given out) use it.

### Refinement

`ImplementsStream` maps `todo` to what is left of the current call's text after
the bytes given to `write`, `sent` to what descriptor 1 accepted and `losses`
to the writes cut short. Digits produced right to left, a recursion that prints
on the way back, two writes of `puts` and stdout's lines all have to come out as
steps of `ByteStream`. It holds for formats that end in a newline, or after a
full buffer; `StdioComplete` shows what happens otherwise. `OutputIsStream`
proves the safety part of it (initial states and steps) for any values and
texts; that a begun text is given out is liveness, and stays with TLC.

## Proofs

TLAPS checks every theorem and lemma of the eight proof modules. The theorems hold
for every value of the constants that satisfies the modules' named assumptions,
which TLC evaluates on the instances of the runs; nothing bounds the number or
the length of the inputs.

### Linker

`LinkerProofs` and `LinkerMergeProofs` assume what `Linker` assumes: `main`,
`__posix_stdio_init` and the helpers are names, and every command line is a
sequence of well-formed inputs.

- `TypeCorrect`: `Spec => []TypeOK`. The work is in `symMap` and the choice of
  the first archive: a `CHOOSE` over a non-empty set of naturals has a least
  element (`LeastNatural`, `SymMapIndexed`, `FirstResolver`).
- `PullReachesFixpoint`: `Spec => []PullClosed`. `PullClosed` is not inductive:
  it says nothing while the loop runs. The invariant `PullInv` adds that used
  members are loaded, that `defined` only contains defined names, and that
  while a round has added nothing every reference is still to be scanned,
  defined, or out of every archive's reach. The stale `defined` set does no harm
  here: it can only cause extra pulls, and a round that pulls is followed by
  another.
- `MembersPulledOnDemand`: `Spec => PullOnDemand`, an action property. When
  `ScanRef` adds a member, the name it is added for was put into `todo` at the
  start of the round; `DemandInv` says that everything in `todo` is still a
  reference of a loaded object that no explicit object defines, although
  members have been loaded since.
- `WinnerIsPrecedence` and `DuplicatesReported`: the merge is incremental, so
  the invariant (`MergeInv`) states the precedence rule for the prefix of
  objects merged so far, including that two explicit strong definitions never
  coexist in it, and carries it through suppression into the symbol table.
- `CommonSlotCovers`: `CoverInv` says of the prefix merged so far that the slot
  is as large and as aligned as each tentative definition in it, and not larger
  than all of them.
- `OneAddressPerName`: `RelocInv` says that the relocated objects form a prefix,
  each with the table its own symbols and `symVA` determine, and that `symVA`
  agrees with the winners.
- `NothingMissed`: `Spec => []NoMissedDefinition`, from `LoadedInv` (what has
  been read of the command line is among the objects or the archives) and the
  invariants above. It has a hypothesis, `NoWeakCommon`: the attempt to
  prove it without showed that a *weak* COMMON symbol counts as a definition
  when members are pulled (`isLinkableDef`, `linker.go:93`) and gets no address
  afterwards. No compiler writes one, and TLC's instances have none.
- `OutputIsWhole`: `Spec => []OutputWhole`. `OutputInv` counts: as long as no
  write has failed, exactly the pieces before `nxt` are out, and from the failure
  on `err` stays set, so that nothing is appended behind the gap and `EndWrite`
  cannot report success.

### Layout and Heap

Assumptions: globals and units are well formed (`ProgramsAssumption`), the page
size is a multiple of 4096 and the load base page aligned.

- `LayoutTypeCorrect`, `StorageIsDisjoint`, `SlotsAreAligned` and
  `SegmentsAreLoadable` follow from one invariant, `LayoutInv`. `SlotsInv` says
  that a slot lies within its unit's part of its section and is aligned there,
  `ApartInv` that the slots of one section of one unit do not meet, `WordsInv`
  that sections are whole words and custom sections start at multiples of 16,
  `MergeInv` that the units' parts of a section follow each other at multiples
  of 16, and `BasesInv` that the segments are apart and the break cell is last.
  Disjointness of addresses is a consequence only of all of them: same unit and
  section, same section of two units, two sections.
- `HeapStaysApart`: `HeapSpec => []HeapApart`. `HeapInv` is `LayoutInv`, the
  place of the break (`BreakInv`: the kernel's heap starts behind the cell, the
  break is never below its start) and the order of what the program owns
  (`RegionsInv`). The arithmetic is that of signed registers of `AddrMax`: a sum
  that wraps is negative.

### CodeBuilder

Assumption (`BuilderAssumption`): the requests are those of `codeBuilder`'s
methods, on known registers, slots and pool names; chunks and fields have a
size. The number of operations, the labels and the order are arbitrary.

- `BuilderTypeCorrect`, `BranchesLead` and `EmittedCodePreserved` follow from
  `BuilderInv`. Its static part, `BuildInv`, says where things are: operations
  follow each other behind the pool (`PlacesInv`); each has exactly the words
  `Instruction` gives, patched once the fixups are applied, or is an elided load
  (`WordsInv`); fixups are those of the branches among the operations
  (`FixInv`); and a label at the end of the code implies the barrier
  (`LabelInv`).
- `Skipped` is what makes elision sound and is the part that is not obvious: an
  elided load directly follows a store, or an elided load, of the same register
  and slot, and no label stands before it, so that no jump can lead there.
- The dynamic part, `RunInv`, says that the two machines agree at the start of
  an operation and, if that is an elided load, that its register already holds
  the slot (`AtStart`), or that the processor is inside a MOVZ/MOVK sequence and
  the register holds the chunks moved so far (`Amid`). The arithmetic is in
  `FieldRange` (a field reads back exactly what is in its range), `AllChunks`
  and `PartialSteps` (chunks left out are zero).

### Frame

Assumption (`FrameAssumption`): calls are well formed. Scalars take a word, a
variadic function has a named parameter (the grammar insists), only variadic
calls have extra arguments, and none of those is a struct. Numbers of
parameters, locals and temporaries, sizes, alignments and the order of what the
body does are arbitrary. Frames have at most `MaxFrame` bytes.

`FrameTypeCorrect`, `FrameIsDisjoint`, `LocalsAreKept`, `ArgumentsArrive`,
`VariadicArgsRead` and `ReturnIsReached` follow from `FrameInv`, which covers the
life of the frame from `buildFrame` to the epilogue.

- `BuildInv` is about the layout: slots are whole words below `offset` and apart
  (`SlotsInv`), those of the names passed so far exist (`PlacedInv`) and have the
  size of what is stored in them (`SizesInv`). `OrderInv` is what va_start
  depends on: integer parameters lie in the order of their registers, so that
  writing X1 to X7 over them changes nothing.
- `StackInv` places SP and FP, phase by phase, and has memory empty until the
  callee runs.
- `CallerInv` says of the caller's loop that its counts are those of
  `RegsBefore` and of the floating-point parameters, and that each argument it
  passed is in the registers these counts give it. `PrologueInv` says the same of
  the callee's loop, and that the registers not yet stored are intact: the
  scratch registers X9 and X10 of a large struct are none of them. `EnterFunction`
  is where one becomes the other.
- `KeptInv`, `DynamicInv` and `StoredInv` are about the body: what the epilogue,
  va_arg and the parameters need is still there; the arrays the VLA slots name
  lie apart from each other between SP and the frame, also after a slot was given
  a new one; and every stored local has its words. They need each
  other: a store through a VLA's slot is harmless only if the slot holds an
  address that `DynamicInv` bounds. `GotInv` follows `ap` through the save area.
- `ResultInv` says where `Return` has left each kind of result, which is where
  `TakeResult` looks for it; a large one is behind X8 only because `KeptInv` kept
  the address saved on entry.
- `ValuesInv` (only `AllocVLA` writes stack pointers) makes the body's test of a
  VLA's slot meaningful.

TLC checked `FrameInv` on the instance of the run before it was proved.

### Scanf

Assumption: the cases are pairs of strings of the character set. The strings,
the formats and the memory behind both are otherwise arbitrary.

- `ScanStaysInBounds`, `CountedComeFirst` and `WidthsRespected` follow from
  `ScanInv`. `PlaceInv` keeps both positions at most one behind the last
  character and the turns at most the position in the format; `ArgsInv`
  describes each argument written so far (from which piece, of which width);
  `CountInv` relates the count to the arguments: every argument but possibly the
  last one is counted. The scanning loops are named operators (`DigitsEnd`,
  `DecimalsEnd`, `WordEnd`, `BracketEnd`, `SetEnd`), and a lemma for each shows
  that it stops at the terminator, although the bitwise `&` makes the code read
  the byte behind it.

### Stdio

Assumption (`StdioAssumption`): the largest long has at most `BufLen - 2`
digits (19 of 24 in the code), the buffers have a size, and an array is shorter
than the bound `sprintf` passes.

- `BufferStaysBounded` and `FormatsFit` follow from `StdioInv`. `DigitInv` is
  the reason why the buffer of `output` suffices: the value still to be printed,
  times the power of ten of the digits written, stays at most `LongMax`, so the
  number of digits is bounded before the value is zero. `StrInv` says that the
  array of `snprintf` holds the part of the text that fits and nothing else has
  been touched, and that the position stops at the end.
- `OutputIsStream`: every step of `Stdio` is a step of `ByteStream` or leaves
  its variables alone. `StreamInv` says what each call in progress still has to
  give, by kind of call: sign, the digits not yet extracted and the buffer for
  `output`; the rest of the list for `puts` and the others; the last digits of
  the numbers on the stack for `__stdio_print_long`; the line and the rest of
  the text for `printf`. Its hypotheses are those of the run: formats end in a
  newline or are empty (`StdioComplete` shows what happens otherwise), and the
  most negative long is not printed (`0 - x` overflows).
- `InputReadsBack` proves `RoundTrip`, again without the most negative long.
  `TripInv` says that what is out is whole lines, one per returned call, and
  keeps the place where each ends (`Ends`); `input` stands at the end of a line
  or inside one, behind the sign and some of the digits, and its value is then
  that of those digits (`Inside`). The results so far are the arguments of the
  calls, and are more than the lines only after the end of the input. What the
  digits read so far are worth (`Reads`) comes from the least number without
  such values, not from a library induction (`ValueReads`), and since none of
  them exceeds the number, no multiplication by ten wraps.
- `Pow10` and `Digits` are recursive functions, and that such functions exist is
  proved first (`RecursionOnNat`).

### Only model-checked

- `Termination`, `InputReturns` and the fairness of `ImplementsStream`: liveness.
- `NumbersExact`: what a consumed text denotes in each base, with its clamping,
  fraction and exponent, is a fold over the text, whose meaning would have to be
  carried along the scan as `Inside` carries that of `input`'s digits.
- `MathBuiltins`: `Classified` and `RoundNearest` quantify over bit patterns
  through powers of two and nonlinear arithmetic, and TLC checks all patterns of
  the small formats.

## Claimed with conditions

Properties of `Frame` hold under conditions that the code does not enforce, and
the conditions are part of the property: arguments that fit the registers (the
ninth is dropped silently), pointer calls without larger structs, and of their results those of one integer
word, variadic functions whose named parameters are integers.
`VaArgs` needs named parameters without floating point, a function without VLA,
and of pointer calls those without structs and floating point.
What is said of the running body holds for frames that are `Regular`: of at
most 4096 bytes, since from there on `encADDimm` shifts the offset into the opcode
unchecked (`arm64enc.go:232`), and without arrays of structs, whose slots are too
small as those of global ones are (`LayoutObjects`).
`SlotsAligned` claims alignment up to 16 in `.data` and `.bss` (units are
merged at 16-byte boundaries whatever `_Alignas` asked for), up to 4096 in
COMMON, and none in custom sections. `NumbersExact` claims a double only when
its integer part fits a long. `CountedFirst` excludes a width of 1, which leaves
`%s` no room for a character. `RoundNearest` excludes the double just below
0.5 and magnitudes from 2^52 on, where adding 0.5 rounds to another integer.
`CodePreserved` excepts code longer than `LitReach` words, whose literal offsets
`encLDRlit` cuts off unchecked (`elfgen.go:188`).
`HeapApart` excepts a request whose sum with the break overflows: the requested
break is then negative, and the signed comparison (`elfgen.go:1705`) takes the
kernel's refusal for a success. What that call reports is not counted as owned.
`OutputWhole` does not claim that a partial executable is removed after a failed
write: the code leaves it.

## Plan

1. `Preproc`: conditional stack, includes with cycle detection, object- and
   function-like macros with hide sets, `#if` evaluation, line accounting
   (comment in `processFile`: line numbers "stay aligned with the original
   source").
2. `Scope`: `symTable` and `genCompound` over nested blocks, static locals,
   against an abstract block-structured environment; typedef feedback of the
   lexer.
3. `ObjGen`: symbol-table order, bindings, custom sections, aliases and
   relocations, composed with `Linker`'s reading of it.
4. `Lowering`: `irgen.go`'s loops, switch, short-circuit and goto as quads, run
   against a reference semantics of the statements.
5. `StructLayout`: fields, unions, bit-fields as recursive functions against
   the C rules; archive format.
6. `Driver`: output files across failures.
7. An abstract specification of linking (a set of inputs resolves to a map from
   names to definitions in one step) that `Linker` refines.
8. Proof of the refinement of step 7.

## Not modelled

`parser.go` (generated), the grammar, the character level of the lexer, the
Plan 9 assembly text of `arm64.go`, and the case-per-operation instruction
selection of `elfgen.go` carry little state; `third-party/` and `testdata/` are
not part of the program. `libc/setjmp_arm64.s` is straight-line assembly and the
headers under `libc/` are constants and types. The other gaps are the plan
above.

## Running

    tlc -workers 2 -config Linker.cfg MC_Linker
    tlc -workers 2 -config Layout.cfg MC_Heap
    tlapm LinkerProofs.tla
    tlapm LinkerMergeProofs.tla
    tlapm LayoutProofs.tla
    tlapm HeapProofs.tla
    tlapm CodeBuilderProofs.tla
    tlapm FrameProofs.tla
    tlapm ScanfProofs.tla
    tlapm StdioProofs.tla
