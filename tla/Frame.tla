------------------------------- MODULE Frame -------------------------------
(***************************************************************************)
(* One call of one compiled function: the stack frame buildFrame lays out, *)
(* the registers the caller puts the arguments in, the stores of the       *)
(* callee's prologue, va_start and va_arg, variable-length arrays, and the *)
(* return (src/arm64.go buildFrame; src/irgen.go collectCallArgs and       *)
(* genFunc; src/elfgen.go emitCall, emitPrologue, emitEpilogue,            *)
(* emitStructReturn).                                                      *)
(*                                                                         *)
(* Caller and callee are generated apart from each other, often in two     *)
(* runs of the compiler, and agree only by computing the same thing twice. *)
(* Addresses count from the callee's FP, in words of 8 bytes where memory  *)
(* is concerned; a value is a tuple that says where it came from.          *)
(***************************************************************************)
EXTENDS Integers, Sequences, FiniteSets

CONSTANTS
  Calls,      \* the calls considered
  MaxFrame,   \* bound on the size of a frame, at most 8192
  MaxStack    \* bound on the bytes of the VLAs of a call

(* A parameter or argument is an integer (or pointer), a floating-point    *)
(* number, or a struct of that many bytes passed by value.  A local has a  *)
(* kind, a number of elements, the bytes of one element and its _Alignas.  *)
(* ret is the size of the struct the function returns, 0 if it returns a   *)
(* scalar, a floating-point one if retFP.  ptr is a call through a pointer,*)
(* extra are the arguments a variadic call adds.                           *)
(* A scalar is one word.  The grammar has a parameter before every "...".  *)
param(p) ==
  /\ p.class \in {"int", "fp", "struct"} /\ p.bytes \in Nat \ {0}
  /\ p.class # "struct" => p.bytes <= 8
LocalKinds == {"scalar", "longDouble", "array", "chars", "struct", "structArray",
               "vla", "alloca"}
local(l) ==
  /\ l.kind \in LocalKinds /\ l.n \in Nat \ {0} /\ l.bytes \in Nat \ {0}
  /\ l.align \in {0, 1, 2, 4, 8, 16, 32, 64}

list(s) == s \in Seq({s[i] : i \in DOMAIN s})

calls(c) ==
  /\ c.variadic \in BOOLEAN /\ c.ptr \in BOOLEAN /\ c.retFP \in BOOLEAN
  /\ c.ret \in Nat /\ c.temps \in Nat
  /\ list(c.params) /\ list(c.extra) /\ list(c.locals)
  /\ \A i \in 1..Len(c.params) : param(c.params[i])
  /\ \A i \in 1..Len(c.extra) : param(c.extra[i]) /\ c.extra[i].class # "struct"
  /\ \A i \in 1..Len(c.locals) : local(c.locals[i])
  /\ IF c.variadic THEN Len(c.params) > 0 ELSE Len(c.extra) = 0

ASSUME FrameAssumption ==
  MaxFrame \in 0..8192 /\ MaxStack \in Nat /\ \A c \in Calls : calls(c)

VARIABLES
  call, pc,
  k,           \* position of the loop that is running
  offset,      \* buildFrame's offset
  slots,       \* frame.offsets: slot -> [off, size]
  iIdx, fIdx,  \* next integer and floating-point register
  x, d,        \* the integer and the floating-point registers
  sp, fp, mem, \* stack pointer, frame pointer, stack words by address
  stored,      \* locals the body has written
  ap, got,     \* va_list, and what va_arg has returned
  dest,        \* the caller's variable for the result
  restored     \* FP and LR the epilogue has loaded

frameVars == <<offset, slots>>
regs      == <<iIdx, fIdx, x, d>>
body      == <<stored, ap, got, dest, restored>>
vars      == <<call, pc, k, frameVars, regs, sp, fp, mem, body>>

-----------------------------------------------------------------------------
AlignUp(v, a) == ((v + a - 1) \div a) * a
Words(bytes)  == (bytes + 7) \div 8

Junk       == <<"junk">>
Arg(i, w)  == <<"arg", i, w>>      \* word w of argument i
CopyOf(i)  == <<"copy", i>>        \* address of the caller's struct
DestPtr    == <<"dest">>
CallerFP   == <<"callerFP">>
CallerLR   == <<"callerLR">>
Read(m, a) == IF a \in DOMAIN m THEN m[a] ELSE Junk
Write(m, a, v) == [b \in DOMAIN m \cup {a} |-> IF b = a THEN v ELSE m[b]]
(* The words of vs from address a on.                                      *)
WriteWords(m, a, vs) ==
  LET to == {a + 8 * (w - 1) : w \in 1..Len(vs)}
  IN  [b \in DOMAIN m \cup to |-> IF b \in to THEN vs[(b - a) \div 8 + 1] ELSE m[b]]

X8Slot == <<"x8", 1>>

Dynamic(l) == l.kind \in {"vla", "alloca"}
hasVLA     == \E j \in 1..Len(call.locals) : Dynamic(call.locals[j])

(* Mutant of LocalBytes: a char array takes its bytes and no more.         *)
LocalBytesUnrounded(l) ==
  CASE l.kind \in {"array", "structArray"} -> l.n * 8
    [] l.kind = "chars"      -> l.n
    [] l.kind = "struct"     -> 8 * Words(l.bytes)
    [] l.kind = "longDouble" -> 16
    [] OTHER                 -> 8

(* Bytes of frame a local takes: arrays have one word per element, whatever*)
(* the element is, except char arrays.                                     *)
LocalBytes(l) ==
  CASE l.kind \in {"array", "structArray"} -> l.n * 8
    [] l.kind = "chars"      -> 8 * Words(l.n)
    [] l.kind = "struct"     -> 8 * Words(l.bytes)
    [] l.kind = "longDouble" -> 16
    [] OTHER                 -> 8

(* Words the body reaches through the local.                               *)
Footprint(l) ==
  CASE l.kind = "array"       -> l.n
    [] l.kind = "structArray" -> Words(l.n * l.bytes)
    [] OTHER                  -> LocalBytes(l) \div 8

AddSlot(id, off, size) ==
  [i \in DOMAIN slots \cup {id} |-> IF i = id THEN [off |-> off, size |-> size] ELSE slots[i]]

-----------------------------------------------------------------------------
Init ==
  /\ call \in Calls
  /\ pc = "params" /\ k = 1
  /\ offset = 16 /\ slots = <<>>
  /\ iIdx = 0 /\ fIdx = 0
  /\ x = [r \in 0..18 |-> Junk] /\ d = [r \in 0..7 |-> Junk]
  /\ sp = 0 /\ fp = 0 /\ mem = <<>>
  /\ stored = {} /\ ap = <<>> /\ got = <<>> /\ dest = <<>>
  /\ restored = <<>>

(* buildFrame: a word for every parameter that is no struct.               *)
ParamSlot ==
  /\ pc = "params" /\ k <= Len(call.params)
  /\ IF call.params[k].class = "struct"
       THEN UNCHANGED frameVars
       ELSE /\ slots' = AddSlot(<<"param", k>>, offset, 8)
            /\ offset' = offset + 8
  /\ k' = k + 1
  /\ UNCHANGED <<call, pc, regs, sp, fp, mem, body>>

(* A variadic function keeps room for X0..X7.  The first of fn.Locals is   *)
(* the slot for X8, ...                                                    *)
SaveArea ==
  /\ pc = "params" /\ k > Len(call.params)
  /\ pc' = "structs" /\ k' = 1
  /\ LET off == IF call.variadic /\ offset < 80 THEN 80 ELSE offset
     IN  IF call.ret > 16
           THEN slots' = AddSlot(X8Slot, off, 8) /\ offset' = off + 8
           ELSE slots' = slots /\ offset' = off
  /\ UNCHANGED <<call, regs, sp, fp, mem, body>>

(* ... the struct parameters follow, ...                                   *)
StructSlot ==
  /\ pc = "structs" /\ k <= Len(call.params)
  /\ IF call.params[k].class = "struct"
       THEN /\ slots' = AddSlot(<<"param", k>>, offset, 8 * Words(call.params[k].bytes))
            /\ offset' = offset + 8 * Words(call.params[k].bytes)
       ELSE UNCHANGED frameVars
  /\ k' = k + 1
  /\ UNCHANGED <<call, pc, regs, sp, fp, mem, body>>

StructsEnd ==
  /\ pc = "structs" /\ k > Len(call.params)
  /\ pc' = "locals" /\ k' = 1
  /\ UNCHANGED <<call, frameVars, regs, sp, fp, mem, body>>

(* ... and the body's locals come last.                                    *)
LocalSlot ==
  /\ pc = "locals" /\ k <= Len(call.locals)
  /\ LET l   == call.locals[k]
         off == IF l.align > 0 THEN AlignUp(offset, l.align) ELSE offset
     IN  /\ slots' = AddSlot(<<"local", k>>, off, LocalBytes(l))
         /\ offset' = off + LocalBytes(l)
  /\ k' = k + 1
  /\ UNCHANGED <<call, pc, regs, sp, fp, mem, body>>

LocalsEnd ==
  /\ pc = "locals" /\ k > Len(call.locals)
  /\ pc' = "temps" /\ k' = 1
  /\ UNCHANGED <<call, frameVars, regs, sp, fp, mem, body>>

(* A word for every temporary, then 16-byte alignment of the whole.        *)
TempSlot ==
  /\ pc = "temps" /\ k <= call.temps
  /\ slots' = AddSlot(<<"temp", k>>, offset, 8)
  /\ offset' = offset + 8
  /\ k' = k + 1
  /\ UNCHANGED <<call, pc, regs, sp, fp, mem, body>>

FrameEnd ==
  /\ pc = "temps" /\ k > call.temps /\ AlignUp(offset, 16) <= MaxFrame
  /\ pc' = "args" /\ k' = 1
  /\ offset' = AlignUp(offset, 16)
  /\ sp' = AlignUp(offset, 16)
  /\ UNCHANGED <<call, slots, regs, fp, mem, body>>

frameSize == offset

-----------------------------------------------------------------------------
(* collectCallArgs: at a variadic call floating-point arguments, the named *)
(* ones too, travel as bits in integer registers.  Whether the callee is   *)
(* variadic is not known at a call through a pointer.                      *)
Args == call.params \o call.extra
ArgClass(i) ==
  IF Args[i].class = "fp" /\ call.variadic /\ ~call.ptr THEN "int" ELSE Args[i].class

(* Mutant of FPFits: one register too many.                                *)
FPFitsOffByOne == fIdx <= 8

FPFits == fIdx < 8

(* emitCall (and IRFuncPtrCall, which treats a struct as a word): the next *)
(* argument goes to the next register of its class; a scalar that finds    *)
(* none is dropped.  A struct's registers are not bounded.                 *)
RouteFP ==
  /\ pc = "args" /\ k <= Len(Args) /\ ArgClass(k) = "fp"
  /\ IF FPFits THEN d' = [d EXCEPT ![fIdx] = Arg(k, 1)] /\ fIdx' = fIdx + 1
               ELSE UNCHANGED <<d, fIdx>>
  /\ k' = k + 1
  /\ UNCHANGED <<call, pc, frameVars, iIdx, x, sp, fp, mem, body>>

RouteInt ==
  /\ pc = "args" /\ k <= Len(Args)
  /\ ArgClass(k) = "int" \/ (ArgClass(k) = "struct" /\ call.ptr)
  /\ IF iIdx < 8 THEN x' = [x EXCEPT ![iIdx] = Arg(k, 1)] /\ iIdx' = iIdx + 1
                 ELSE UNCHANGED <<x, iIdx>>
  /\ k' = k + 1
  /\ UNCHANGED <<call, pc, frameVars, fIdx, d, sp, fp, mem, body>>

StructRegs(bytes) == IF bytes > 8 /\ bytes <= 16 THEN 2 ELSE 1

RouteStruct ==
  /\ pc = "args" /\ k <= Len(Args) /\ ArgClass(k) = "struct" /\ ~call.ptr
  /\ x' = [r \in DOMAIN x |->
       IF r = iIdx
         THEN IF Args[k].bytes > 16 THEN CopyOf(k) ELSE Arg(k, 1)
       ELSE IF r = iIdx + 1 /\ StructRegs(Args[k].bytes) = 2
         THEN IF iIdx = 9 THEN Junk ELSE Arg(k, 2)
       ELSE IF r = 9 /\ Args[k].bytes <= 16 THEN CopyOf(k)
       ELSE x[r]]
  /\ iIdx' = iIdx + StructRegs(Args[k].bytes)
  /\ k' = k + 1
  /\ UNCHANGED <<call, pc, frameVars, fIdx, d, sp, fp, mem, body>>

(* X8 is the address for a struct of more than 16 bytes; BL; the callee    *)
(* makes its frame and saves FP and LR at its bottom.                      *)
EnterFunction ==
  /\ pc = "args" /\ k > Len(Args)
  /\ pc' = "prologue" /\ k' = 1
  /\ x' = IF call.ret > 16 /\ ~call.ptr THEN [x EXCEPT ![8] = DestPtr] ELSE x
  /\ iIdx' = 0 /\ fIdx' = 0
  /\ sp' = sp - frameSize /\ fp' = sp - frameSize
  /\ mem' = Write(Write(mem, sp - frameSize, CallerFP), sp - frameSize + 8, CallerLR)
  /\ UNCHANGED <<call, frameVars, d, body>>

-----------------------------------------------------------------------------
(* emitPrologue: parameters from their registers to their slots.           *)
Off(id) == slots[id].off
Param   == call.params[k]
AtParam(class) == pc = "prologue" /\ k <= Len(call.params) /\ Param.class = class

StoreFPParam ==
  /\ AtParam("fp")
  /\ IF FPFits
       THEN mem' = Write(mem, sp + Off(<<"param", k>>), d[fIdx]) /\ fIdx' = fIdx + 1
       ELSE UNCHANGED <<mem, fIdx>>
  /\ k' = k + 1
  /\ UNCHANGED <<call, pc, frameVars, iIdx, x, d, sp, fp, body>>

StoreIntParam ==
  /\ AtParam("int")
  /\ IF iIdx < 8
       THEN mem' = Write(mem, sp + Off(<<"param", k>>), x[iIdx]) /\ iIdx' = iIdx + 1
       ELSE UNCHANGED <<mem, iIdx>>
  /\ k' = k + 1
  /\ UNCHANGED <<call, pc, frameVars, fIdx, x, d, sp, fp, body>>

(* Registers from X19 on are not the caller's to pass anything in.         *)
Reg(r) == IF r \in DOMAIN x THEN x[r] ELSE Junk

(* The words behind the caller's pointer: those of the struct it passed.   *)
Behind(v, w) == IF v[1] = "copy" THEN Arg(v[2], w) ELSE Junk

StoreStructParam ==
  /\ AtParam("struct")
  /\ mem' = WriteWords(mem, sp + Off(<<"param", k>>), [w \in 1..Words(Param.bytes) |->
              IF Param.bytes > 16 THEN Behind(Reg(iIdx), w) ELSE Reg(iIdx + w - 1)])
  /\ x' = IF Param.bytes > 16
            THEN [r \in DOMAIN x |->
                    CASE r = 9  -> Reg(iIdx)
                      [] r = 10 -> Behind(Reg(iIdx), Words(Param.bytes))
                      [] OTHER  -> x[r]]
            ELSE x
  /\ iIdx' = iIdx + StructRegs(Param.bytes)
  /\ k' = k + 1
  /\ UNCHANGED <<call, pc, frameVars, fIdx, d, sp, fp, body>>

(* Mutant of SaveWords: register i in the slot after its own.              *)
SaveWordsShifted(m) == WriteWords(m, sp + 24, [w \in 1..7 |-> x[w - 1]])

(* X1..X7 of a variadic function, over the parameter slots.                *)
SaveWords(m) == WriteWords(m, sp + 24, [w \in 1..7 |-> x[w]])

SaveRegisters ==
  /\ pc = "prologue" /\ k > Len(call.params)
  /\ pc' = "body"
  /\ LET m == IF call.variadic THEN SaveWords(mem) ELSE mem
     IN  mem' = IF call.ret > 16 THEN Write(m, sp + Off(X8Slot), x[8]) ELSE m
  /\ UNCHANGED <<call, k, frameVars, regs, sp, fp, body>>

-----------------------------------------------------------------------------
frameBase == IF hasVLA THEN fp ELSE sp

(* ADD with a 12-bit immediate: bit 12 of the offset lands in the shift    *)
(* bit.  Loads and stores of a slot have 12 bits for the offset / 8.       *)
encADDimm(off) == IF off < 4096 THEN off ELSE (off - 4096) * 4096

Inline(l) == l.kind \in {"array", "structArray", "chars", "struct"}

(* Where the body finds a local: the address arrayBase computes for one    *)
(* that lies in the frame, the slot of a scalar, what the slot of a VLA    *)
(* holds.                                                                  *)
LocalOff(j) == Off(<<"local", j>>)
LocalAddress(j) ==
  LET l == call.locals[j]
  IN  IF Dynamic(l) THEN Read(mem, fp + LocalOff(j))[2]
      ELSE IF Inline(l) THEN frameBase + encADDimm(LocalOff(j))
      ELSE frameBase + LocalOff(j)

Size(l) ==
  CASE l.kind = "vla" -> l.n [] l.kind = "alloca" -> l.n \div 8 [] OTHER -> Footprint(l)

(* The body writes every word of a local it has; a VLA's while the slot    *)
(* holds its address.                                                      *)
StoreLocal(j) ==
  /\ pc = "body"
  /\ Dynamic(call.locals[j]) => Read(mem, fp + LocalOff(j))[1] = "sp"
  /\ mem' = WriteWords(mem, LocalAddress(j),
              [w \in 1..Size(call.locals[j]) |-> <<"word", j, w>>])
  /\ stored' = stored \cup {j}
  /\ UNCHANGED <<call, pc, k, frameVars, regs, sp, fp, ap, got, dest, restored>>

(* Mutant of VLABytes: bytes for elements.                                 *)
VLABytesUnscaled(l) == AlignUp(l.n, 16)

VLABytes(l) == AlignUp(IF l.kind = "vla" THEN l.n * 8 ELSE l.n, 16)

(* IRVLAAlloc and IRAllocaAlloc: SP moves down; the slot keeps the base.   *)
(* In a loop this happens again: the slot then names a new array, and SP   *)
(* does not come back before the epilogue.                                 *)
AllocVLA(j) ==
  /\ pc = "body" /\ Dynamic(call.locals[j])
  /\ sp - VLABytes(call.locals[j]) >= -MaxStack
  /\ sp' = sp - VLABytes(call.locals[j])
  /\ mem' = Write(mem, fp + LocalOff(j), <<"sp", sp'>>)
  /\ stored' = stored \ {j}
  /\ UNCHANGED <<call, pc, k, frameVars, regs, fp, ap, got, dest, restored>>

(* An inner call uses the caller-saved registers and the stack below SP.   *)
InnerCall ==
  /\ pc = "body"
  /\ x' = [r \in DOMAIN x |-> Junk] /\ d' = [r \in DOMAIN d |-> Junk]
  /\ mem' = WriteWords(mem, sp - 16, <<Junk, Junk>>)
  /\ UNCHANGED <<call, pc, k, frameVars, iIdx, fIdx, sp, fp, body>>

(* Mutant of regSlots: one register per parameter.                         *)
regSlotsPerParam(p) == IF p.class = "fp" THEN 0 ELSE 1

(* Integer registers va_start counts for a named parameter, and for the    *)
(* first j of them.                                                        *)
regSlots(p) ==
  CASE p.class = "struct" -> StructRegs(p.bytes)
    [] p.class = "fp"     -> 0
    [] OTHER              -> 1

RegsBefore(ps, j) == Cardinality({r \in (1..j) \X (1..2) : r[2] <= regSlots(ps[r[1]])})

VaStart ==
  /\ pc = "body" /\ call.variadic /\ ap = <<>>
  /\ ap' = <<sp + encADDimm(16 + 8 * RegsBefore(call.params, Len(call.params)))>>
  /\ UNCHANGED <<call, pc, k, frameVars, regs, sp, fp, mem, stored, got, dest, restored>>

VaArg ==
  /\ pc = "body" /\ ap # <<>> /\ Len(got) < Len(call.extra)
  /\ got' = Append(got, Read(mem, ap[1]))
  /\ ap' = <<ap[1] + 8>>
  /\ UNCHANGED <<call, pc, k, frameVars, regs, sp, fp, mem, stored, dest, restored>>

(* Mutant of EpilogueSP: SP is where it was.                               *)
EpilogueSPMoved == sp

(* emitEpilogue reads FP and LR at SP, which a VLA has moved.              *)
EpilogueSP == IF hasVLA THEN fp ELSE sp

(* IRReturn and emitStructReturn: a scalar goes to X0 or D0, a struct to X0 *)
(* and X1, or through the address that X8 held on entry; X8, X9 and X10    *)
(* are scratch then.                                                       *)
Ret(w)      == <<"ret", w>>
ResultWords == IF call.ret = 0 THEN 1 ELSE Words(call.ret)
InX0        == call.ret \in 1..16 \/ (call.ret = 0 /\ ~call.retFP)

(* Mutant of ReturnX: the second word of a struct is not loaded.           *)
ReturnXFirst ==
  [r \in DOMAIN x |-> IF r = 0 /\ InX0 THEN Ret(1)
                      ELSE IF r \in 8..10 /\ call.ret > 0 THEN Junk
                      ELSE x[r]]

ReturnX ==
  [r \in DOMAIN x |-> IF r = 0 /\ InX0 THEN Ret(1)
                      ELSE IF r = 1 /\ call.ret \in 9..16 THEN Ret(2)
                      ELSE IF r \in 8..10 /\ call.ret > 0 THEN Junk
                      ELSE x[r]]

ReturnD ==
  [r \in DOMAIN d |-> IF r = 0 /\ call.ret = 0 /\ call.retFP THEN Ret(1) ELSE d[r]]

ThroughX8 ==
  IF call.ret > 16 /\ Read(mem, frameBase + Off(X8Slot)) = DestPtr
    THEN [w \in 1..ResultWords |-> Ret(w)]
    ELSE dest

(* Then emitEpilogue.                                                      *)
Return ==
  /\ pc = "body"
  /\ pc' = "returned"
  /\ x' = ReturnX /\ d' = ReturnD /\ dest' = ThroughX8
  /\ restored' = <<Read(mem, EpilogueSP), Read(mem, EpilogueSP + 8)>>
  /\ sp' = EpilogueSP + frameSize
  /\ UNCHANGED <<call, k, frameVars, iIdx, fIdx, fp, mem, stored, ap, got>>

(* emitCall after the BL: a struct of at most 16 bytes is stored from X0   *)
(* and X1, a larger one is in place, a scalar is in D0 or X0.  After a     *)
(* call through a pointer X0 is stored, whatever the result is.            *)
TakeResult ==
  /\ pc = "returned"
  /\ pc' = "resumed"
  /\ dest' = IF call.ptr THEN <<x[0]>>
             ELSE IF call.ret > 16 THEN dest
             ELSE IF call.ret > 8 THEN <<x[0], x[1]>>
             ELSE IF call.ret = 0 /\ call.retFP THEN <<d[0]>>
             ELSE <<x[0]>>
  /\ UNCHANGED <<call, k, frameVars, regs, sp, fp, mem, stored, ap, got, restored>>

Next ==
  \/ ParamSlot \/ SaveArea \/ StructSlot \/ StructsEnd \/ LocalSlot \/ LocalsEnd \/ TempSlot \/ FrameEnd
  \/ RouteFP \/ RouteInt \/ RouteStruct \/ EnterFunction
  \/ StoreFPParam \/ StoreIntParam \/ StoreStructParam \/ SaveRegisters
  \/ (\E j \in 1..Len(call.locals) : StoreLocal(j) \/ AllocVLA(j))
  \/ InnerCall \/ VaStart \/ VaArg \/ Return \/ TakeResult

Spec == Init /\ [][Next]_vars

-----------------------------------------------------------------------------
Ids == {X8Slot} \cup {<<"param", i>> : i \in 1..Len(call.params)}
         \cup {<<"local", j>> : j \in 1..Len(call.locals)}
         \cup {<<"temp", j>> : j \in 1..call.temps}

(* Slots belong to the function's own names, registers to their banks, and *)
(* the variables of the running code are words and addresses.              *)
TypeOK ==
  /\ calls(call)
  /\ pc \in {"params", "structs", "locals", "temps", "args", "prologue", "body", "returned", "resumed"}
  /\ k \in Nat \ {0} /\ offset \in Nat
  /\ DOMAIN slots \subseteq Ids
  /\ \A id \in DOMAIN slots : slots[id].off \in Nat /\ slots[id].size \in Nat \ {0}
  /\ iIdx \in Nat /\ fIdx \in 0..8
  /\ DOMAIN x = 0..18 /\ DOMAIN d = 0..7
  /\ sp \in Int /\ fp \in Int /\ DOMAIN mem \subseteq Int
  /\ stored \subseteq 1..Len(call.locals) /\ Len(ap) <= 1 /\ Len(got) <= Len(call.extra)

(* The frame buildFrame lays out holds every slot of the function, whole   *)
(* words above the saved FP and LR, no two of them and (in a variadic      *)
(* function) no local or temporary and the register save area on the same  *)
(* bytes; SP keeps the 16-byte alignment the processor insists on.         *)
Apart(a, b) == a.off + a.size <= b.off \/ b.off + b.size <= a.off
FrameDisjoint ==
  pc \in {"args", "prologue", "body"} =>
    /\ DOMAIN slots \cup {X8Slot} = Ids
    /\ frameSize % 16 = 0
    /\ \A id \in DOMAIN slots :
         /\ slots[id].off % 8 = 0
         /\ 16 <= slots[id].off /\ slots[id].off + slots[id].size <= frameSize
         /\ call.variadic /\ id[1] # "param" => slots[id].off >= 80
    /\ \A i, j \in DOMAIN slots : i # j => Apart(slots[i], slots[j])

(* Frames in which every word is reached: below 4096 bytes, from where on  *)
(* encADDimm shifts the offset, and without arrays of structs, whose slots *)
(* are too small as those of global ones are.                              *)
Regular ==
  /\ frameSize <= 4096
  /\ \A j \in 1..Len(call.locals) : call.locals[j].kind # "structArray"

(* What the body stores in a local it finds there again, whatever else it  *)
(* stores, allocates, or calls, and it never overwrites the FP and LR that *)
(* the epilogue needs.                                                     *)
LocalsKept ==
  pc = "body" /\ Regular =>
    /\ Read(mem, fp) = CallerFP /\ Read(mem, fp + 8) = CallerLR
    /\ \A j \in stored : \A w \in 1..Size(call.locals[j]) :
         Read(mem, LocalAddress(j) + 8 * (w - 1)) = <<"word", j, w>>

(* Registers a call's named parameters need when every one has its own.    *)
RegsNeeded == RegsBefore(call.params, Len(call.params))
FPNeeded == Cardinality({i \in 1..Len(call.params) : call.params[i].class = "fp"})
Fits     == RegsNeeded <= 8 /\ FPNeeded <= 8
AllInt   == \A i \in 1..Len(call.params) : call.params[i].class = "int"

(* emitCall and emitPrologue, which count registers separately, agree:     *)
(* while the body runs, every named parameter's slot holds the argument    *)
(* the caller passed for it, word by word.  Claimed for calls whose        *)
(* arguments fit the registers: direct ones of fixed arity, pointer calls  *)
(* without a struct of more than a word, and variadic functions whose      *)
(* named parameters are integers.                                          *)
ArgsArrive ==
  /\ pc = "body" /\ Regular /\ Fits
  /\ call.variadic => AllInt
  /\ call.ptr => \A i \in 1..Len(call.params) : call.params[i].bytes <= 8
  => \A i \in 1..Len(call.params) : \A w \in 1..Words(call.params[i].bytes) :
       Read(mem, fp + Off(<<"param", i>>) + 8 * (w - 1)) = Arg(i, w)

(* "va_arg(ap, T) reads *ap as T and advances ap by one slot" (stdarg.h):  *)
(* the values a variadic function reads are the extra arguments in order,  *)
(* as long as the registers held them, no named parameter is floating      *)
(* point, and the function has no VLA.                                     *)
VaArgs ==
  /\ call.variadic /\ Regular /\ ~hasVLA /\ FPNeeded = 0
  /\ call.ptr => \A i \in 1..Len(Args) : Args[i].bytes <= 8 /\ Args[i].class # "fp"
  => \A i \in 1..Len(got) :
       RegsNeeded + i <= 8 => got[i] = Arg(Len(call.params) + i, 1)

(* The caller goes on as it was: its FP and LR are back, SP is where it    *)
(* was before the call although VLAs moved it, and its variable has the    *)
(* result, word by word, although the callee decides where to leave it and *)
(* the caller where to look, and inner calls have used every register.  (A *)
(* call through a pointer is claimed to get a result of one integer word.) *)
ReturnReaches ==
  Regular =>
    /\ pc \in {"returned", "resumed"} => restored = <<CallerFP, CallerLR>> /\ sp = frameSize
    /\ pc = "resumed" /\ (~call.ptr \/ (call.ret <= 8 /\ ~call.retFP))
         => dest = [w \in 1..ResultWords |-> Ret(w)]

(* "va_start initialises ap to point at the first variadic argument slot.  *)
(* The __va_start() built-in is resolved by the compiler to the save-area  *)
(* address computed from the current frame pointer" (libc/stdarg.h).       *)
VaStartFirst ==
  /\ pc = "body" /\ ap # <<>> /\ got = <<>> /\ Len(call.extra) > 0
  /\ RegsNeeded + FPNeeded < 8
  => Read(mem, ap[1]) = Arg(Len(call.params) + 1, 1)
=============================================================================
