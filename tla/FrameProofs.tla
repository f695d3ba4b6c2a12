---------------------------- MODULE FrameProofs ----------------------------
(***************************************************************************)
(* Proofs about Frame: the frame is laid out without overlaps, locals keep *)
(* what is stored in them, arguments arrive, va_arg reads the extra ones,  *)
(* and the caller gets back its registers and the result, for every set of *)
(* calls.                                                                  *)
(***************************************************************************)
EXTENDS Frame, FiniteSetTheorems, TLAPS

(* The inductive invariant.                                                *)
n == Len(call.params)
Regs(i) == RegsBefore(call.params, i)
FPs(i) == Cardinality({q \in 1..i : call.params[q].class = "fp"})

Types ==
  /\ call \in Calls
  /\ pc \in {"params", "structs", "locals", "temps", "args", "prologue", "body", "returned", "resumed"}
  /\ k \in Nat \ {0} /\ offset \in Nat /\ iIdx \in Nat /\ fIdx \in 0..8
  /\ x = [r \in 0..18 |-> x[r]] /\ d = [r \in 0..7 |-> d[r]]
  /\ sp \in Int /\ fp \in Int
  /\ stored \subseteq 1..Len(call.locals)
  /\ ap = <<>> \/ \E a : ap = <<a>>
  /\ (\E S : got \in Seq(S)) /\ Len(got) <= Len(call.extra)
  /\ ap = <<>> => got = <<>>
  /\ pc \notin {"body", "returned", "resumed"} => stored = {} /\ ap = <<>>

(* Addresses in memory are numbers, and only AllocVLA writes stack         *)
(* pointers.                                                               *)
ValuesInv ==
  /\ DOMAIN mem \subseteq Int
  /\ \A a \in DOMAIN mem : mem[a][1] = "sp" => mem[a][2] \in Int
  /\ (\A r \in 0..18 : x[r][1] # "sp") /\ (\A r \in 0..7 : d[r][1] # "sp")

(* buildFrame: whole words, one slot behind the other.                     *)
SlotsInv ==
  /\ offset % 8 = 0 /\ 16 <= offset
  /\ call.variadic /\ pc # "params" => 80 <= offset
  /\ \A id \in DOMAIN slots :
       /\ slots[id].off \in Nat /\ slots[id].size \in Nat \ {0}
       /\ slots[id].off % 8 = 0 /\ slots[id].size % 8 = 0
       /\ 16 <= slots[id].off /\ slots[id].off + slots[id].size <= offset
       /\ call.variadic /\ id[1] # "param" => slots[id].off >= 80
  /\ \A i, j \in DOMAIN slots : i # j => Apart(slots[i], slots[j])

(* Which slots there are.                                                  *)
Before(phase, i) == pc = phase => i < k
PlacedInv ==
  /\ DOMAIN slots \subseteq Ids
  /\ call.ret > 16 /\ pc # "params" => X8Slot \in DOMAIN slots
  /\ \A i \in 1..n :
       IF call.params[i].class = "struct"
         THEN pc # "params" /\ Before("structs", i) => <<"param", i>> \in DOMAIN slots
         ELSE Before("params", i) => <<"param", i>> \in DOMAIN slots
  /\ \A j \in 1..Len(call.locals) :
       pc \notin {"params", "structs"} /\ Before("locals", j) => <<"local", j>> \in DOMAIN slots
  /\ \A j \in 1..call.temps :
       pc \notin {"params", "structs", "locals"} /\ Before("temps", j) =>
         <<"temp", j>> \in DOMAIN slots

SizesInv ==
  /\ X8Slot \in DOMAIN slots => slots[X8Slot].size = 8
  /\ \A i \in 1..n : <<"param", i>> \in DOMAIN slots =>
       slots[<<"param", i>>].size =
         IF call.params[i].class = "struct" THEN 8 * Words(call.params[i].bytes) ELSE 8
  /\ \A j \in 1..Len(call.locals) : <<"local", j>> \in DOMAIN slots =>
       slots[<<"local", j>>].size = LocalBytes(call.locals[j])

(* Integer parameters have their slots in the order of the registers.      *)
OrderInv ==
  AllInt =>
    /\ pc = "params" => offset = 16 + 8 * (k - 1) /\ k <= n + 1
    /\ \A i \in 1..n : <<"param", i>> \in DOMAIN slots =>
         slots[<<"param", i>>].off = 16 + 8 * (i - 1)

BuildInv == SlotsInv /\ PlacedInv /\ SizesInv /\ OrderInv

(* SP and FP, and the counts of registers before they are used.            *)
StackInv ==
  /\ pc \in {"params", "structs", "locals", "temps"} => iIdx = 0 /\ fIdx = 0
  /\ pc \in {"params", "structs", "locals", "temps", "args"} => DOMAIN mem = {}
  /\ pc \in {"args", "prologue", "body", "returned", "resumed"} => offset % 16 = 0 /\ offset <= MaxFrame
  /\ pc = "args" => sp = offset
  /\ pc \in {"prologue", "body"} => fp = 0 /\ sp <= 0
  /\ pc = "prologue" => sp = 0
  /\ pc = "body" => (hasVLA \/ sp = 0)

(* What the caller passes: when every parameter has registers of its own,  *)
(* they hold it.                                                           *)
Claimed ==
  /\ Fits
  /\ call.variadic => FPNeeded = 0
  /\ call.ptr => \A i \in 1..n : call.params[i].bytes <= 8

InRegs(i) ==
  LET p == call.params[i]
  IN  /\ p.class = "fp" => d[FPs(i - 1)] = Arg(i, 1)
      /\ p.class = "struct" /\ p.bytes > 16 => x[Regs(i - 1)] = CopyOf(i)
      /\ p.class = "int" \/ (p.class = "struct" /\ p.bytes <= 16) => x[Regs(i - 1)] = Arg(i, 1)
      /\ p.class = "struct" /\ p.bytes > 8 /\ p.bytes <= 16 => x[Regs(i - 1) + 1] = Arg(i, 2)

ExtraClaimed ==
  /\ Claimed /\ call.variadic
  /\ call.ptr => \A i \in 1..Len(call.extra) : call.extra[i].class # "fp"

ExtraInReg(i) == RegsNeeded + i <= 8 => x[RegsNeeded + i - 1] = Arg(n + i, 1)

CallerInv ==
  pc = "args" =>
    /\ k <= Len(Args) + 1
    /\ Claimed =>
         /\ k <= n + 1 => iIdx = Regs(k - 1) /\ fIdx = FPs(k - 1)
         /\ k > n + 1 => RegsNeeded <= iIdx /\ iIdx <= 8
         /\ \A i \in 1..n : i < k => InRegs(i)
    /\ ExtraClaimed /\ k > n =>
         /\ RegsNeeded + (k - 1 - n) <= 8 => iIdx = RegsNeeded + (k - 1 - n)
         /\ RegsNeeded + (k - 1 - n) > 8 => iIdx = 8
         /\ \A i \in 1..Len(call.extra) : n + i < k => ExtraInReg(i)

(* What the callee finds.                                                  *)
Arrived(i) ==
  \A w \in 1..Words(call.params[i].bytes) :
    Read(mem, Off(<<"param", i>>) + 8 * (w - 1)) = Arg(i, w)

PrologueInv ==
  pc = "prologue" =>
    /\ Read(mem, 0) = CallerFP /\ Read(mem, 8) = CallerLR
    /\ k <= n + 1
    /\ \A j \in 1..Len(call.locals) : Read(mem, LocalOff(j)) = Junk
    /\ call.ret > 16 /\ ~call.ptr => x[8] = DestPtr
    /\ Claimed =>
         /\ iIdx = Regs(k - 1) /\ fIdx = FPs(k - 1)
         /\ \A i \in 1..n : InRegs(i)
         /\ \A i \in 1..n : i < k => Arrived(i)
    /\ ExtraClaimed => \A i \in 1..Len(call.extra) : ExtraInReg(i)

(* The body: what it must not overwrite, ...                               *)
KeptInv ==
  pc = "body" /\ Regular =>
    /\ Read(mem, 0) = CallerFP /\ Read(mem, 8) = CallerLR
    /\ call.ret > 16 /\ ~call.ptr => Read(mem, Off(X8Slot)) = DestPtr
    /\ Claimed /\ (call.variadic => AllInt) => \A i \in 1..n : Arrived(i)
    /\ ExtraClaimed => \A i \in 1..Len(call.extra) :
         RegsNeeded + i <= 8 => Read(mem, 16 + 8 * (RegsNeeded + i - 1)) = Arg(n + i, 1)

(* ... its VLAs, one below the other, ...                                  *)
Base(j) == Read(mem, LocalOff(j))[2]
Allocated(j) ==
  /\ Read(mem, LocalOff(j))[1] = "sp" /\ Base(j) \in Int
  /\ sp <= Base(j) /\ Base(j) + VLABytes(call.locals[j]) <= 0
VLAs == {j \in 1..Len(call.locals) : Dynamic(call.locals[j])}

DynamicInv ==
  pc = "body" /\ Regular =>
    /\ \A j \in VLAs : Read(mem, LocalOff(j)) = Junk \/ Allocated(j)
    /\ \A i, j \in VLAs : i # j /\ Allocated(i) /\ Allocated(j) =>
         \/ Base(i) + VLABytes(call.locals[i]) <= Base(j)
         \/ Base(j) + VLABytes(call.locals[j]) <= Base(i)

(* ... and its stores.                                                     *)
Address(j) == IF j \in VLAs THEN Base(j) ELSE LocalOff(j)
StoredInv ==
  pc = "body" /\ Regular =>
    \A j \in stored :
      /\ j \in VLAs => Allocated(j)
      /\ \A w \in 1..Size(call.locals[j]) :
           Read(mem, Address(j) + 8 * (w - 1)) = <<"word", j, w>>

GotInv ==
  pc \in {"body", "returned", "resumed"} /\ Regular /\ ExtraClaimed /\ ~hasVLA =>
    /\ ap # <<>> => ap = <<16 + 8 * (RegsNeeded + Len(got))>>
    /\ \A i \in 1..Len(got) : RegsNeeded + i <= 8 => got[i] = Arg(n + i, 1)

RunInv == CallerInv /\ PrologueInv /\ KeptInv /\ DynamicInv /\ StoredInv /\ GotInv

(* What the callee leaves for the caller, and what the caller gets.        *)
ResultInv ==
  /\ ReturnReaches
  /\ pc = "returned" =>
       /\ InX0 => x[0] = Ret(1)
       /\ call.ret = 0 /\ call.retFP => d[0] = Ret(1)
       /\ call.ret \in 9..16 => x[1] = Ret(2)
       /\ Regular /\ call.ret > 16 /\ ~call.ptr => dest = [w \in 1..ResultWords |-> Ret(w)]

FrameInv == Types /\ ValuesInv /\ BuildInv /\ StackInv /\ RunInv /\ ResultInv

-----------------------------------------------------------------------------
(* Memory: what a write leaves, and what it puts there.                    *)
LEMMA ReadWrite ==
  ASSUME NEW m, NEW a, NEW v
  PROVE  /\ Read(Write(m, a, v), a) = v
         /\ \A b : b # a => Read(Write(m, a, v), b) = Read(m, b)
         /\ DOMAIN Write(m, a, v) = DOMAIN m \cup {a}
  BY DEF Read, Write

(* WriteWords writes its words and nothing else.                           *)
LEMMA ReadWords ==
  ASSUME NEW m, NEW a \in Int, NEW vs, NEW len \in Nat, Len(vs) = len
  PROVE  /\ \A w \in 1..len : Read(WriteWords(m, a, vs), a + 8 * (w - 1)) = vs[w]
         /\ \A b \in Int : b < a \/ a + 8 * len <= b =>
              Read(WriteWords(m, a, vs), b) = Read(m, b)
<1> DEFINE to == {a + 8 * (w - 1) : w \in 1..Len(vs)}
<1>1. WriteWords(m, a, vs) =
        [b \in DOMAIN m \cup to |-> IF b \in to THEN vs[(b - a) \div 8 + 1] ELSE m[b]]
  BY DEF WriteWords
<1>2. \A w \in 1..len : a + 8 * (w - 1) \in to /\ ((a + 8 * (w - 1)) - a) \div 8 + 1 = w
  <2>1. \A w \in Int : (8 * (w - 1)) \div 8 = w - 1
    BY SMT
  <2>2. ASSUME NEW w \in 1..len
        PROVE  /\ a + 8 * (w - 1) \in to
               /\ ((a + 8 * (w - 1)) - a) \div 8 + 1 = w
    <3>1. (a + 8 * (w - 1)) - a = 8 * (w - 1)
      OBVIOUS
    <3> QED
      BY <2>1, <3>1
  <2> QED
    BY <2>2
<1>3. ASSUME NEW b \in Int, b < a \/ a + 8 * len <= b
      PROVE  b \notin to
  BY <1>3
<1> QED
  BY <1>1, <1>2, <1>3 DEF Read

(* WriteWords keeps addresses numbers.                                     *)
LEMMA WordsDomain ==
  ASSUME NEW m, NEW a \in Int, NEW vs, Len(vs) \in Nat, DOMAIN m \subseteq Int
  PROVE  DOMAIN WriteWords(m, a, vs) \subseteq Int
  BY DEF WriteWords

(* What a word holds after WriteWords is new or as it was.                 *)
LEMMA WordsValues ==
  ASSUME NEW m, NEW a \in Int, NEW vs, NEW len \in Nat, Len(vs) = len,
         NEW b \in DOMAIN WriteWords(m, a, vs)
  PROVE  \/ \E w \in 1..len : WriteWords(m, a, vs)[b] = vs[w]
         \/ b \in DOMAIN m /\ WriteWords(m, a, vs)[b] = m[b]
<1> DEFINE to == {a + 8 * (w - 1) : w \in 1..Len(vs)}
<1>1. WriteWords(m, a, vs) =
        [c \in DOMAIN m \cup to |-> IF c \in to THEN vs[(c - a) \div 8 + 1] ELSE m[c]]
  BY DEF WriteWords
<1>2. CASE b \in to
  <2>1. PICK w \in 1..len : b = a + 8 * (w - 1)
    BY <1>2
  <2>2. (8 * (w - 1)) \div 8 = w - 1
    BY SMT
  <2>3. b - a = 8 * (w - 1)
    BY <2>1
  <2> QED
    BY <1>1, <1>2, <2>2, <2>3
<1>3. CASE b \notin to
  BY <1>1, <1>3
<1> QED
  BY <1>2, <1>3

-----------------------------------------------------------------------------
(* Sizes and alignment.                                                    *)
LEMMA AlignUpIs ==
  ASSUME NEW v \in Nat, NEW a \in {1, 2, 4, 8, 16, 32, 64}
  PROVE  /\ AlignUp(v, a) \in Nat /\ v <= AlignUp(v, a) /\ AlignUp(v, a) % a = 0
         /\ v % 8 = 0 => AlignUp(v, a) % 8 = 0
<1>1. a = 1 \/ a = 2 \/ a = 4 \/ a = 8 \/ a = 16 \/ a = 32 \/ a = 64
  OBVIOUS
<1>2. CASE a = 1
  BY <1>2 DEF AlignUp
<1>3. CASE a = 2
  BY <1>3 DEF AlignUp
<1>4. CASE a = 4
  BY <1>4 DEF AlignUp
<1>5. CASE a = 8
  BY <1>5 DEF AlignUp
<1>6. CASE a = 16
  BY <1>6 DEF AlignUp
<1>7. CASE a = 32
  BY <1>7 DEF AlignUp
<1>8. CASE a = 64
  BY <1>8 DEF AlignUp
<1> QED
  BY <1>1, <1>2, <1>3, <1>4, <1>5, <1>6, <1>7, <1>8

(* A size rounded up to words holds the bytes.                             *)
LEMMA WordsIs ==
  ASSUME NEW b \in Nat \ {0}
  PROVE  Words(b) \in Nat \ {0} /\ b <= 8 * Words(b)
  BY DEF Words

(* The word counts that emitCall and emitPrologue tell apart.              *)
LEMMA WordsFew ==
  ASSUME NEW b \in Nat \ {0}
  PROVE  /\ b <= 8 => Words(b) = 1
         /\ b > 8 /\ b <= 16 => Words(b) = 2
  BY DEF Words

(* buildFrame gives a local whole words, and at least one.                 *)
LEMMA LocalBytesIs ==
  ASSUME NEW l, local(l)
  PROVE  LocalBytes(l) \in Nat \ {0} /\ LocalBytes(l) % 8 = 0
<1>1. l.n \in Nat \ {0} /\ l.bytes \in Nat \ {0}
  BY DEF local
<1>2. Words(l.n) \in Nat \ {0} /\ Words(l.bytes) \in Nat \ {0}
  BY <1>1, WordsIs
<1>3. \A i \in Nat \ {0} : 8 * i \in Nat \ {0} /\ (8 * i) % 8 = 0 /\ i * 8 = 8 * i
  OBVIOUS
<1> QED
  BY <1>1, <1>2, <1>3 DEF LocalBytes

(* The words the body writes in a local are a number.                      *)
LEMMA SizeIs ==
  ASSUME NEW l, local(l)
  PROVE  Size(l) \in Nat
<1>1. l.n \in Nat \ {0} /\ l.bytes \in Nat \ {0}
  BY DEF local
<1>2. LocalBytes(l) \in Nat \ {0}
  BY LocalBytesIs
<1>3. \A i \in Nat : i \div 8 \in Nat
  OBVIOUS
<1>4. l.n * l.bytes \in Nat \ {0}
  <2>1. \A i, j \in Nat \ {0} : i * j \in Nat \ {0}
    OBVIOUS
  <2> QED
    BY <1>1, <2>1
<1>5. Words(l.n * l.bytes) \in Nat
  BY <1>4, WordsIs
<1> QED
  BY <1>1, <1>2, <1>3, <1>5 DEF Size, Footprint

(* The words of a local lie in what was set aside for it.                  *)
LEMMA SizeFits ==
  ASSUME NEW l, local(l), l.kind # "structArray"
  PROVE  /\ ~Dynamic(l) => 8 * Size(l) = LocalBytes(l)
         /\ Dynamic(l) => 8 * Size(l) <= VLABytes(l)
<1>1. l.n \in Nat \ {0} /\ l.bytes \in Nat \ {0}
  BY DEF local
<1>2. LocalBytes(l) \in Nat \ {0} /\ LocalBytes(l) % 8 = 0
  BY LocalBytesIs
<1>3. \A i \in Nat : i % 8 = 0 => 8 * (i \div 8) = i
  OBVIOUS
<1>4. ASSUME ~Dynamic(l)
      PROVE  8 * Size(l) = LocalBytes(l)
  <2>1. Size(l) = Footprint(l)
    BY <1>4 DEF Size, Dynamic
  <2>2. CASE l.kind = "array"
    BY <2>1, <2>2, <1>1 DEF Footprint, LocalBytes
  <2>3. CASE l.kind # "array"
    <3>1. Footprint(l) = LocalBytes(l) \div 8
      BY <2>3 DEF Footprint
    <3> QED
      BY <2>1, <3>1, <1>2, <1>3
  <2> QED
    BY <2>2, <2>3
<1>5. ASSUME Dynamic(l)
      PROVE  8 * Size(l) <= VLABytes(l)
  <2>1. CASE l.kind = "vla"
    <3>1. PICK m \in Nat : m = l.n * 8
      BY <1>1
    <3>2. m <= AlignUp(m, 16)
      BY AlignUpIs
    <3> QED
      BY <2>1, <3>1, <3>2, <1>1 DEF Size, VLABytes
  <2>2. CASE l.kind = "alloca"
    <3>1. l.n <= AlignUp(l.n, 16) /\ AlignUp(l.n, 16) \in Nat
      BY <1>1, AlignUpIs
    <3>2. 8 * (l.n \div 8) <= l.n
      BY <1>1
    <3> QED
      BY <2>2, <3>1, <3>2, <1>1 DEF Size, VLABytes
  <2> QED
    BY <1>5, <2>1, <2>2 DEF Dynamic
<1> QED
  BY <1>4, <1>5

(* What IRVLAAlloc and IRAllocaAlloc take from SP is a number.             *)
LEMMA VLABytesIs ==
  ASSUME NEW l, local(l)
  PROVE  VLABytes(l) \in Nat
<1>1. l.n \in Nat /\ l.n * 8 \in Nat
  BY DEF local
<1> QED
  BY <1>1, AlignUpIs DEF VLABytes

-----------------------------------------------------------------------------
(* Counting registers.                                                     *)
LEMMA StructRegsIs ==
  ASSUME NEW b \in Nat
  PROVE  StructRegs(b) \in 1..2 /\ (StructRegs(b) = 2 <=> b > 8 /\ b <= 16)
  BY DEF StructRegs

(* Integer registers of a parameter, by class.                             *)
LEMMA regSlotsIs ==
  ASSUME NEW p, param(p)
  PROVE  /\ regSlots(p) \in 0..2
         /\ p.class = "struct" => regSlots(p) = StructRegs(p.bytes)
         /\ p.class = "fp" => regSlots(p) = 0
         /\ p.class = "int" => regSlots(p) = 1
<1>1. p.bytes \in Nat
  BY DEF param
<1>2. StructRegs(p.bytes) \in 1..2
  BY <1>1, StructRegsIs
<1> QED
  BY <1>2 DEF regSlots, param

(* The registers of the first j parameters can be counted.                 *)
LEMMA RegsFinite ==
  ASSUME NEW ps, NEW j \in Nat
  PROVE  /\ IsFiniteSet({r \in (1..j) \X (1..2) : r[2] <= regSlots(ps[r[1]])})
         /\ RegsBefore(ps, j) \in Nat
<1> DEFINE S == {r \in (1..j) \X (1..2) : r[2] <= regSlots(ps[r[1]])}
<1>1. IsFiniteSet(1..j) /\ IsFiniteSet(1..2)
  <2>1. 1 \in Int /\ 2 \in Int /\ j \in Int
    OBVIOUS
  <2> QED
    BY <2>1, FS_Interval
<1>2. IsFiniteSet((1..j) \X (1..2))
  BY <1>1, FS_Product
<1>3. IsFiniteSet(S)
  BY <1>2, FS_Subset
<1>4. Cardinality(S) \in Nat
  BY <1>3, FS_CardinalityType
<1> QED
  BY <1>3, <1>4 DEF RegsBefore

(* No parameter needs no register.                                         *)
LEMMA RegsZero ==
  ASSUME NEW ps
  PROVE  RegsBefore(ps, 0) = 0
<1>1. {r \in (1..0) \X (1..2) : r[2] <= regSlots(ps[r[1]])} = {}
  OBVIOUS
<1> QED
  BY <1>1, FS_EmptySet DEF RegsBefore

(* More parameters need no fewer registers.                                *)
LEMMA RegsMonotone ==
  ASSUME NEW ps, NEW i \in Nat, NEW j \in Nat, i <= j
  PROVE  RegsBefore(ps, i) <= RegsBefore(ps, j)
<1> DEFINE S(q) == {r \in (1..q) \X (1..2) : r[2] <= regSlots(ps[r[1]])}
<1>1. S(i) \subseteq S(j)
  OBVIOUS
<1>2. IsFiniteSet(S(j))
  BY RegsFinite
<1>3. Cardinality(S(i)) <= Cardinality(S(j))
  <2> HIDE DEF S
  <2> QED
    BY <1>1, <1>2, FS_Subset
<1> QED
  BY <1>3 DEF RegsBefore

(* A parameter adds its own registers to those before it.                  *)
LEMMA RegsStep ==
  ASSUME NEW ps, NEW j \in Nat, regSlots(ps[j + 1]) \in 0..2
  PROVE  RegsBefore(ps, j + 1) = RegsBefore(ps, j) + regSlots(ps[j + 1])
<1> DEFINE S(q) == {r \in (1..q) \X (1..2) : r[2] <= regSlots(ps[r[1]])}
           a == <<j + 1, 1>>
           b == <<j + 1, 2>>
<1>1. IsFiniteSet(S(j)) /\ RegsBefore(ps, j) = Cardinality(S(j))
        /\ RegsBefore(ps, j + 1) = Cardinality(S(j + 1)) /\ Cardinality(S(j)) \in Nat
  BY RegsFinite DEF RegsBefore
<1>2. a \notin S(j) /\ b \notin S(j) /\ a # b
  OBVIOUS
<1>3. \A q \in 1..(j + 1) : q \in 1..j \/ q = j + 1
  OBVIOUS
<1>4. ASSUME NEW r \in (1..(j + 1)) \X (1..2)
      PROVE  r \in (1..j) \X (1..2) \/ r = a \/ r = b
  <2>1. PICK q \in 1..(j + 1), e \in 1..2 : r = <<q, e>>
    BY <1>4
  <2>2. e = 1 \/ e = 2
    BY <2>1
  <2> QED
    BY <2>1, <2>2, <1>3
<1>5. (1..j) \X (1..2) \subseteq (1..(j + 1)) \X (1..2)
  OBVIOUS
<1>6. a \in (1..(j + 1)) \X (1..2) /\ b \in (1..(j + 1)) \X (1..2)
  OBVIOUS
<1>7. CASE regSlots(ps[j + 1]) = 0
  <2>1. S(j + 1) = S(j)
    BY <1>4, <1>5, <1>6, <1>7
  <2> HIDE DEF S
  <2> QED
    BY <2>1, <1>1, <1>7
<1>8. CASE regSlots(ps[j + 1]) = 1
  <2>1. S(j + 1) = S(j) \cup {a}
    BY <1>4, <1>5, <1>6, <1>8
  <2>2. Cardinality(S(j) \cup {a}) = Cardinality(S(j)) + 1
    <3> HIDE DEF S, a
    <3> QED
      BY <1>1, <1>2, FS_AddElement
  <2> QED
    BY <2>1, <2>2, <1>1, <1>8
<1>9. CASE regSlots(ps[j + 1]) = 2
  <2>1. S(j + 1) = (S(j) \cup {a}) \cup {b}
    BY <1>4, <1>5, <1>6, <1>9
  <2>2. Cardinality((S(j) \cup {a}) \cup {b}) = Cardinality(S(j)) + 2
    <3> HIDE DEF S, a, b
    <3>1. IsFiniteSet(S(j) \cup {a}) /\ Cardinality(S(j) \cup {a}) = Cardinality(S(j)) + 1
      BY <1>1, <1>2, FS_AddElement
    <3>2. b \notin S(j) \cup {a}
      BY <1>2
    <3>3. Cardinality((S(j) \cup {a}) \cup {b}) = Cardinality(S(j) \cup {a}) + 1
      BY <3>1, <3>2, FS_AddElement
    <3> QED
      BY <3>1, <3>3, <1>1
  <2> QED
    BY <2>1, <2>2, <1>1, <1>9
<1> QED
  BY <1>7, <1>8, <1>9

(* A register for every parameter when all of them are integers.           *)
LEMMA RegsAllInt ==
  ASSUME NEW ps, NEW j \in Nat, \A i \in 1..j : regSlots(ps[i]) = 1
  PROVE  RegsBefore(ps, j) = j
<1> DEFINE S == {r \in (1..j) \X (1..2) : r[2] <= regSlots(ps[r[1]])}
<1>1. S = (1..j) \X {1}
  <2>1. ASSUME NEW r \in S PROVE r \in (1..j) \X {1}
    <3>1. PICK q \in 1..j, e \in 1..2 : r = <<q, e>>
      OBVIOUS
    <3>2. e <= 1
      BY <3>1
    <3>3. e = 1
      BY <3>1, <3>2
    <3> QED
      BY <3>1, <3>3
  <2>2. ASSUME NEW r \in (1..j) \X {1} PROVE r \in S
    <3>1. PICK q \in 1..j : r = <<q, 1>>
      OBVIOUS
    <3> QED
      BY <3>1
  <2> QED
    BY <2>1, <2>2
<1>2. IsFiniteSet(1..j) /\ Cardinality(1..j) = j
  BY FS_Interval
<1>3. IsFiniteSet({1}) /\ Cardinality({1}) = 1
  BY FS_Singleton
<1>4. Cardinality((1..j) \X {1}) = Cardinality(1..j) * Cardinality({1})
  BY <1>2, <1>3, FS_Product
<1>5. RegsBefore(ps, j) = Cardinality(S)
  BY DEF RegsBefore
<1> HIDE DEF S
<1> QED
  BY <1>5, <1>1, <1>2, <1>3, <1>4

(* The floating-point parameters among the first j can be counted.         *)
LEMMA FPFinite ==
  ASSUME NEW j \in Nat
  PROVE  IsFiniteSet({q \in 1..j : call.params[q].class = "fp"}) /\ FPs(j) \in Nat
<1>1. IsFiniteSet(1..j)
  BY FS_Interval
<1>2. IsFiniteSet({q \in 1..j : call.params[q].class = "fp"})
  BY <1>1, FS_Subset
<1> QED
  BY <1>2, FS_CardinalityType DEF FPs

(* Before the first parameter there is no floating-point one.              *)
LEMMA FPZero == FPs(0) = 0
<1>1. {q \in 1..0 : call.params[q].class = "fp"} = {}
  OBVIOUS
<1> QED
  BY <1>1, FS_EmptySet DEF FPs

(* More parameters have no fewer floating-point ones.                      *)
LEMMA FPMonotone ==
  ASSUME NEW i \in Nat, NEW j \in Nat, i <= j
  PROVE  FPs(i) <= FPs(j)
<1> DEFINE S(m) == {q \in 1..m : call.params[q].class = "fp"}
<1>1. S(i) \subseteq S(j)
  OBVIOUS
<1>2. IsFiniteSet(S(j))
  BY FPFinite
<1>3. Cardinality(S(i)) <= Cardinality(S(j))
  <2> HIDE DEF S
  <2> QED
    BY <1>1, <1>2, FS_Subset
<1> QED
  BY <1>3 DEF FPs

(* A floating-point parameter adds one to the count.                       *)
LEMMA FPStep ==
  ASSUME NEW j \in Nat
  PROVE  FPs(j + 1) = IF call.params[j + 1].class = "fp" THEN FPs(j) + 1 ELSE FPs(j)
<1> DEFINE S(m) == {q \in 1..m : call.params[q].class = "fp"}
<1>1. IsFiniteSet(S(j)) /\ FPs(j) = Cardinality(S(j)) /\ FPs(j + 1) = Cardinality(S(j + 1))
  BY FPFinite DEF FPs
<1>2. j + 1 \notin S(j)
  OBVIOUS
<1>3. \A q \in 1..(j + 1) : q \in 1..j \/ q = j + 1
  OBVIOUS
<1>4. CASE call.params[j + 1].class = "fp"
  <2>1. S(j + 1) = S(j) \cup {j + 1}
    BY <1>3, <1>4
  <2>2. Cardinality(S(j) \cup {j + 1}) = Cardinality(S(j)) + 1
    <3> HIDE DEF S
    <3> QED
      BY <1>1, <1>2, FS_AddElement
  <2> QED
    BY <2>1, <2>2, <1>1, <1>4
<1>5. CASE call.params[j + 1].class # "fp"
  <2>1. S(j + 1) = S(j)
    BY <1>3, <1>5
  <2> QED
    BY <2>1, <1>1, <1>5
<1> QED
  BY <1>4, <1>5

(* The count is zero when no parameter is floating point.                  *)
LEMMA NoFP ==
  ASSUME n \in Nat
  PROVE  FPNeeded = 0 <=> \A i \in 1..n : call.params[i].class # "fp"
<1> DEFINE S == {q \in 1..n : call.params[q].class = "fp"}
<1>1. IsFiniteSet(S)
  BY FPFinite
<1>2. FPNeeded = Cardinality(S)
  BY DEF FPNeeded, n
<1>3. Cardinality(S) = 0 <=> S = {}
  <2> HIDE DEF S
  <2> QED
    BY <1>1, FS_EmptySet
<1> QED
  BY <1>2, <1>3

-----------------------------------------------------------------------------
(* What FrameAssumption says of the call.                                  *)
LEMMA CallIs ==
  ASSUME call \in Calls
  PROVE  /\ calls(call)
         /\ n \in Nat /\ Len(call.extra) \in Nat /\ Len(call.locals) \in Nat
         /\ DOMAIN call.params = 1..n
         /\ call.temps \in Nat /\ call.ret \in Nat
         /\ call.variadic \in BOOLEAN /\ call.ptr \in BOOLEAN
         /\ call.variadic => n > 0
         /\ ~call.variadic => Len(call.extra) = 0
<1>1. calls(call)
  BY FrameAssumption
<1>2. ASSUME NEW s, list(s)
      PROVE  Len(s) \in Nat /\ DOMAIN s = 1..Len(s)
  BY <1>2 DEF list
<1>3. list(call.params) /\ list(call.extra) /\ list(call.locals)
  BY <1>1 DEF calls
<1>4. /\ n \in Nat /\ Len(call.extra) \in Nat /\ Len(call.locals) \in Nat
      /\ DOMAIN call.params = 1..n
  BY <1>2, <1>3 DEF n
<1>5. /\ call.temps \in Nat /\ call.ret \in Nat
      /\ call.variadic \in BOOLEAN /\ call.ptr \in BOOLEAN
  BY <1>1 DEF calls
<1>6. (call.variadic => n > 0) /\ (~call.variadic => Len(call.extra) = 0)
  BY <1>1 DEF calls, n
<1> QED
  BY <1>1, <1>4, <1>5, <1>6

(* What FrameAssumption says of a parameter.                               *)
LEMMA ParamIs ==
  ASSUME call \in Calls, NEW i \in 1..n
  PROVE  /\ param(call.params[i])
         /\ call.params[i].class \in {"int", "fp", "struct"}
         /\ call.params[i].bytes \in Nat \ {0}
         /\ call.params[i].class # "struct" => call.params[i].bytes <= 8
         /\ Words(call.params[i].bytes) \in Nat \ {0}
         /\ regSlots(call.params[i]) \in 0..2
<1>1. param(call.params[i])
  BY CallIs DEF calls, n
<1> QED
  BY <1>1, WordsIs, regSlotsIs DEF param

(* What FrameAssumption says of an extra argument.                         *)
LEMMA ExtraIs ==
  ASSUME call \in Calls, NEW i \in 1..Len(call.extra)
  PROVE  /\ param(call.extra[i])
         /\ call.extra[i].class \in {"int", "fp"}
         /\ call.extra[i].bytes \in Nat \ {0} /\ call.extra[i].bytes <= 8
  BY CallIs DEF calls, param

(* What FrameAssumption says of a local.                                   *)
LEMMA LocalIs ==
  ASSUME call \in Calls, NEW j \in 1..Len(call.locals)
  PROVE  local(call.locals[j])
  BY CallIs DEF calls

(* The arguments: the parameters, then the extra ones.                     *)
LEMMA ArgsIs ==
  ASSUME call \in Calls
  PROVE  /\ Len(Args) = n + Len(call.extra)
         /\ \A i \in 1..n : Args[i] = call.params[i]
         /\ \A i \in 1..Len(call.extra) : Args[n + i] = call.extra[i]
<1>1. PICK P, E : call.params \in Seq(P) /\ call.extra \in Seq(E)
  BY CallIs DEF calls, list
<1>2. call.params \in Seq(P \cup E) /\ call.extra \in Seq(P \cup E)
  BY <1>1
<1>3. Len(call.params) \in Nat /\ Len(call.extra) \in Nat
  BY <1>2
<1>4. PICK p, e : p = call.params /\ e = call.extra
  OBVIOUS
<1>5. p \in Seq(P \cup E) /\ e \in Seq(P \cup E) /\ Len(p) \in Nat /\ Len(e) \in Nat
  BY <1>2, <1>3, <1>4
<1>6. /\ Len(p \o e) = Len(p) + Len(e)
      /\ \A i \in 1..Len(p) : (p \o e)[i] = p[i]
      /\ \A i \in 1..Len(e) : (p \o e)[Len(p) + i] = e[i]
  BY <1>5
<1> QED
  BY <1>4, <1>6 DEF Args, n

-----------------------------------------------------------------------------
(* buildFrame.                                                             *)
LEMMA AddSlotIs ==
  ASSUME NEW id, NEW off, NEW size, slots' = AddSlot(id, off, size)
  PROVE  /\ DOMAIN slots' = DOMAIN slots \cup {id}
         /\ slots'[id].off = off /\ slots'[id].size = size
         /\ \A i \in DOMAIN slots : i # id => slots'[i] = slots[i]
  BY DEF AddSlot

(* A slot placed at or behind offset keeps the layout whole words apart.   *)
LEMMA SlotPlaced ==
  ASSUME SlotsInv, offset \in Nat, call' = call,
         NEW id, NEW off \in Nat, NEW size \in Nat \ {0},
         off % 8 = 0, size % 8 = 0, offset <= off,
         call.variadic /\ id[1] # "param" => off >= 80,
         call.variadic /\ pc' # "params" => 80 <= off,
         slots' = AddSlot(id, off, size), offset' = off + size
  PROVE  SlotsInv'
<1>1. /\ DOMAIN slots' = DOMAIN slots \cup {id}
      /\ slots'[id].off = off /\ slots'[id].size = size
      /\ \A i \in DOMAIN slots : i # id => slots'[i] = slots[i]
  BY AddSlotIs
<1>2. offset' % 8 = 0 /\ 16 <= offset' /\ offset <= offset'
  BY DEF SlotsInv
<1>3. call'.variadic /\ pc' # "params" => 80 <= offset'
  OBVIOUS
<1>4. ASSUME NEW i \in DOMAIN slots'
      PROVE  /\ slots'[i].off \in Nat /\ slots'[i].size \in Nat \ {0}
             /\ slots'[i].off % 8 = 0 /\ slots'[i].size % 8 = 0
             /\ 16 <= slots'[i].off /\ slots'[i].off + slots'[i].size <= offset'
             /\ call'.variadic /\ i[1] # "param" => slots'[i].off >= 80
  <2>1. CASE i = id
    BY <2>1, <1>1 DEF SlotsInv
  <2>2. CASE i # id
    <3>1. i \in DOMAIN slots /\ slots'[i] = slots[i]
      BY <2>2, <1>1
    <3> QED
      BY <3>1, <1>2 DEF SlotsInv
  <2> QED
    BY <2>1, <2>2
<1>5. ASSUME NEW i \in DOMAIN slots', NEW j \in DOMAIN slots', i # j
      PROVE  Apart(slots'[i], slots'[j])
  <2>1. CASE i = id
    <3>1. j \in DOMAIN slots /\ slots'[j] = slots[j]
      BY <2>1, <1>1, <1>5
    <3>2. slots[j].off \in Nat /\ slots[j].size \in Nat /\ slots[j].off + slots[j].size <= offset
      BY <3>1 DEF SlotsInv
    <3> QED
      BY <2>1, <3>1, <3>2, <1>1 DEF Apart
  <2>2. CASE j = id
    <3>1. i \in DOMAIN slots /\ slots'[i] = slots[i]
      BY <2>2, <1>1, <1>5
    <3>2. slots[i].off \in Nat /\ slots[i].size \in Nat /\ slots[i].off + slots[i].size <= offset
      BY <3>1 DEF SlotsInv
    <3> QED
      BY <2>2, <3>1, <3>2, <1>1 DEF Apart
  <2>3. CASE i # id /\ j # id
    <3>1. i \in DOMAIN slots /\ j \in DOMAIN slots /\ slots'[i] = slots[i] /\ slots'[j] = slots[j]
      BY <2>3, <1>1
    <3>2. Apart(slots[i], slots[j])
      BY <3>1, <1>5 DEF SlotsInv
    <3> QED
      BY <3>1, <3>2
  <2> QED
    BY <2>1, <2>2, <2>3
<1> QED
  BY <1>2, <1>3, <1>4, <1>5 DEF SlotsInv

(* No slot, or only a higher start for the next one.                       *)
LEMMA SlotsMoved ==
  ASSUME SlotsInv, offset \in Nat, offset' \in Nat, call' = call, slots' = slots,
         offset <= offset', offset' % 8 = 0,
         call.variadic /\ pc' # "params" => 80 <= offset'
  PROVE  SlotsInv'
<1>1. ASSUME NEW i \in DOMAIN slots
      PROVE  /\ slots[i].off \in Nat /\ slots[i].size \in Nat \ {0}
             /\ slots[i].off % 8 = 0 /\ slots[i].size % 8 = 0
             /\ 16 <= slots[i].off /\ slots[i].off + slots[i].size <= offset'
             /\ call.variadic /\ i[1] # "param" => slots[i].off >= 80
  BY DEF SlotsInv
<1>2. \A i, j \in DOMAIN slots : i # j => Apart(slots[i], slots[j])
  BY DEF SlotsInv
<1>3. 16 <= offset'
  BY DEF SlotsInv
<1> QED
  BY <1>1, <1>2, <1>3 DEF SlotsInv

(* While the frame is laid out nothing else changes.                       *)
LEMMA BuildPhase ==
  ASSUME Types, ValuesInv, StackInv,
         UNCHANGED <<call, regs, sp, fp, mem, body>>,
         pc \in {"params", "structs", "locals", "temps"},
         pc' \in {"params", "structs", "locals", "temps"},
         k' \in Nat \ {0}, offset' \in Nat
  PROVE  Types' /\ ValuesInv' /\ StackInv' /\ RunInv' /\ ResultInv'
<1> USE DEF regs, body
<1>1. Types'
  BY DEF Types
<1>2. ValuesInv'
  BY DEF ValuesInv
<1>3. StackInv'
  BY DEF StackInv
<1>4. RunInv'
  BY DEF RunInv, CallerInv, PrologueInv, KeptInv, DynamicInv, StoredInv, GotInv
<1>5. ResultInv'
  BY DEF ResultInv, ReturnReaches
<1> QED
  BY <1>1, <1>2, <1>3, <1>4, <1>5

(* A turn of one of buildFrame's loops places the slot of its name.        *)
LEMMA PlacedNext ==
  ASSUME PlacedInv, call' = call, pc' = pc, k \in Nat, k' = k + 1, call \in Calls,
         DOMAIN slots \subseteq DOMAIN slots', DOMAIN slots' \subseteq Ids,
         pc = "params" /\ k \in 1..n /\ call.params[k].class # "struct" =>
           <<"param", k>> \in DOMAIN slots',
         pc = "structs" /\ k \in 1..n /\ call.params[k].class = "struct" =>
           <<"param", k>> \in DOMAIN slots',
         pc = "locals" => <<"local", k>> \in DOMAIN slots',
         pc = "temps" => <<"temp", k>> \in DOMAIN slots'
  PROVE  PlacedInv'
<1>1. n \in Nat /\ Len(call.locals) \in Nat /\ call.temps \in Nat
  BY CallIs
<1>2. n' = n /\ Ids' = Ids
  BY DEF n, Ids
<1>3. \A i \in Nat : i < k' => i < k \/ i = k
  OBVIOUS
<1>4. DOMAIN slots' \subseteq Ids' /\ (call'.ret > 16 /\ pc' # "params" => X8Slot \in DOMAIN slots')
  BY <1>2 DEF PlacedInv
<1>5. ASSUME NEW i \in 1..n
      PROVE  IF call.params[i].class = "struct"
               THEN pc # "params" /\ (pc = "structs" => i < k') => <<"param", i>> \in DOMAIN slots'
               ELSE (pc = "params" => i < k') => <<"param", i>> \in DOMAIN slots'
  BY <1>1, <1>3 DEF PlacedInv, Before
<1>6. ASSUME NEW j \in 1..Len(call.locals)
      PROVE  pc \notin {"params", "structs"} /\ (pc = "locals" => j < k') =>
               <<"local", j>> \in DOMAIN slots'
  BY <1>1, <1>3 DEF PlacedInv, Before
<1>7. ASSUME NEW j \in 1..call.temps
      PROVE  pc \notin {"params", "structs", "locals"} /\ (pc = "temps" => j < k') =>
               <<"temp", j>> \in DOMAIN slots'
  BY <1>1, <1>3 DEF PlacedInv, Before
<1> QED
  BY <1>2, <1>4, <1>5, <1>6, <1>7 DEF PlacedInv, Before

(* A new slot has the size of what is stored in it.                        *)
LEMMA SizesNext ==
  ASSUME SizesInv, call' = call, NEW id, NEW off, NEW size, slots' = AddSlot(id, off, size),
         id = X8Slot => size = 8,
         \A i \in 1..n : id = <<"param", i>> =>
           size = IF call.params[i].class = "struct" THEN 8 * Words(call.params[i].bytes) ELSE 8,
         \A j \in 1..Len(call.locals) : id = <<"local", j>> => size = LocalBytes(call.locals[j])
  PROVE  SizesInv'
<1>1. /\ DOMAIN slots' = DOMAIN slots \cup {id}
      /\ slots'[id].off = off /\ slots'[id].size = size
      /\ \A i \in DOMAIN slots : i # id => slots'[i] = slots[i]
  BY AddSlotIs
<1>2. n' = n
  BY DEF n
<1>3. X8Slot \in DOMAIN slots' => slots'[X8Slot].size = 8
  BY <1>1 DEF SizesInv
<1>4. ASSUME NEW i \in 1..n, <<"param", i>> \in DOMAIN slots'
      PROVE  slots'[<<"param", i>>].size =
               IF call.params[i].class = "struct" THEN 8 * Words(call.params[i].bytes) ELSE 8
  <2>1. CASE id = <<"param", i>>
    BY <1>1, <2>1
  <2>2. CASE id # <<"param", i>>
    <3>1. <<"param", i>> \in DOMAIN slots
      BY <1>1, <1>4, <2>2
    <3>2. slots[<<"param", i>>].size =
               IF call.params[i].class = "struct" THEN 8 * Words(call.params[i].bytes) ELSE 8
      BY <3>1 DEF SizesInv
    <3> QED
      BY <1>1, <3>1, <3>2, <2>2
  <2> QED
    BY <2>1, <2>2
<1>5. ASSUME NEW j \in 1..Len(call.locals), <<"local", j>> \in DOMAIN slots'
      PROVE  slots'[<<"local", j>>].size = LocalBytes(call.locals[j])
  <2>1. CASE id = <<"local", j>>
    BY <1>1, <2>1
  <2>2. CASE id # <<"local", j>>
    <3>1. <<"local", j>> \in DOMAIN slots
      BY <1>1, <1>5, <2>2
    <3>2. slots[<<"local", j>>].size = LocalBytes(call.locals[j])
      BY <3>1 DEF SizesInv
    <3> QED
      BY <1>1, <3>1, <3>2, <2>2
  <2> QED
    BY <2>1, <2>2
<1> QED
  BY <1>2, <1>3, <1>4, <1>5, Zenon DEF SizesInv

(* Steps that place nothing keep the sizes.                                *)
LEMMA SizesSame ==
  ASSUME SizesInv, call' = call, slots' = slots
  PROVE  SizesInv'
  BY DEF SizesInv, n

(* Slots of other names leave the parameters' order alone.                 *)
LEMMA OrderNext ==
  ASSUME OrderInv, call' = call, pc' # "params",
         NEW id, NEW off, NEW size, slots' = AddSlot(id, off, size),
         AllInt => \A i \in 1..n : id # <<"param", i>>
  PROVE  OrderInv'
<1>1. /\ DOMAIN slots' = DOMAIN slots \cup {id}
      /\ \A i \in DOMAIN slots : i # id => slots'[i] = slots[i]
  BY AddSlotIs
<1>2. n' = n /\ (AllInt' <=> AllInt)
  BY DEF n, AllInt
<1> QED
  BY <1>1, <1>2 DEF OrderInv

(* Steps that place nothing keep the order.                                *)
LEMMA OrderSame ==
  ASSUME OrderInv, call' = call, slots' = slots, pc' # "params"
  PROVE  OrderInv'
<1>2. n' = n /\ (AllInt' <=> AllInt)
  BY DEF n, AllInt
<1> QED
  BY <1>2 DEF OrderInv

(* The invariant holds before buildFrame starts.                           *)
LEMMA InitInv == Init => FrameInv
<1> SUFFICES ASSUME Init PROVE FrameInv
  OBVIOUS
<1> USE DEF Init
<1>1. n \in Nat
  BY CallIs
<1>2. Types
  <2>1. stored \subseteq 1..Len(call.locals)
    OBVIOUS
  <2>2. got \in Seq({}) /\ Len(got) = 0
    OBVIOUS
  <2>3. x = [r \in 0..18 |-> x[r]] /\ d = [r \in 0..7 |-> d[r]]
    OBVIOUS
  <2>4. Len(got) <= Len(call.extra)
    BY <2>2, CallIs
  <2> QED
    BY <2>1, <2>2, <2>3, <2>4 DEF Types
<1>3. DOMAIN slots = {} /\ DOMAIN mem = {}
  OBVIOUS
<1>4. ValuesInv
  BY <1>3 DEF ValuesInv, Junk
<1>5. SlotsInv /\ SizesInv
  BY <1>3 DEF SlotsInv, SizesInv
<1>6. PlacedInv
  BY <1>1, <1>3 DEF PlacedInv, Before
<1>7. OrderInv
  BY <1>1, <1>3 DEF OrderInv
<1>8. StackInv
  BY <1>3 DEF StackInv
<1>9. RunInv
  BY DEF RunInv, CallerInv, PrologueInv, KeptInv, DynamicInv, StoredInv, GotInv
<1> QED
  BY <1>2, <1>4, <1>5, <1>6, <1>7, <1>8, <1>9 DEF FrameInv, BuildInv, ResultInv, ReturnReaches

(* The actions of buildFrame.                                              *)
LEMMA ParamSlotInv ==
  ASSUME FrameInv, ParamSlot
  PROVE  FrameInv'
<1>1. /\ Types /\ ValuesInv /\ StackInv
      /\ SlotsInv /\ PlacedInv /\ SizesInv /\ OrderInv
  BY DEF FrameInv, BuildInv
<1>2. call \in Calls /\ k \in Nat \ {0} /\ offset \in Nat /\ n \in Nat
  BY <1>1, CallIs DEF Types
<1>3. /\ pc = "params" /\ pc' = "params" /\ k' = k + 1 /\ k \in 1..n /\ call' = call
      /\ UNCHANGED <<call, regs, sp, fp, mem, body>>
  BY <1>2 DEF ParamSlot, n
<1>4. n' = n /\ (AllInt' <=> AllInt)
  BY <1>3 DEF n, AllInt
<1>5. CASE call.params[k].class = "struct"
  <2>1. slots' = slots /\ offset' = offset
    BY <1>5 DEF ParamSlot, frameVars
  <2>2. SlotsInv'
    BY <1>1, <1>2, <1>3, <2>1, SlotsMoved DEF SlotsInv
  <2>3. DOMAIN slots \subseteq Ids
    BY <1>1 DEF PlacedInv
  <2>4. PlacedInv'
    BY <1>1, <1>2, <1>3, <1>5, <2>1, <2>3, PlacedNext
  <2>5. SizesInv'
    BY <1>1, <1>3, <2>1, SizesSame
  <2>6. OrderInv'
    <3>1. ~AllInt
      BY <1>3, <1>5 DEF AllInt, n
    <3> QED
      BY <3>1, <1>4 DEF OrderInv
  <2>7. Types' /\ ValuesInv' /\ StackInv' /\ RunInv' /\ ResultInv'
    BY <1>1, <1>2, <1>3, <2>1, BuildPhase
  <2> QED
    BY <2>2, <2>4, <2>5, <2>6, <2>7 DEF FrameInv, BuildInv
<1>6. CASE call.params[k].class # "struct"
  <2>1. slots' = AddSlot(<<"param", k>>, offset, 8) /\ offset' = offset + 8
    BY <1>6 DEF ParamSlot
  <2> DEFINE id == <<"param", k>>
  <2>2. /\ DOMAIN slots' = DOMAIN slots \cup {id}
        /\ slots'[id].off = offset
        /\ \A i \in DOMAIN slots : i # id => slots'[i] = slots[i]
    BY <2>1, AddSlotIs
  <2>3. offset % 8 = 0 /\ id[1] = "param"
    BY <1>1 DEF SlotsInv
  <2>4. SlotsInv'
    BY <1>1, <1>2, <1>3, <2>1, <2>3, SlotPlaced
  <2>5. id \in Ids /\ DOMAIN slots \subseteq Ids
    BY <1>1, <1>3 DEF PlacedInv, Ids, n
  <2>6. PlacedInv'
    BY <1>1, <1>2, <1>3, <1>6, <2>2, <2>5, PlacedNext
  <2>7. SizesInv'
    <3>1. id # X8Slot /\ \A j : id # <<"local", j>>
      BY DEF X8Slot
    <3>2. \A i : id = <<"param", i>> => i = k
      OBVIOUS
    <3> QED
      BY <1>1, <1>3, <1>6, <2>1, <3>1, <3>2, SizesNext
  <2>8. OrderInv'
    <3> SUFFICES ASSUME AllInt
                 PROVE  /\ offset' = 16 + 8 * (k' - 1) /\ k' <= n + 1
                        /\ \A i \in 1..n : <<"param", i>> \in DOMAIN slots' =>
                             slots'[<<"param", i>>].off = 16 + 8 * (i - 1)
      BY <1>4 DEF OrderInv
    <3>1. /\ offset = 16 + 8 * (k - 1)
          /\ \A i \in 1..n : <<"param", i>> \in DOMAIN slots =>
               slots[<<"param", i>>].off = 16 + 8 * (i - 1)
      BY <1>1, <1>3 DEF OrderInv
    <3>2. offset' = 16 + 8 * (k' - 1) /\ k' <= n + 1
      BY <3>1, <2>1, <1>2, <1>3
    <3>3. ASSUME NEW i \in 1..n, <<"param", i>> \in DOMAIN slots'
          PROVE  slots'[<<"param", i>>].off = 16 + 8 * (i - 1)
      <4>1. CASE i = k
        BY <4>1, <3>1, <2>2
      <4>2. CASE i # k
        <5>1. <<"param", i>> # id
          BY <4>2
        <5> QED
          BY <5>1, <3>1, <3>3, <2>2
      <4> QED
        BY <4>1, <4>2
    <3> QED
      BY <3>2, <3>3
  <2>9. Types' /\ ValuesInv' /\ StackInv' /\ RunInv' /\ ResultInv'
    BY <1>1, <1>2, <1>3, <2>1, BuildPhase
  <2> QED
    BY <2>4, <2>6, <2>7, <2>8, <2>9 DEF FrameInv, BuildInv
<1> QED
  BY <1>5, <1>6

(* buildFrame's room for X0..X7 and the slot for X8.                       *)
LEMMA SaveAreaInv ==
  ASSUME FrameInv, SaveArea
  PROVE  FrameInv'
<1>1. /\ Types /\ ValuesInv /\ StackInv
      /\ SlotsInv /\ PlacedInv /\ SizesInv /\ OrderInv
  BY DEF FrameInv, BuildInv
<1>2. /\ call \in Calls /\ k \in Nat \ {0} /\ offset \in Nat /\ n \in Nat
      /\ Len(call.locals) \in Nat /\ call.temps \in Nat
  BY <1>1, CallIs DEF Types
<1>3. /\ pc = "params" /\ pc' = "structs" /\ k' = 1 /\ k > n /\ call' = call
      /\ UNCHANGED <<call, regs, sp, fp, mem, body>>
  BY <1>2 DEF SaveArea, n
<1>4. n' = n /\ Ids' = Ids
  BY <1>3 DEF n, Ids
<1>5. PICK off \in Nat :
        /\ off = IF call.variadic /\ offset < 80 THEN 80 ELSE offset
        /\ IF call.ret > 16 THEN slots' = AddSlot(X8Slot, off, 8) /\ offset' = off + 8
                            ELSE slots' = slots /\ offset' = off
  BY <1>2 DEF SaveArea
<1>6. off % 8 = 0 /\ offset <= off /\ (call.variadic => off >= 80)
  BY <1>1, <1>2, <1>5 DEF SlotsInv
<1>7. Types' /\ ValuesInv' /\ StackInv' /\ RunInv' /\ ResultInv'
  <2>1. offset' \in Nat
    BY <1>5
  <2> QED
    BY <1>1, <1>3, <2>1, BuildPhase
<1>8. ASSUME DOMAIN slots \subseteq DOMAIN slots', DOMAIN slots' \subseteq Ids,
             call.ret > 16 => X8Slot \in DOMAIN slots'
      PROVE  PlacedInv'
  <2>1. \A i \in 1..n : call.params[i].class # "struct" => <<"param", i>> \in DOMAIN slots'
    BY <1>1, <1>2, <1>3, <1>8 DEF PlacedInv, Before
  <2>2. \A i \in 1..n : ~(i < 1)
    BY <1>2
  <2> QED
    BY <1>3, <1>4, <1>8, <2>1, <2>2 DEF PlacedInv, Before
<1>9. CASE call.ret > 16
  <2>1. slots' = AddSlot(X8Slot, off, 8) /\ offset' = off + 8
    BY <1>9, <1>5
  <2>2. SlotsInv'
    <3>1. /\ call.variadic /\ X8Slot[1] # "param" => off >= 80
          /\ call.variadic /\ pc' # "params" => 80 <= off
      BY <1>6
    <3>2. 8 \in Nat \ {0} /\ 8 % 8 = 0
      OBVIOUS
    <3> QED
      BY <1>1, <1>2, <1>3, <1>6, <2>1, <3>1, <3>2, SlotPlaced
  <2>3. DOMAIN slots' = DOMAIN slots \cup {X8Slot}
    BY <2>1, AddSlotIs
  <2>4. PlacedInv'
    BY <2>3, <1>1, <1>8 DEF PlacedInv, Ids
  <2>5. \A i : X8Slot # <<"param", i>> /\ X8Slot # <<"local", i>>
    BY DEF X8Slot
  <2>6. SizesInv'
    BY <1>1, <1>3, <2>1, <2>5, SizesNext
  <2>7. OrderInv'
    BY <1>1, <1>3, <2>1, <2>5, OrderNext
  <2> QED
    BY <2>2, <2>4, <2>6, <2>7, <1>7 DEF FrameInv, BuildInv
<1>10. CASE ~(call.ret > 16)
  <2>1. slots' = slots /\ offset' = off
    BY <1>10, <1>5
  <2>2. SlotsInv'
    BY <1>1, <1>2, <1>3, <1>6, <2>1, SlotsMoved
  <2>3. PlacedInv'
    BY <2>1, <1>1, <1>8, <1>10 DEF PlacedInv
  <2>4. SizesInv' /\ OrderInv'
    BY <1>1, <1>3, <2>1, SizesSame, OrderSame
  <2> QED
    BY <2>2, <2>3, <2>4, <1>7 DEF FrameInv, BuildInv
<1> QED
  BY <1>9, <1>10

(* buildFrame on a struct parameter.                                       *)
LEMMA StructSlotInv ==
  ASSUME FrameInv, StructSlot
  PROVE  FrameInv'
<1>1. /\ Types /\ ValuesInv /\ StackInv
      /\ SlotsInv /\ PlacedInv /\ SizesInv /\ OrderInv
  BY DEF FrameInv, BuildInv
<1>2. call \in Calls /\ k \in Nat \ {0} /\ offset \in Nat /\ n \in Nat
  BY <1>1, CallIs DEF Types
<1>3. /\ pc = "structs" /\ pc' = "structs" /\ k' = k + 1 /\ k \in 1..n /\ call' = call
      /\ UNCHANGED <<call, regs, sp, fp, mem, body>>
  BY <1>2 DEF StructSlot, n
<1>4. offset % 8 = 0 /\ (call.variadic => 80 <= offset)
  BY <1>1, <1>3 DEF SlotsInv
<1>5. CASE call.params[k].class # "struct"
  <2>1. slots' = slots /\ offset' = offset
    BY <1>5 DEF StructSlot, frameVars
  <2>2. SlotsInv'
    BY <1>1, <1>2, <1>3, <1>4, <2>1, SlotsMoved
  <2>3. DOMAIN slots \subseteq Ids
    BY <1>1 DEF PlacedInv
  <2>4. PlacedInv'
    BY <1>1, <1>2, <1>3, <1>5, <2>1, <2>3, PlacedNext
  <2>5. SizesInv' /\ OrderInv'
    BY <1>1, <1>3, <2>1, SizesSame, OrderSame
  <2>6. Types' /\ ValuesInv' /\ StackInv' /\ RunInv' /\ ResultInv'
    BY <1>1, <1>2, <1>3, <2>1, BuildPhase
  <2> QED
    BY <2>2, <2>4, <2>5, <2>6 DEF FrameInv, BuildInv
<1>6. CASE call.params[k].class = "struct"
  <2>1. PICK size \in Nat \ {0} :
          /\ size = 8 * Words(call.params[k].bytes) /\ size % 8 = 0
          /\ slots' = AddSlot(<<"param", k>>, offset, size) /\ offset' = offset + size
    <3>1. Words(call.params[k].bytes) \in Nat \ {0}
      BY <1>2, <1>3, ParamIs
    <3> QED
      BY <3>1, <1>6 DEF StructSlot
  <2> DEFINE id == <<"param", k>>
  <2>2. DOMAIN slots' = DOMAIN slots \cup {id}
    BY <2>1, AddSlotIs
  <2>3. SlotsInv'
    BY <1>1, <1>2, <1>3, <1>4, <2>1, SlotPlaced
  <2>4. id \in Ids /\ DOMAIN slots \subseteq Ids
    BY <1>1, <1>3 DEF PlacedInv, Ids, n
  <2>5. PlacedInv'
    BY <1>1, <1>2, <1>3, <1>6, <2>2, <2>4, PlacedNext
  <2>6. SizesInv'
    <3>1. id # X8Slot /\ \A j : id # <<"local", j>>
      BY DEF X8Slot
    <3>2. \A i : id = <<"param", i>> => i = k
      OBVIOUS
    <3> QED
      BY <1>1, <1>3, <1>6, <2>1, <3>1, <3>2, SizesNext
  <2>7. OrderInv'
    <3>1. ~AllInt
      BY <1>3, <1>6 DEF AllInt, n
    <3> QED
      BY <3>1, <1>1, <1>3, <2>1, OrderNext
  <2>8. Types' /\ ValuesInv' /\ StackInv' /\ RunInv' /\ ResultInv'
    BY <1>1, <1>2, <1>3, <2>1, BuildPhase
  <2> QED
    BY <2>3, <2>5, <2>6, <2>7, <2>8 DEF FrameInv, BuildInv
<1> QED
  BY <1>5, <1>6

(* buildFrame goes on to the body's locals.                                *)
LEMMA StructsEndInv ==
  ASSUME FrameInv, StructsEnd
  PROVE  FrameInv'
<1>1. /\ Types /\ ValuesInv /\ StackInv
      /\ SlotsInv /\ PlacedInv /\ SizesInv /\ OrderInv
  BY DEF FrameInv, BuildInv
<1>2. /\ call \in Calls /\ k \in Nat \ {0} /\ offset \in Nat /\ n \in Nat
      /\ Len(call.locals) \in Nat
  BY <1>1, CallIs DEF Types
<1>3. /\ pc = "structs" /\ pc' = "locals" /\ k' = 1 /\ k > n /\ call' = call
      /\ UNCHANGED <<call, regs, sp, fp, mem, body>> /\ slots' = slots /\ offset' = offset
  BY <1>2 DEF StructsEnd, n, frameVars
<1>4. n' = n /\ Ids' = Ids
  BY <1>3 DEF n, Ids
<1>5. SlotsInv'
  BY <1>1, <1>2, <1>3, SlotsMoved DEF SlotsInv
<1>6. PlacedInv'
  <2>1. \A i \in 1..n : <<"param", i>> \in DOMAIN slots
    <3>1. \A i \in 1..n : i < k
      BY <1>2, <1>3
    <3> QED
      BY <1>1, <1>3, <3>1, Zenon DEF PlacedInv, Before
  <2>2. \A j \in 1..Len(call.locals) : ~(j < 1)
    BY <1>2
  <2>3. DOMAIN slots \subseteq Ids /\ (call.ret > 16 => X8Slot \in DOMAIN slots)
    BY <1>1, <1>3 DEF PlacedInv
  <2> QED
    BY <1>3, <1>4, <2>1, <2>2, <2>3 DEF PlacedInv, Before
<1>7. SizesInv' /\ OrderInv'
  BY <1>1, <1>3, SizesSame, OrderSame
<1>8. Types' /\ ValuesInv' /\ StackInv' /\ RunInv' /\ ResultInv'
  BY <1>1, <1>2, <1>3, BuildPhase
<1> QED
  BY <1>5, <1>6, <1>7, <1>8 DEF FrameInv, BuildInv

(* buildFrame on a local, with its alignment.                              *)
LEMMA LocalSlotInv ==
  ASSUME FrameInv, LocalSlot
  PROVE  FrameInv'
<1>1. /\ Types /\ ValuesInv /\ StackInv
      /\ SlotsInv /\ PlacedInv /\ SizesInv /\ OrderInv
  BY DEF FrameInv, BuildInv
<1>2. /\ call \in Calls /\ k \in Nat \ {0} /\ offset \in Nat /\ n \in Nat
      /\ Len(call.locals) \in Nat
  BY <1>1, CallIs DEF Types
<1>3. /\ pc = "locals" /\ pc' = "locals" /\ k' = k + 1 /\ k \in 1..Len(call.locals)
      /\ call' = call /\ UNCHANGED <<call, regs, sp, fp, mem, body>>
  BY <1>2 DEF LocalSlot
<1>4. offset % 8 = 0 /\ (call.variadic => 80 <= offset)
  BY <1>1, <1>3 DEF SlotsInv
<1>5. PICK l : l = call.locals[k]
  OBVIOUS
<1>6. local(l)
  BY <1>2, <1>3, <1>5, LocalIs
<1>7. PICK size \in Nat \ {0} : size = LocalBytes(l) /\ size % 8 = 0
  BY <1>6, LocalBytesIs
<1>8. PICK off \in Nat :
        /\ off = IF l.align > 0 THEN AlignUp(offset, l.align) ELSE offset
        /\ off % 8 = 0 /\ offset <= off
  <2>1. CASE l.align > 0
    <3>1. l.align \in {1, 2, 4, 8, 16, 32, 64}
      BY <2>1, <1>6 DEF local
    <3> QED
      BY <2>1, <3>1, <1>2, <1>4, AlignUpIs
  <2>2. CASE ~(l.align > 0)
    BY <2>2, <1>2, <1>4
  <2> QED
    BY <2>1, <2>2
<1>9. slots' = AddSlot(<<"local", k>>, off, size) /\ offset' = off + size
  BY <1>5, <1>7, <1>8 DEF LocalSlot
<1> DEFINE id == <<"local", k>>
<1>10. DOMAIN slots' = DOMAIN slots \cup {id}
  BY <1>9, AddSlotIs
<1>11. SlotsInv'
  BY <1>1, <1>2, <1>3, <1>4, <1>7, <1>8, <1>9, SlotPlaced
<1>12. id \in Ids /\ DOMAIN slots \subseteq Ids
  BY <1>1, <1>3 DEF PlacedInv, Ids
<1>13. PlacedInv'
  BY <1>1, <1>2, <1>3, <1>10, <1>12, PlacedNext
<1>14. id # X8Slot /\ (\A i : id # <<"param", i>>) /\ \A j : id = <<"local", j>> => j = k
  BY DEF X8Slot
<1>15. SizesInv'
  BY <1>1, <1>3, <1>5, <1>7, <1>9, <1>14, SizesNext
<1>16. OrderInv'
  BY <1>1, <1>3, <1>9, <1>14, OrderNext
<1>17. Types' /\ ValuesInv' /\ StackInv' /\ RunInv' /\ ResultInv'
  <2>1. offset' \in Nat /\ k' \in Nat \ {0}
    BY <1>2, <1>3, <1>9
  <2> QED
    BY <1>1, <1>3, <2>1, BuildPhase
<1> QED
  BY <1>11, <1>13, <1>15, <1>16, <1>17 DEF FrameInv, BuildInv

(* buildFrame goes on to the temporaries.                                  *)
LEMMA LocalsEndInv ==
  ASSUME FrameInv, LocalsEnd
  PROVE  FrameInv'
<1>1. /\ Types /\ ValuesInv /\ StackInv
      /\ SlotsInv /\ PlacedInv /\ SizesInv /\ OrderInv
  BY DEF FrameInv, BuildInv
<1>2. /\ call \in Calls /\ k \in Nat \ {0} /\ offset \in Nat /\ n \in Nat
      /\ Len(call.locals) \in Nat /\ call.temps \in Nat
  BY <1>1, CallIs DEF Types
<1>3. /\ pc = "locals" /\ pc' = "temps" /\ k' = 1 /\ k > Len(call.locals) /\ call' = call
      /\ UNCHANGED <<call, regs, sp, fp, mem, body>> /\ slots' = slots /\ offset' = offset
  BY DEF LocalsEnd, frameVars
<1>4. n' = n /\ Ids' = Ids
  BY <1>3 DEF n, Ids
<1>5. SlotsInv'
  BY <1>1, <1>2, <1>3, SlotsMoved DEF SlotsInv
<1>6. PlacedInv'
  <2>1. \A i \in 1..n : <<"param", i>> \in DOMAIN slots
    BY <1>1, <1>3 DEF PlacedInv, Before
  <2>2. \A j \in 1..Len(call.locals) : <<"local", j>> \in DOMAIN slots
    <3>1. \A j \in 1..Len(call.locals) : j < k
      BY <1>2, <1>3
    <3>2. pc = "locals"
      BY <1>3
    <3>3. \A j \in 1..Len(call.locals) :
       pc \notin {"params", "structs"} /\ (pc = "locals" => j < k) => <<"local", j>> \in DOMAIN slots
      BY <1>1, Zenon DEF PlacedInv, Before
    <3> QED
      BY <3>1, <3>2, <3>3
  <2>3. \A j \in 1..call.temps : ~(j < 1)
    BY <1>2
  <2>4. DOMAIN slots \subseteq Ids /\ (call.ret > 16 => X8Slot \in DOMAIN slots)
    BY <1>1, <1>3 DEF PlacedInv
  <2> QED
    BY <1>3, <1>4, <2>1, <2>2, <2>3, <2>4 DEF PlacedInv, Before
<1>7. SizesInv' /\ OrderInv'
  BY <1>1, <1>3, SizesSame, OrderSame
<1>8. Types' /\ ValuesInv' /\ StackInv' /\ RunInv' /\ ResultInv'
  BY <1>1, <1>2, <1>3, BuildPhase
<1> QED
  BY <1>5, <1>6, <1>7, <1>8 DEF FrameInv, BuildInv

(* buildFrame on a temporary.                                              *)
LEMMA TempSlotInv ==
  ASSUME FrameInv, TempSlot
  PROVE  FrameInv'
<1>1. /\ Types /\ ValuesInv /\ StackInv
      /\ SlotsInv /\ PlacedInv /\ SizesInv /\ OrderInv
  BY DEF FrameInv, BuildInv
<1>2. /\ call \in Calls /\ k \in Nat \ {0} /\ offset \in Nat /\ n \in Nat
      /\ call.temps \in Nat
  BY <1>1, CallIs DEF Types
<1>3. /\ pc = "temps" /\ pc' = "temps" /\ k' = k + 1 /\ k \in 1..call.temps
      /\ call' = call /\ UNCHANGED <<call, regs, sp, fp, mem, body>>
      /\ slots' = AddSlot(<<"temp", k>>, offset, 8) /\ offset' = offset + 8
  BY <1>2 DEF TempSlot
<1>4. offset % 8 = 0 /\ (call.variadic => 80 <= offset)
  BY <1>1, <1>3 DEF SlotsInv
<1> DEFINE id == <<"temp", k>>
<1>5. DOMAIN slots' = DOMAIN slots \cup {id}
  BY <1>3, AddSlotIs
<1>6. SlotsInv'
  BY <1>1, <1>2, <1>3, <1>4, SlotPlaced
<1>7. id \in Ids /\ DOMAIN slots \subseteq Ids
  BY <1>1, <1>3 DEF PlacedInv, Ids
<1>8. PlacedInv'
  BY <1>1, <1>2, <1>3, <1>5, <1>7, PlacedNext
<1>9. id # X8Slot /\ (\A i : id # <<"param", i>>) /\ \A j : id # <<"local", j>>
  BY DEF X8Slot
<1>10. SizesInv'
  BY <1>1, <1>3, <1>9, SizesNext
<1>11. OrderInv'
  BY <1>1, <1>3, <1>9, OrderNext
<1>12. Types' /\ ValuesInv' /\ StackInv' /\ RunInv' /\ ResultInv'
  <2>1. offset' \in Nat /\ k' \in Nat \ {0}
    BY <1>2, <1>3
  <2> QED
    BY <1>1, <1>3, <2>1, BuildPhase
<1> QED
  BY <1>6, <1>8, <1>10, <1>11, <1>12 DEF FrameInv, BuildInv

(* What only depends on the call stays.                                    *)
LEMMA CallSame ==
  ASSUME call' = call
  PROVE  /\ n' = n /\ Args' = Args /\ RegsNeeded' = RegsNeeded /\ FPNeeded' = FPNeeded
         /\ VLAs' = VLAs /\ Ids' = Ids
         /\ (Claimed' <=> Claimed) /\ (ExtraClaimed' <=> ExtraClaimed)
         /\ (AllInt' <=> AllInt) /\ (hasVLA' <=> hasVLA)
<1>1. n' = n /\ Args' = Args /\ RegsNeeded' = RegsNeeded /\ FPNeeded' = FPNeeded
  BY DEF n, Args, RegsNeeded, FPNeeded
<1>2. VLAs' = VLAs /\ Ids' = Ids
  BY DEF VLAs, Ids
<1>3. (AllInt' <=> AllInt) /\ (hasVLA' <=> hasVLA)
  BY DEF AllInt, hasVLA
<1>4. Claimed' <=> Claimed
  BY <1>1 DEF Claimed, Fits
<1>5. ExtraClaimed' <=> ExtraClaimed
  BY <1>4 DEF ExtraClaimed
<1> QED
  BY <1>1, <1>2, <1>3, <1>4, <1>5

(* The counts depend on the call alone.                                    *)
LEMMA RegsSame ==
  ASSUME call' = call, NEW i
  PROVE  Regs(i)' = Regs(i) /\ FPs(i)' = FPs(i)
  BY DEF Regs, FPs

(* The frame is laid out once.                                             *)
LEMMA BuildKept ==
  ASSUME BuildInv, UNCHANGED <<call, slots, offset>>,
         pc \in {"args", "prologue", "body", "returned", "resumed"},
         pc' \in {"args", "prologue", "body", "returned", "resumed"}
  PROVE  BuildInv'
<1>1. n' = n /\ Ids' = Ids /\ (AllInt' <=> AllInt)
  BY CallSame
<1>2. SlotsInv'
  BY DEF BuildInv, SlotsInv
<1>3. PlacedInv'
  BY <1>1 DEF BuildInv, PlacedInv, Before
<1>4. SizesInv' /\ OrderInv'
  BY SizesSame, OrderSame DEF BuildInv
<1> QED
  BY <1>2, <1>3, <1>4 DEF BuildInv

(* How the counts of the first i parameters relate.                        *)
LEMMA CountsIs ==
  ASSUME call \in Calls, NEW i \in 1..n
  PROVE  /\ Regs(i) = Regs(i - 1) + regSlots(call.params[i])
         /\ FPs(i) = IF call.params[i].class = "fp" THEN FPs(i - 1) + 1 ELSE FPs(i - 1)
         /\ Regs(i - 1) \in Nat /\ Regs(i) \in Nat /\ FPs(i - 1) \in Nat /\ FPs(i) \in Nat
         /\ Regs(i) <= RegsNeeded /\ FPs(i) <= FPNeeded
         /\ RegsNeeded \in Nat /\ FPNeeded \in Nat
<1>1. n \in Nat /\ i \in Nat
  BY CallIs
<1>2. PICK j \in Nat : j = i - 1 /\ i = j + 1
  BY <1>1
<1>3. regSlots(call.params[j + 1]) \in 0..2
  BY <1>2, ParamIs
<1>4. RegsBefore(call.params, j + 1) = RegsBefore(call.params, j) + regSlots(call.params[j + 1])
  BY <1>3, RegsStep
<1>5. FPs(j + 1) = IF call.params[j + 1].class = "fp" THEN FPs(j) + 1 ELSE FPs(j)
  BY FPStep
<1>6. RegsBefore(call.params, j) \in Nat /\ RegsBefore(call.params, i) \in Nat
  BY <1>1, RegsFinite
<1>7. FPs(j) \in Nat /\ FPs(i) \in Nat /\ FPs(n) \in Nat
  BY <1>1, FPFinite
<1>8. RegsBefore(call.params, i) <= RegsBefore(call.params, n)
  BY <1>1, RegsMonotone
<1>9. FPs(i) <= FPs(n)
  BY <1>1, FPMonotone
<1>10. RegsNeeded = RegsBefore(call.params, n) /\ FPNeeded = FPs(n)
  BY DEF RegsNeeded, FPNeeded, FPs, n
<1>11. RegsBefore(call.params, n) \in Nat
  BY <1>1, RegsFinite
<1>12. Regs(i) = RegsBefore(call.params, i) /\ Regs(i - 1) = RegsBefore(call.params, j)
  BY <1>2 DEF Regs
<1> QED
  BY <1>2, <1>4, <1>5, <1>6, <1>7, <1>8, <1>9, <1>10, <1>11, <1>12

(* What all named parameters need is the count after the last one.         *)
LEMMA NeededIs ==
  ASSUME call \in Calls
  PROVE  /\ RegsNeeded \in Nat /\ FPNeeded \in Nat
         /\ RegsNeeded = Regs(n) /\ FPNeeded = FPs(n) /\ Regs(0) = 0 /\ FPs(0) = 0
<1>1. n \in Nat
  BY CallIs
<1>2. RegsNeeded = Regs(n) /\ FPNeeded = FPs(n)
  BY DEF RegsNeeded, Regs, FPNeeded, FPs, n
<1>3. RegsBefore(call.params, n) \in Nat /\ FPs(n) \in Nat
  BY <1>1, RegsFinite, FPFinite
<1> QED
  BY <1>2, <1>3, RegsZero, FPZero DEF Regs

(* buildFrame aligns the frame, and the caller begins.                     *)
LEMMA FrameEndInv ==
  ASSUME FrameInv, FrameEnd
  PROVE  FrameInv'
<1>1. /\ Types /\ ValuesInv /\ StackInv
      /\ SlotsInv /\ PlacedInv /\ SizesInv /\ OrderInv
  BY DEF FrameInv, BuildInv
<1>2. /\ call \in Calls /\ k \in Nat \ {0} /\ offset \in Nat /\ n \in Nat
      /\ call.temps \in Nat
  BY <1>1, CallIs DEF Types
<1>3. /\ pc = "temps" /\ pc' = "args" /\ k' = 1 /\ k > call.temps /\ call' = call
      /\ UNCHANGED <<call, slots, regs, fp, mem, body>>
      /\ offset' = AlignUp(offset, 16) /\ sp' = AlignUp(offset, 16)
      /\ AlignUp(offset, 16) <= MaxFrame
  BY DEF FrameEnd
<1>4. n' = n /\ Ids' = Ids /\ (ExtraClaimed' <=> ExtraClaimed) /\ Args' = Args
  BY <1>3, CallSame
<1>5. offset' \in Nat /\ offset <= offset' /\ offset' % 16 = 0 /\ offset' % 8 = 0
  <2>1. offset % 8 = 0
    BY <1>1 DEF SlotsInv
  <2> QED
    BY <1>2, <1>3, <2>1, AlignUpIs
<1>6. SlotsInv'
  <2>1. call.variadic => 80 <= offset'
    BY <1>1, <1>2, <1>3, <1>5 DEF SlotsInv
  <2> QED
    BY <1>1, <1>2, <1>3, <1>5, <2>1, SlotsMoved
<1>7. PlacedInv'
  <2>1. \A j \in 1..call.temps : j < k
    BY <1>2, <1>3
  <2>2. /\ \A i \in 1..n : <<"param", i>> \in DOMAIN slots
        /\ \A j \in 1..Len(call.locals) : <<"local", j>> \in DOMAIN slots
        /\ \A j \in 1..call.temps : <<"temp", j>> \in DOMAIN slots
    BY <1>1, <1>3, <2>1 DEF PlacedInv, Before
  <2>3. DOMAIN slots \subseteq Ids /\ (call.ret > 16 => X8Slot \in DOMAIN slots)
    BY <1>1, <1>3 DEF PlacedInv
  <2> QED
    BY <1>3, <1>4, <2>2, <2>3 DEF PlacedInv, Before
<1>8. SizesInv' /\ OrderInv'
  BY <1>1, <1>3, SizesSame, OrderSame
<1>9. Types'
  <2>1. sp' \in Int /\ k' \in Nat \ {0}
    BY <1>3, <1>5
  <2> QED
    BY <1>1, <1>3, <1>5, <2>1 DEF Types, regs, body
<1>10. ValuesInv'
  BY <1>1, <1>3 DEF ValuesInv, regs
<1>11. StackInv'
  BY <1>1, <1>3, <1>5 DEF StackInv
<1>12. CallerInv'
  <2>1. iIdx' = 0 /\ fIdx' = 0
    BY <1>1, <1>3 DEF StackInv, regs
  <2>2. Regs(k - 1)' = 0 /\ FPs(k - 1)' = 0
    <3>1. k' - 1 = 0
      BY <1>3
    <3>2. Regs(0)' = 0 /\ FPs(0)' = 0
      BY <1>2, <1>3, NeededIs, RegsSame
    <3> QED
      BY <3>1, <3>2 DEF Regs, FPs
  <2>3. k' <= Len(Args') + 1 /\ k' <= n' + 1
    BY <1>2, <1>3, <1>4, ArgsIs, CallIs
  <2>4. ~(k' > n' + 1) /\ \A i \in 1..n' : ~(i < k')
    BY <1>2, <1>3, <1>4
  <2>5. ~(ExtraClaimed' /\ k' > n')
    BY <1>2, <1>3, <1>4, CallIs DEF ExtraClaimed
  <2> QED
    BY <2>1, <2>2, <2>3, <2>4, <2>5 DEF CallerInv
<1>13. RunInv' /\ ResultInv'
  BY <1>3, <1>12 DEF RunInv, PrologueInv, KeptInv, DynamicInv, StoredInv, GotInv, ResultInv, ReturnReaches
<1> QED
  BY <1>6, <1>7, <1>8, <1>9, <1>10, <1>11, <1>13 DEF FrameInv, BuildInv

-----------------------------------------------------------------------------
(* The caller.                                                             *)
LEMMA ArgsPhase ==
  ASSUME FrameInv, pc = "args", pc' = "args", k' = k + 1,
         UNCHANGED <<call, frameVars, sp, fp, mem, body>>,
         iIdx' \in Nat, fIdx' \in 0..8,
         x' = [r \in 0..18 |-> x'[r]], d' = [r \in 0..7 |-> d'[r]],
         \A r \in 0..18 : x'[r][1] # "sp", \A r \in 0..7 : d'[r][1] # "sp",
         CallerInv'
  PROVE  FrameInv'
<1>1. Types /\ ValuesInv /\ StackInv /\ BuildInv
  BY DEF FrameInv
<1>2. call' = call /\ slots' = slots /\ offset' = offset
  BY DEF frameVars
<1>3. Types'
  <2>1. k \in Nat \ {0}
    BY <1>1 DEF Types
  <2>2. k' \in Nat \ {0}
    BY <2>1
  <2> QED
    BY <1>1, <1>2, <2>2 DEF Types, body
<1>4. ValuesInv'
  BY <1>1 DEF ValuesInv
<1>5. StackInv'
  BY <1>1, <1>2 DEF StackInv
<1>6. BuildInv'
  BY <1>1, <1>2, BuildKept
<1>7. RunInv' /\ ResultInv'
  BY DEF RunInv, PrologueInv, KeptInv, DynamicInv, StoredInv, GotInv, ResultInv, ReturnReaches
<1> QED
  BY <1>3, <1>4, <1>5, <1>6, <1>7 DEF FrameInv

(* A parameter that has its registers keeps what is in them while the ones *)
(* after them are used.                                                    *)
LEMMA InRegsKept ==
  ASSUME call \in Calls, call' = call, NEW i \in 1..n, InRegs(i),
         Regs(i) <= 8, FPs(i) <= 8,
         \A r \in 0..7 : r < Regs(i) => x'[r] = x[r],
         \A r \in 0..7 : r < FPs(i) => d'[r] = d[r]
  PROVE  InRegs(i)'
<1>1. PICK p : p = call.params[i]
  OBVIOUS
<1>2. /\ Regs(i) = Regs(i - 1) + regSlots(p)
      /\ FPs(i) = IF p.class = "fp" THEN FPs(i - 1) + 1 ELSE FPs(i - 1)
      /\ Regs(i - 1) \in Nat /\ Regs(i) \in Nat /\ FPs(i - 1) \in Nat /\ FPs(i) \in Nat
  BY <1>1, CountsIs
<1>3. /\ param(p) /\ p.bytes \in Nat
  BY <1>1, ParamIs
<1>4. /\ p.class = "struct" => regSlots(p) = StructRegs(p.bytes)
      /\ p.class = "int" => regSlots(p) = 1
  BY <1>3, regSlotsIs
<1>5. StructRegs(p.bytes) \in 1..2 /\ (StructRegs(p.bytes) = 2 <=> p.bytes > 8 /\ p.bytes <= 16)
  BY <1>3, StructRegsIs
<1>6. Regs(i - 1)' = Regs(i - 1) /\ FPs(i - 1)' = FPs(i - 1)
  BY RegsSame
<1>7. PICK a \in Nat, b \in Nat, e \in Nat, f \in Nat :
        a = Regs(i - 1) /\ b = Regs(i) /\ e = FPs(i - 1) /\ f = FPs(i)
  BY <1>2
<1>8. p.class = "fp" => d'[e] = d[e]
  BY <1>2, <1>7
<1>9. p.class \in {"int", "struct"} => x'[a] = x[a]
  BY <1>2, <1>4, <1>5, <1>7
<1>10. p.class = "struct" /\ p.bytes > 8 /\ p.bytes <= 16 => x'[a + 1] = x[a + 1]
  BY <1>2, <1>4, <1>5, <1>7
<1>11. /\ p.class = "fp" => d[e] = Arg(i, 1)
       /\ p.class = "struct" /\ p.bytes > 16 => x[a] = CopyOf(i)
       /\ p.class = "int" \/ (p.class = "struct" /\ p.bytes <= 16) => x[a] = Arg(i, 1)
       /\ p.class = "struct" /\ p.bytes > 8 /\ p.bytes <= 16 => x[a + 1] = Arg(i, 2)
  BY <1>1, <1>7, Zenon DEF InRegs
<1>12. /\ p.class = "fp" => d'[e] = Arg(i, 1)
       /\ p.class = "struct" /\ p.bytes > 16 => x'[a] = CopyOf(i)
       /\ p.class = "int" \/ (p.class = "struct" /\ p.bytes <= 16) => x'[a] = Arg(i, 1)
       /\ p.class = "struct" /\ p.bytes > 8 /\ p.bytes <= 16 => x'[a + 1] = Arg(i, 2)
  BY <1>8, <1>9, <1>10, <1>11
<1> QED
  BY <1>1, <1>6, <1>7, <1>12, Zenon DEF InRegs, Arg, CopyOf

(* A named parameter has been passed.                                      *)
LEMMA CallerNext ==
  ASSUME FrameInv, pc = "args", pc' = "args", k' = k + 1, call' = call, NEW c \in 1..n, k = c,
         Claimed => /\ iIdx' = Regs(k) /\ fIdx' = FPs(k) /\ InRegs(c)'
                    /\ \A r \in 0..7 : r < iIdx => x'[r] = x[r]
                    /\ \A r \in 0..7 : r < fIdx => d'[r] = d[r]
  PROVE  CallerInv'
<1>1. Types /\ CallerInv
  BY DEF FrameInv, RunInv
<1>2. call \in Calls /\ k \in Nat \ {0} /\ n \in Nat /\ Len(call.extra) \in Nat
  BY <1>1, CallIs DEF Types
<1>3. /\ n' = n /\ Args' = Args /\ RegsNeeded' = RegsNeeded
      /\ (Claimed' <=> Claimed) /\ (ExtraClaimed' <=> ExtraClaimed)
  BY CallSame
<1>4. k' <= Len(Args') + 1
  BY <1>2, <1>3, ArgsIs
<1>5. k' <= n + 1 /\ k' - 1 = k
  BY <1>2
<1>6. ASSUME Claimed
      PROVE  /\ iIdx' = Regs(k' - 1) /\ fIdx' = FPs(k' - 1)
             /\ \A i \in 1..n : i < k' => InRegs(i)'
  <2>1. iIdx = Regs(k - 1) /\ fIdx = FPs(k - 1) /\ \A i \in 1..n : i < k => InRegs(i)
    BY <1>1, <1>2, <1>6 DEF CallerInv
  <2>2. RegsNeeded <= 8 /\ FPNeeded <= 8
    BY <1>6 DEF Claimed, Fits
  <2>3. ASSUME NEW i \in 1..n, i < k
        PROVE  InRegs(i)'
    <3>1. InRegs(i)
      BY <2>1, <2>3
    <3>2. /\ Regs(i) \in Nat /\ FPs(i) \in Nat /\ RegsNeeded \in Nat /\ FPNeeded \in Nat
          /\ Regs(i) <= RegsNeeded /\ FPs(i) <= FPNeeded
      BY <1>2, CountsIs
    <3>3. Regs(i) <= Regs(k - 1) /\ FPs(i) <= FPs(k - 1)
      <4>1. i \in Nat /\ k - 1 \in Nat /\ i <= k - 1
        BY <1>2, <2>3
      <4> QED
        BY <4>1, RegsMonotone, FPMonotone DEF Regs
    <3>4. Regs(k - 1) \in Nat /\ FPs(k - 1) \in Nat
      BY <1>2, CountsIs
    <3>5. Regs(i) <= 8 /\ FPs(i) <= 8
      BY <3>2, <2>2
    <3>6. \A r \in 0..7 : r < Regs(i) => x'[r] = x[r]
      BY <3>2, <3>3, <3>4, <2>1, <1>6
    <3>7. \A r \in 0..7 : r < FPs(i) => d'[r] = d[r]
      BY <3>2, <3>3, <3>4, <2>1, <1>6
    <3> QED
      BY <1>2, <3>1, <3>5, <3>6, <3>7, InRegsKept
  <2>4. \A i \in 1..n : i < k' => i < k \/ i = k
    BY <1>2
  <2>5. \A i \in 1..n : i < k' => InRegs(i)'
    <3> SUFFICES ASSUME NEW i \in 1..n, i < k'
                 PROVE  InRegs(i)'
      OBVIOUS
    <3>1. CASE i < k
      BY <3>1, <2>3
    <3>2. CASE i = k
      BY <3>2, <1>6
    <3> QED
      BY <2>4, <3>1, <3>2
  <2> QED
    BY <1>5, <1>6, <2>5
<1>7. ASSUME ExtraClaimed, k' > n
      PROVE  /\ iIdx' = RegsNeeded /\ k' - 1 - n = 0 /\ RegsNeeded + 0 = RegsNeeded
             /\ ~(RegsNeeded > 8) /\ \A i \in 1..Len(call.extra) : ~(n + i < k')
  <2>1. k = n
    BY <1>2, <1>7
  <2>2. Claimed
    BY <1>7 DEF ExtraClaimed
  <2>3. RegsNeeded \in Nat /\ RegsNeeded = Regs(n)
    BY <1>2, NeededIs
  <2>4. RegsNeeded <= 8
    BY <2>2 DEF Claimed, Fits
  <2>5. iIdx' = RegsNeeded
    BY <1>6, <2>1, <2>2, <2>3
  <2> QED
    BY <1>2, <2>1, <2>3, <2>4, <2>5
<1>8. Regs(k - 1)' = Regs(k' - 1) /\ FPs(k - 1)' = FPs(k' - 1)
  BY DEF Regs, FPs
<1>9. ~(k' > n + 1)
  BY <1>2
<1> QED
  BY <1>3, <1>4, <1>5, <1>6, <1>7, <1>8, <1>9 DEF CallerInv

(* An extra argument has been passed.                                      *)
LEMMA ExtraNext ==
  ASSUME FrameInv, pc = "args", pc' = "args", k' = k + 1, call' = call, k > n, k <= Len(Args),
         Claimed => /\ RegsNeeded <= iIdx' /\ iIdx' <= 8
                    /\ \A r \in 0..7 : r < RegsNeeded => x'[r] = x[r],
         ExtraClaimed => /\ iIdx < 8 => iIdx' = iIdx + 1 /\ x'[iIdx] = Arg(k, 1)
                         /\ ~(iIdx < 8) => iIdx' = iIdx
                         /\ \A r \in 0..7 : r # iIdx => x'[r] = x[r]
  PROVE  CallerInv'
<1>1. Types /\ CallerInv
  BY DEF FrameInv, RunInv
<1>2. call \in Calls /\ k \in Nat \ {0} /\ n \in Nat /\ Len(call.extra) \in Nat /\ iIdx \in Nat
  BY <1>1, CallIs DEF Types
<1>3. /\ n' = n /\ Args' = Args /\ RegsNeeded' = RegsNeeded
      /\ (Claimed' <=> Claimed) /\ (ExtraClaimed' <=> ExtraClaimed)
  BY CallSame
<1>4. Len(Args) = n + Len(call.extra)
  BY <1>2, ArgsIs
<1>5. call.variadic
  BY <1>2, <1>4, CallIs
<1>6. RegsNeeded \in Nat /\ FPNeeded \in Nat
  BY <1>2, NeededIs
<1>7. k' <= Len(Args') + 1 /\ ~(k' <= n + 1) /\ k' - 1 = k
  BY <1>2, <1>3, <1>4
<1>8. ASSUME Claimed, NEW i \in 1..n
      PROVE  InRegs(i)'
  <2>1. i < k
    BY <1>2
  <2>2. InRegs(i)
    BY <1>1, <1>8, <2>1 DEF CallerInv
  <2>3. /\ Regs(i) \in Nat /\ FPs(i) \in Nat
        /\ Regs(i) <= RegsNeeded /\ FPs(i) <= FPNeeded
    BY <1>2, CountsIs
  <2>4. RegsNeeded <= 8 /\ FPNeeded = 0
    BY <1>5, <1>8 DEF Claimed, Fits
  <2>5. Regs(i) <= 8 /\ FPs(i) <= 8
    BY <1>6, <2>3, <2>4
  <2>6. \A r \in 0..7 : r < Regs(i) => x'[r] = x[r]
    <3>1. PICK a \in Nat, b \in Nat : a = Regs(i) /\ b = RegsNeeded
      BY <1>6, <2>3
    <3>2. a <= b /\ \A r \in 0..7 : r < b => x'[r] = x[r]
      BY <1>8, <2>3, <3>1
    <3>3. \A r \in 0..7 : r < a => r < b
      BY <3>1, <3>2
    <3> QED
      BY <3>1, <3>2, <3>3
  <2>7. \A r \in 0..7 : r < FPs(i) => d'[r] = d[r]
    BY <2>3, <2>4
  <2> QED
    BY <1>2, <2>2, <2>5, <2>6, <2>7, InRegsKept
<1>9. ASSUME ExtraClaimed
      PROVE  /\ RegsNeeded + (k' - 1 - n) <= 8 => iIdx' = RegsNeeded + (k' - 1 - n)
             /\ RegsNeeded + (k' - 1 - n) > 8 => iIdx' = 8
             /\ \A i \in 1..Len(call.extra) : n + i < k' =>
                  (RegsNeeded + i <= 8 => x'[RegsNeeded + i - 1] = Arg(n + i, 1))
  <2>1. /\ RegsNeeded + (k - 1 - n) <= 8 => iIdx = RegsNeeded + (k - 1 - n)
        /\ RegsNeeded + (k - 1 - n) > 8 => iIdx = 8
        /\ \A i \in 1..Len(call.extra) : n + i < k => ExtraInReg(i)
    BY <1>1, <1>9 DEF CallerInv
  <2>2. PICK q \in Nat : q = RegsNeeded
    BY <1>6
  <2>3. /\ q + (k' - 1 - n) <= 8 => iIdx' = q + (k' - 1 - n)
        /\ q + (k' - 1 - n) > 8 => iIdx' = 8
    BY <1>2, <1>9, <2>1, <2>2
  <2>4. ASSUME NEW i \in 1..Len(call.extra), n + i < k', q + i <= 8
        PROVE  x'[q + i - 1] = Arg(n + i, 1)
    <3>1. CASE n + i = k
      <4>1. q + i - 1 = iIdx /\ iIdx < 8
        BY <1>2, <2>1, <2>2, <2>4, <3>1
      <4> QED
        BY <4>1, <3>1, <1>9
    <3>2. CASE n + i # k
      <4>1. n + i < k
        BY <1>2, <2>4, <3>2
      <4>2. x[q + i - 1] = Arg(n + i, 1)
        BY <4>1, <2>1, <2>2, <2>4 DEF ExtraInReg
      <4>3. q + i - 1 \in 0..7 /\ q + i - 1 # iIdx
        BY <1>2, <2>1, <2>2, <2>4, <4>1
      <4> QED
        BY <4>2, <4>3, <1>9
    <3> QED
      BY <3>1, <3>2
  <2> QED
    BY <2>2, <2>3, <2>4
<1>10. ASSUME ExtraClaimed
       PROVE  \A i \in 1..Len(call.extra) : n + i < k' => ExtraInReg(i)'
  <2>1. \A i : Arg(n + i, 1)' = Arg(n + i, 1)
    BY <1>3 DEF Arg
  <2> QED
    BY <1>3, <1>9, <1>10, <2>1 DEF ExtraInReg
<1> QED
  BY <1>3, <1>7, <1>8, <1>9, <1>10 DEF CallerInv

(* An assignment to one register leaves the others alone.                  *)
LEMMA ExceptIs ==
  ASSUME NEW S, NEW f, f = [r \in S |-> f[r]], NEW i \in S, NEW v, NEW g, g = [f EXCEPT ![i] = v]
  PROVE  g = [r \in S |-> g[r]] /\ g[i] = v /\ \A r \in S : r # i => g[r] = f[r]
<1>1. DOMAIN f = S
  OBVIOUS
<1>2. g = [r \in S |-> IF r = i THEN v ELSE f[r]]
  BY <1>1
<1> QED
  BY <1>2

(* Arguments behind the named ones are the extra ones of a variadic call.  *)
LEMMA ExtraAt ==
  ASSUME call \in Calls, k \in Nat, k > n, k <= Len(Args)
  PROVE  call.variadic /\ \E i \in 1..Len(call.extra) : k = n + i
<1>1. PICK m \in Nat, e \in Nat : m = n /\ e = Len(call.extra)
  BY CallIs
<1>2. Len(Args) = m + e
  BY <1>1, ArgsIs
<1>3. k - m \in 1..e /\ k = m + (k - m) /\ e # 0
  BY <1>1, <1>2
<1>4. call.variadic
  BY <1>1, <1>3, CallIs
<1> QED
  BY <1>1, <1>3, <1>4

(* emitCall on a floating-point argument.                                  *)
LEMMA RouteFPInv ==
  ASSUME FrameInv, RouteFP
  PROVE  FrameInv'
<1>1. Types /\ ValuesInv /\ CallerInv
  BY DEF FrameInv, RunInv
<1>2. /\ call \in Calls /\ k \in Nat \ {0} /\ n \in Nat /\ Len(call.extra) \in Nat
      /\ iIdx \in Nat /\ fIdx \in 0..8 /\ Len(Args) = n + Len(call.extra)
      /\ x = [r \in 0..18 |-> x[r]] /\ d = [r \in 0..7 |-> d[r]]
  BY <1>1, CallIs, ArgsIs DEF Types
<1>3. /\ pc = "args" /\ pc' = "args" /\ k' = k + 1 /\ k <= Len(Args) /\ call' = call
      /\ UNCHANGED <<call, frameVars, sp, fp, mem, body>> /\ iIdx' = iIdx /\ x' = x
      /\ ArgClass(k) = "fp"
      /\ IF fIdx < 8 THEN d' = [d EXCEPT ![fIdx] = Arg(k, 1)] /\ fIdx' = fIdx + 1
                     ELSE d' = d /\ fIdx' = fIdx
  BY DEF RouteFP, FPFits
<1>4. Args[k].class = "fp" /\ ~(call.variadic /\ ~call.ptr)
  BY <1>3 DEF ArgClass
<1>5. /\ fIdx' \in 0..8 /\ d' = [r \in 0..7 |-> d'[r]]
      /\ \A r \in 0..7 : d'[r] = d[r] \/ (fIdx < 8 /\ r = fIdx /\ d'[r] = Arg(k, 1))
      /\ fIdx < 8 => d'[fIdx] = Arg(k, 1)
  <2>1. CASE fIdx < 8
    <3>1. d' = [d EXCEPT ![fIdx] = Arg(k, 1)] /\ fIdx' = fIdx + 1
      BY <2>1, <1>3
    <3>2. fIdx \in 0..7 /\ fIdx' \in 0..8
      BY <2>1, <3>1, <1>2
    <3>3. /\ d' = [r \in 0..7 |-> d'[r]] /\ d'[fIdx] = Arg(k, 1)
          /\ \A r \in 0..7 : r # fIdx => d'[r] = d[r]
      BY <3>1, <3>2, <1>2, ExceptIs
    <3> QED
      BY <2>1, <3>2, <3>3
  <2>2. CASE ~(fIdx < 8)
    BY <2>2, <1>2, <1>3
  <2> QED
    BY <2>1, <2>2
<1>6. \A r \in 0..7 : d'[r][1] # "sp"
  BY <1>1, <1>5 DEF ValuesInv, Arg
<1>7. \A r \in 0..18 : x'[r][1] # "sp"
  BY <1>1, <1>3 DEF ValuesInv
<1>8. CallerInv'
  <2>1. CASE k <= n
    <3>1. PICK c \in 1..n : k = c
      BY <2>1, <1>2
    <3>2. call.params[c].class = "fp"
      BY <1>2, <1>4, <3>1, ArgsIs
    <3>3. ASSUME Claimed
          PROVE  /\ iIdx' = Regs(k) /\ fIdx' = FPs(k) /\ InRegs(c)'
                 /\ \A r \in 0..7 : r < iIdx => x'[r] = x[r]
                 /\ \A r \in 0..7 : r < fIdx => d'[r] = d[r]
      <4>1. iIdx = Regs(c - 1) /\ fIdx = FPs(c - 1)
        BY <1>1, <1>2, <1>3, <2>1, <3>1, <3>3 DEF CallerInv
      <4>2. /\ Regs(c) = Regs(c - 1) + regSlots(call.params[c])
            /\ FPs(c) = FPs(c - 1) + 1
            /\ Regs(c - 1) \in Nat /\ FPs(c) \in Nat /\ FPNeeded \in Nat /\ FPs(c) <= FPNeeded
        BY <1>2, <3>2, CountsIs
      <4>3. regSlots(call.params[c]) = 0
        BY <1>2, <3>2, ParamIs, regSlotsIs
      <4>4. FPNeeded <= 8
        BY <3>3 DEF Claimed, Fits
      <4>5. fIdx < 8
        BY <4>1, <4>2, <4>4, <1>2
      <4>6. fIdx' = FPs(c) /\ iIdx' = Regs(c)
        BY <4>1, <4>2, <4>3, <4>5, <1>3
      <4>7. d'[FPs(c - 1)] = Arg(c, 1)
        BY <4>1, <4>5, <1>5, <3>1
      <4>8. InRegs(c)'
        <5>1. FPs(c - 1)' = FPs(c - 1)
          BY <1>3, RegsSame
        <5> QED
          BY <1>3, <3>2, <4>7, <5>1 DEF InRegs, Arg
      <4>9. \A r \in 0..7 : r < fIdx => d'[r] = d[r]
        BY <1>2, <1>5
      <4> QED
        BY <3>1, <4>6, <4>8, <4>9, <1>3
    <3> QED
      BY <1>3, <3>1, <3>3, CallerNext
  <2>2. CASE k > n
    <3>1. call.variadic /\ \E i \in 1..Len(call.extra) : k = n + i
      BY <2>2, <1>2, <1>3, ExtraAt
    <3>2. ~ExtraClaimed
      <4>1. PICK i \in 1..Len(call.extra) : k = n + i
        BY <3>1
      <4>2. call.extra[i].class = "fp"
        BY <4>1, <1>2, <1>4, ArgsIs
      <4> QED
        BY <3>1, <4>2, <1>4, CallIs, <1>2 DEF ExtraClaimed
    <3>3. ASSUME Claimed
          PROVE  RegsNeeded <= iIdx' /\ iIdx' <= 8
      <4>1. RegsNeeded <= 8 /\ RegsNeeded \in Nat /\ RegsNeeded = Regs(n)
        BY <1>2, <3>3, NeededIs DEF Claimed, Fits
      <4>2. CASE k = n + 1
        <5>1. k - 1 = n /\ k <= n + 1
          BY <4>2, <1>2
        <5>2. iIdx = Regs(n)
          BY <1>1, <1>3, <3>3, <5>1 DEF CallerInv
        <5> QED
          BY <5>2, <4>1, <1>3
      <4>3. CASE k > n + 1
        BY <1>1, <1>3, <3>3, <4>3 DEF CallerInv
      <4> QED
        BY <2>2, <4>2, <4>3, <1>2
    <3> QED
      BY <1>3, <2>2, <3>2, <3>3, ExtraNext
  <2> QED
    BY <1>2, <2>1, <2>2
<1> QED
  BY <1>2, <1>3, <1>5, <1>6, <1>7, <1>8, ArgsPhase

(* emitCall on an integer, IRFuncPtrCall on a struct too.                  *)
LEMMA RouteIntInv ==
  ASSUME FrameInv, RouteInt
  PROVE  FrameInv'
<1>1. Types /\ ValuesInv /\ CallerInv
  BY DEF FrameInv, RunInv
<1>2. /\ call \in Calls /\ k \in Nat \ {0} /\ n \in Nat /\ Len(call.extra) \in Nat
      /\ iIdx \in Nat /\ fIdx \in 0..8 /\ Len(Args) = n + Len(call.extra)
  BY <1>1, CallIs, ArgsIs DEF Types
<1>8. x = [r \in 0..18 |-> x[r]] /\ d = [r \in 0..7 |-> d[r]]
  BY <1>1 DEF Types
<1>3. /\ pc = "args" /\ pc' = "args" /\ k' = k + 1 /\ k <= Len(Args) /\ call' = call
      /\ UNCHANGED <<call, frameVars, sp, fp, mem, body>> /\ fIdx' = fIdx /\ d' = d
      /\ ArgClass(k) = "int" \/ (ArgClass(k) = "struct" /\ call.ptr)
      /\ IF iIdx < 8 THEN x' = [x EXCEPT ![iIdx] = Arg(k, 1)] /\ iIdx' = iIdx + 1
                     ELSE x' = x /\ iIdx' = iIdx
  BY DEF RouteInt
<1>4. /\ iIdx' \in Nat /\ x' = [r \in 0..18 |-> x'[r]]
      /\ \A r \in 0..18 : x'[r] = x[r] \/ x'[r] = Arg(k, 1)
      /\ \A r \in 0..7 : r # iIdx => x'[r] = x[r]
      /\ iIdx < 8 => x'[iIdx] = Arg(k, 1) /\ iIdx' = iIdx + 1
      /\ ~(iIdx < 8) => iIdx' = iIdx
  <2>1. CASE iIdx < 8
    <3>1. x' = [x EXCEPT ![iIdx] = Arg(k, 1)] /\ iIdx' = iIdx + 1
      BY <2>1, <1>3
    <3>2. iIdx \in 0..18 /\ iIdx' \in Nat
      BY <2>1, <3>1, <1>2
    <3>3. /\ x' = [r \in 0..18 |-> x'[r]] /\ x'[iIdx] = Arg(k, 1)
          /\ \A r \in 0..18 : r # iIdx => x'[r] = x[r]
      BY <3>1, <3>2, <1>8, ExceptIs
    <3>4. \A r \in 0..7 : r \in 0..18
      OBVIOUS
    <3> QED
      BY <2>1, <3>1, <3>2, <3>3, <3>4
  <2>2. CASE ~(iIdx < 8)
    BY <2>2, <1>2, <1>3, <1>8
  <2> QED
    BY <2>1, <2>2
<1>5. \A r \in 0..18 : x'[r][1] # "sp"
  BY <1>1, <1>4 DEF ValuesInv, Arg
<1>6. \A r \in 0..7 : d'[r][1] # "sp"
  BY <1>1, <1>3 DEF ValuesInv
<1>7. CallerInv'
  <2>1. CASE k <= n
    <3>1. PICK c \in 1..n : k = c
      BY <2>1, <1>2
    <3>2. PICK p : p = call.params[c] /\ p = Args[k]
      BY <1>2, <3>1, ArgsIs
    <3>3. ASSUME Claimed
          PROVE  /\ iIdx' = Regs(k) /\ fIdx' = FPs(k) /\ InRegs(c)'
                 /\ \A r \in 0..7 : r < iIdx => x'[r] = x[r]
                 /\ \A r \in 0..7 : r < fIdx => d'[r] = d[r]
      <4>1. iIdx = Regs(c - 1) /\ fIdx = FPs(c - 1)
        BY <1>1, <1>2, <1>3, <2>1, <3>1, <3>3 DEF CallerInv
      <4>2. p.class # "fp"
        <5>1. CASE call.variadic
          BY <5>1, <1>2, <3>2, <3>3, NoFP DEF Claimed
        <5>2. CASE ~call.variadic
          BY <5>2, <1>3, <3>2 DEF ArgClass
        <5> QED
          BY <5>1, <5>2
      <4>3. p.class = "int" \/ (p.class = "struct" /\ p.bytes <= 8)
        BY <4>2, <1>3, <3>2, <3>3 DEF ArgClass, Claimed
      <4>4. /\ Regs(c) = Regs(c - 1) + regSlots(p)
            /\ FPs(c) = FPs(c - 1)
            /\ Regs(c - 1) \in Nat /\ Regs(c) \in Nat /\ RegsNeeded \in Nat
            /\ Regs(c) <= RegsNeeded
        BY <1>2, <3>2, <4>2, CountsIs
      <4>5. param(p) /\ p.bytes \in Nat
        BY <1>2, <3>2, ParamIs
      <4>6. regSlots(p) = 1
        <5>1. StructRegs(p.bytes) \in 1..2 /\ (StructRegs(p.bytes) = 2 <=> p.bytes > 8 /\ p.bytes <= 16)
          BY <4>5, StructRegsIs
        <5>2. CASE p.class = "int"
          BY <5>2, <4>5, regSlotsIs
        <5>3. CASE p.class = "struct" /\ p.bytes <= 8
          <6>1. regSlots(p) = StructRegs(p.bytes)
            BY <5>3, <4>5, regSlotsIs
          <6>2. StructRegs(p.bytes) # 2
            BY <5>1, <5>3, <4>5
          <6> QED
            BY <6>1, <6>2, <5>1
        <5> QED
          BY <4>3, <5>2, <5>3
      <4>7. RegsNeeded <= 8
        BY <3>3 DEF Claimed, Fits
      <4>8. iIdx < 8
        BY <4>1, <4>4, <4>6, <4>7
      <4>9. iIdx' = Regs(c) /\ fIdx' = FPs(c)
        BY <4>1, <4>4, <4>6, <4>8, <1>3, <1>4
      <4>10. x'[Regs(c - 1)] = Arg(c, 1)
        BY <4>1, <4>8, <1>4, <3>1
      <4>11. InRegs(c)'
        <5>1. Regs(c - 1)' = Regs(c - 1)
          BY <1>3, RegsSame
        <5>2. p.bytes <= 8 /\ p.class # "fp"
          BY <4>2, <4>3, <1>2, <3>2, ParamIs
        <5>3. ~(p.bytes > 16) /\ ~(p.bytes > 8)
          BY <5>2, <4>5
        <5> QED
          BY <1>3, <3>2, <4>10, <5>1, <5>2, <5>3 DEF InRegs, Arg
      <4>12. \A r \in 0..7 : r < iIdx => x'[r] = x[r]
        <5>1. \A r \in 0..7 : r < iIdx => r # iIdx
          BY <1>2
        <5> QED
          BY <5>1, <1>4
      <4> QED
        BY <3>1, <4>9, <4>11, <4>12, <1>3
    <3> QED
      BY <1>3, <3>1, <3>3, CallerNext
  <2>2. CASE k > n
    <3>1. ASSUME Claimed
          PROVE  /\ RegsNeeded <= iIdx' /\ iIdx' <= 8
                 /\ \A r \in 0..7 : r < RegsNeeded => x'[r] = x[r]
      <4>1. RegsNeeded <= 8 /\ RegsNeeded \in Nat /\ RegsNeeded = Regs(n)
        BY <1>2, <3>1, NeededIs DEF Claimed, Fits
      <4>2. RegsNeeded <= iIdx /\ iIdx <= 8
        <5>1. CASE k = n + 1
          <6>1. k - 1 = n /\ k <= n + 1
            BY <5>1, <1>2
          <6>2. iIdx = Regs(n)
            BY <1>1, <1>3, <3>1, <6>1 DEF CallerInv
          <6> QED
            BY <6>2, <4>1
        <5>2. CASE k > n + 1
          BY <1>1, <1>3, <3>1, <5>2 DEF CallerInv
        <5> QED
          BY <2>2, <5>1, <5>2, <1>2
      <4>3. RegsNeeded <= iIdx' /\ iIdx' <= 8
        BY <4>1, <4>2, <1>2, <1>4
      <4>4. \A r \in 0..7 : r < RegsNeeded => r # iIdx
        BY <4>1, <4>2, <1>2
      <4> QED
        BY <4>3, <4>4, <1>4
    <3> QED
      BY <1>3, <1>4, <2>2, <3>1, ExtraNext
  <2> QED
    BY <1>2, <2>1, <2>2
<1> QED
  BY <1>2, <1>3, <1>4, <1>5, <1>6, <1>7, <1>8, ArgsPhase

(* emitCall on a struct; X9 is scratch and beyond the arguments.           *)
LEMMA RouteStructInv ==
  ASSUME FrameInv, RouteStruct
  PROVE  FrameInv'
<1>1. Types /\ ValuesInv /\ CallerInv
  BY DEF FrameInv, RunInv
<1>2. /\ call \in Calls /\ k \in Nat \ {0} /\ n \in Nat /\ Len(call.extra) \in Nat
      /\ iIdx \in Nat /\ fIdx \in 0..8
      /\ DOMAIN x = 0..18
  BY <1>1, CallIs DEF Types
<1>15. d = [r \in 0..7 |-> d[r]]
  BY <1>1 DEF Types
<1>3. /\ pc = "args" /\ pc' = "args" /\ k' = k + 1 /\ k <= Len(Args) /\ call' = call
      /\ UNCHANGED <<call, frameVars, sp, fp, mem, body>> /\ fIdx' = fIdx /\ d' = d
      /\ ArgClass(k) = "struct" /\ ~call.ptr
  BY DEF RouteStruct
<1>4. Args[k].class = "struct"
  BY <1>3 DEF ArgClass
<1>5. PICK c \in 1..n : k = c
  <2>1. ASSUME k > n PROVE FALSE
    <3>1. PICK i \in 1..Len(call.extra) : k = n + i
      BY <1>2, <1>3, <2>1, ExtraAt
    <3> QED
      BY <1>2, <1>4, <3>1, ArgsIs, ExtraIs
  <2> QED
    BY <1>2, <2>1
<1>6. PICK p : p = call.params[c] /\ p = Args[k]
  BY <1>2, <1>5, ArgsIs
<1>7. param(p) /\ p.bytes \in Nat /\ p.class = "struct"
  BY <1>2, <1>4, <1>6, ParamIs
<1>8. PICK s \in 1..2 : s = StructRegs(p.bytes) /\ (s = 2 <=> p.bytes > 8 /\ p.bytes <= 16)
  BY <1>7, StructRegsIs
<1>9. /\ x' = [r \in 0..18 |->
           IF r = iIdx THEN IF p.bytes > 16 THEN CopyOf(k) ELSE Arg(k, 1)
           ELSE IF r = iIdx + 1 /\ s = 2 THEN IF iIdx = 9 THEN Junk ELSE Arg(k, 2)
           ELSE IF r = 9 /\ p.bytes <= 16 THEN CopyOf(k)
           ELSE x[r]]
      /\ iIdx' = iIdx + s
  BY <1>2, <1>6, <1>8 DEF RouteStruct
<1>10. x' = [r \in 0..18 |-> x'[r]] /\ iIdx' \in Nat
  <2>1. iIdx' = iIdx + s /\ iIdx \in Nat /\ s \in Nat
    <3>1. s \in Nat
      BY <1>8
    <3> QED
      BY <1>2, <1>9, <3>1, Zenon
  <2>2. iIdx' \in Nat
    BY <2>1
  <2> QED
    BY <2>2, <1>9
<1>11. \A r \in 0..18 : x'[r][1] # "sp"
  BY <1>1, <1>9 DEF ValuesInv, Arg, CopyOf, Junk
<1>12. \A r \in 0..7 : d'[r][1] # "sp"
  BY <1>1, <1>3 DEF ValuesInv
<1>13. ASSUME Claimed
       PROVE  /\ iIdx' = Regs(k) /\ fIdx' = FPs(k) /\ InRegs(c)'
              /\ \A r \in 0..7 : r < iIdx => x'[r] = x[r]
              /\ \A r \in 0..7 : r < fIdx => d'[r] = d[r]
  <2>1. iIdx = Regs(c - 1) /\ fIdx = FPs(c - 1)
    BY <1>1, <1>2, <1>3, <1>5, <1>13 DEF CallerInv
  <2>2. /\ Regs(c) = Regs(c - 1) + regSlots(p)
        /\ FPs(c) = FPs(c - 1)
        /\ Regs(c - 1) \in Nat /\ Regs(c) \in Nat /\ RegsNeeded \in Nat
        /\ Regs(c) <= RegsNeeded
    BY <1>2, <1>6, <1>7, CountsIs
  <2>3. regSlots(p) = s
    BY <1>7, <1>8, regSlotsIs
  <2>4. RegsNeeded <= 8
    BY <1>13 DEF Claimed, Fits
  <2>5. iIdx + s <= 8
    BY <2>1, <2>2, <2>3, <2>4
  <2>6. iIdx' = Regs(c) /\ fIdx' = FPs(c)
    BY <2>1, <2>2, <2>3, <1>3, <1>9
  <2>7. PICK a \in Nat : a = iIdx /\ a = Regs(c - 1)
    BY <2>1, <2>2
  <2>8. /\ p.bytes > 16 => x'[a] = CopyOf(c)
        /\ p.bytes <= 16 => x'[a] = Arg(c, 1)
    <3>1. a \in 0..18
      BY <1>8, <2>5, <2>7
    <3> QED
      BY <1>5, <1>7, <1>9, <2>7, <3>1
  <2>9. p.bytes > 8 /\ p.bytes <= 16 => x'[a + 1] = Arg(c, 2)
    <3>1. s = 2 => a + 1 \in 0..18 /\ a # 9
      BY <1>8, <2>5, <2>7
    <3> QED
      BY <1>5, <1>8, <1>9, <2>7, <3>1
  <2>10. InRegs(c)'
    <3>1. Regs(c - 1)' = a
      BY <1>3, <2>7, RegsSame
    <3>2. call'.params[c] = p /\ p.class = "struct"
      BY <1>3, <1>6, <1>7
    <3> QED
      BY <2>8, <2>9, <3>1, <3>2 DEF InRegs, Arg, CopyOf
  <2>11. \A r \in 0..7 : r < iIdx => x'[r] = x[r]
    <3>1. \A r \in 0..7 : r < iIdx => r \in 0..18 /\ r # iIdx /\ r # iIdx + 1 /\ r # 9
      BY <1>2
    <3> QED
      BY <3>1, <1>9
  <2> QED
    BY <1>3, <1>5, <2>6, <2>10, <2>11
<1>14. CallerInv'
  BY <1>3, <1>5, <1>13, CallerNext
<1> QED
  BY <1>2, <1>3, <1>10, <1>11, <1>12, <1>14, <1>15, ArgsPhase

(* The slots of a frame that is laid out.                                  *)
LEMMA LaidOut ==
  ASSUME FrameInv, pc \in {"args", "prologue", "body", "returned", "resumed"}
  PROVE  /\ \A i \in 1..n :
              /\ <<"param", i>> \in DOMAIN slots
              /\ slots[<<"param", i>>].size =
                   IF call.params[i].class = "struct" THEN 8 * Words(call.params[i].bytes) ELSE 8
         /\ \A j \in 1..Len(call.locals) :
              /\ <<"local", j>> \in DOMAIN slots
              /\ slots[<<"local", j>>].size = LocalBytes(call.locals[j])
         /\ call.ret > 16 => X8Slot \in DOMAIN slots /\ slots[X8Slot].size = 8
<1>1. PlacedInv /\ SizesInv
  BY DEF FrameInv, BuildInv
<1>2. pc \notin {"params", "structs", "locals", "temps"}
  OBVIOUS
<1>3. \A i \in 1..n : <<"param", i>> \in DOMAIN slots
  BY <1>1, <1>2 DEF PlacedInv, Before
<1>4. \A j \in 1..Len(call.locals) : <<"local", j>> \in DOMAIN slots
  BY <1>1, <1>2 DEF PlacedInv, Before
<1>5. call.ret > 16 => X8Slot \in DOMAIN slots
  BY <1>1, <1>2 DEF PlacedInv
<1> QED
  BY <1>1, <1>3, <1>4, <1>5, Zenon DEF SizesInv

(* What the layout says of one slot.                                       *)
LEMMA SlotIs ==
  ASSUME FrameInv, NEW id \in DOMAIN slots
  PROVE  /\ Off(id) = slots[id].off
         /\ Off(id) \in Nat /\ slots[id].size \in Nat \ {0}
         /\ Off(id) % 8 = 0 /\ slots[id].size % 8 = 0
         /\ 16 <= Off(id) /\ Off(id) + slots[id].size <= offset
         /\ call.variadic /\ id[1] # "param" => Off(id) >= 80
  BY DEF FrameInv, BuildInv, SlotsInv, Off

(* What the layout says of two slots.                                      *)
LEMMA SlotsApart ==
  ASSUME FrameInv, NEW i \in DOMAIN slots, NEW j \in DOMAIN slots, i # j
  PROVE  Off(i) + slots[i].size <= Off(j) \/ Off(j) + slots[j].size <= Off(i)
  BY DEF FrameInv, BuildInv, SlotsInv, Off, Apart

(* BL and the first words of the prologue: what the caller's registers     *)
(* hold is what the callee finds.                                          *)
LEMMA EnterFunctionInv ==
  ASSUME FrameInv, EnterFunction
  PROVE  FrameInv'
<1>1. Types /\ ValuesInv /\ StackInv /\ BuildInv /\ CallerInv
  BY DEF FrameInv, RunInv
<1>2. /\ call \in Calls /\ k \in Nat \ {0} /\ n \in Nat /\ Len(call.extra) \in Nat
      /\ Len(call.locals) \in Nat /\ offset \in Nat
  BY <1>1, CallIs DEF Types
<1>3. /\ pc = "args" /\ pc' = "prologue" /\ k' = 1 /\ k > Len(Args) /\ call' = call
      /\ slots' = slots /\ offset' = offset /\ d' = d /\ UNCHANGED body
      /\ iIdx' = 0 /\ fIdx' = 0
  BY DEF EnterFunction, frameVars
<1>4. sp = offset /\ DOMAIN mem = {}
  BY <1>1, <1>3 DEF StackInv
<1>5. sp - frameSize = 0 /\ 0 + 8 = 8
  BY <1>2, <1>4 DEF frameSize
<1>6. sp' = 0 /\ fp' = 0 /\ mem' = Write(Write(mem, 0, CallerFP), 8, CallerLR)
  BY <1>5 DEF EnterFunction
<1>7. /\ DOMAIN mem' = {0, 8} /\ mem'[0] = CallerFP /\ mem'[8] = CallerLR
  BY <1>4, <1>6 DEF Write
<1>8. /\ x' = [r \in 0..18 |-> x'[r]]
      /\ \A r \in 0..18 : x'[r] = x[r] \/ x'[r] = DestPtr
      /\ \A r \in 0..18 : r # 8 => x'[r] = x[r]
      /\ call.ret > 16 /\ ~call.ptr => x'[8] = DestPtr
  <2>1. x = [r \in 0..18 |-> x[r]]
    BY <1>1 DEF Types
  <2>2. CASE call.ret > 16 /\ ~call.ptr
    <3>1. x' = [x EXCEPT ![8] = DestPtr]
      BY <2>2 DEF EnterFunction
    <3>2. 8 \in 0..18
      OBVIOUS
    <3>3. x' = [r \in 0..18 |-> x'[r]] /\ x'[8] = DestPtr /\ \A r \in 0..18 : r # 8 => x'[r] = x[r]
      BY <2>1, <3>1, <3>2, ExceptIs
    <3> QED
      BY <3>3
  <2>3. CASE ~(call.ret > 16 /\ ~call.ptr)
    <3>1. x' = x
      BY <2>3 DEF EnterFunction
    <3> QED
      BY <2>1, <2>3, <3>1
  <2> QED
    BY <2>2, <2>3
<1>9. Types'
  <2>1. d' = [r \in 0..7 |-> d'[r]]
    BY <1>1, <1>3 DEF Types
  <2>2. k' \in Nat \ {0} /\ iIdx' \in Nat /\ fIdx' \in 0..8 /\ sp' \in Int /\ fp' \in Int
    BY <1>3, <1>6
  <2>3. x' = [r \in 0..18 |-> x'[r]]
    BY <1>8
  <2> QED
    BY <1>1, <1>3, <2>1, <2>2, <2>3, Zenon DEF Types, body
<1>10. ValuesInv'
  <2>1. \A r \in 0..18 : x'[r][1] # "sp"
    BY <1>1, <1>8 DEF ValuesInv, DestPtr
  <2>2. \A r \in 0..7 : d'[r][1] # "sp"
    BY <1>1, <1>3 DEF ValuesInv
  <2>3. \A a \in DOMAIN mem' : mem'[a][1] # "sp"
    BY <1>7 DEF CallerFP, CallerLR
  <2> QED
    BY <1>7, <2>1, <2>2, <2>3 DEF ValuesInv
<1>11. BuildInv'
  BY <1>1, <1>3, BuildKept
<1>12. StackInv'
  BY <1>1, <1>3, <1>6 DEF StackInv
<1>13. /\ n' = n /\ RegsNeeded' = RegsNeeded
       /\ (Claimed' <=> Claimed) /\ (ExtraClaimed' <=> ExtraClaimed)
  BY <1>3, CallSame
<1>14. ASSUME Claimed, NEW i \in 1..n
       PROVE  InRegs(i)'
  <2>1. i < k
    BY <1>2, <1>3, ArgsIs
  <2>2. InRegs(i)
    BY <1>1, <1>3, <1>14, <2>1 DEF CallerInv
  <2>3. RegsNeeded <= 8 /\ FPNeeded <= 8
    BY <1>14 DEF Claimed, Fits
  <2>4. Regs(i) \in Nat /\ FPs(i) \in Nat /\ Regs(i) <= RegsNeeded /\ FPs(i) <= FPNeeded
          /\ RegsNeeded \in Nat /\ FPNeeded \in Nat
    BY <1>2, CountsIs
  <2>5. Regs(i) <= 8 /\ FPs(i) <= 8
    BY <2>3, <2>4
  <2>6. \A r \in 0..7 : r \in 0..18 /\ r # 8
    OBVIOUS
  <2>7. \A r \in 0..7 : x'[r] = x[r] /\ d'[r] = d[r]
    BY <1>3, <1>8, <2>6
  <2> QED
    BY <1>2, <1>3, <2>2, <2>5, <2>7, InRegsKept
<1>15. ASSUME ExtraClaimed, NEW i \in 1..Len(call.extra)
       PROVE  ExtraInReg(i)'
  <2>1. n + i < k /\ k > n
    BY <1>2, <1>3, ArgsIs
  <2>2. ExtraInReg(i)
    BY <1>1, <1>3, <1>15, <2>1 DEF CallerInv
  <2>3. RegsNeeded \in Nat
    BY <1>2, NeededIs
  <2>4. RegsNeeded + i <= 8 => RegsNeeded + i - 1 \in 0..18 /\ RegsNeeded + i - 1 # 8
    BY <2>3
  <2> QED
    BY <1>8, <1>13, <2>2, <2>4 DEF ExtraInReg, Arg
<1>16. PrologueInv'
  <2>1. Read(mem, 0)' = CallerFP /\ Read(mem, 8)' = CallerLR
    BY <1>7 DEF Read
  <2>2. ASSUME NEW j \in 1..Len(call.locals)
        PROVE  Read(mem, LocalOff(j))' = Junk
    <3>1. <<"local", j>> \in DOMAIN slots
      BY <1>3, LaidOut
    <3>2. 16 <= Off(<<"local", j>>) /\ Off(<<"local", j>>) \in Nat
      BY <3>1, SlotIs
    <3>3. LocalOff(j)' = Off(<<"local", j>>)
      BY <1>3 DEF LocalOff, Off
    <3>4. LocalOff(j)' \notin DOMAIN mem'
      BY <1>7, <3>2, <3>3
    <3> QED
      BY <3>4 DEF Read, Junk
  <2>3. k' <= n' + 1
    BY <1>2, <1>3, <1>13
  <2>4. Regs(k - 1)' = 0 /\ FPs(k - 1)' = 0
    <3>1. k' - 1 = 0
      BY <1>3
    <3>2. Regs(0)' = 0 /\ FPs(0)' = 0
      BY <1>2, <1>3, NeededIs, RegsSame
    <3> QED
      BY <3>1, <3>2 DEF Regs, FPs
  <2>5. \A i \in 1..n : ~(i < k')
    BY <1>2, <1>3
  <2>6. CallerFP' = CallerFP /\ CallerLR' = CallerLR /\ Junk' = Junk /\ DestPtr' = DestPtr
    BY DEF CallerFP, CallerLR, Junk, DestPtr
  <2> QED
    BY <1>3, <1>8, <1>13, <1>14, <1>15, <2>1, <2>2, <2>3, <2>4, <2>5, <2>6 DEF PrologueInv
<1>17. RunInv' /\ ResultInv'
  BY <1>3, <1>16 DEF RunInv, CallerInv, KeptInv, DynamicInv, StoredInv, GotInv, ResultInv, ReturnReaches
<1> QED
  BY <1>9, <1>10, <1>11, <1>12, <1>17 DEF FrameInv

-----------------------------------------------------------------------------
(* The callee's prologue.                                                  *)
LEMMA ProloguePhase ==
  ASSUME FrameInv, pc = "prologue", pc' = "prologue", k' = k + 1,
         UNCHANGED <<call, frameVars, d, sp, fp, body>>,
         iIdx' \in Nat, fIdx' \in 0..8,
         x' = [r \in 0..18 |-> x'[r]], \A r \in 0..18 : x'[r][1] # "sp",
         DOMAIN mem' \subseteq Int, \A a \in DOMAIN mem' : mem'[a][1] = "sp" => mem'[a][2] \in Int,
         PrologueInv'
  PROVE  FrameInv'
<1>1. Types /\ ValuesInv /\ StackInv /\ BuildInv
  BY DEF FrameInv
<1>2. call' = call /\ slots' = slots /\ offset' = offset /\ d' = d
  BY DEF frameVars
<1>3. Types'
  <2>1. k \in Nat \ {0}
    BY <1>1 DEF Types
  <2>2. k' \in Nat \ {0}
    BY <2>1
  <2>3. d' = [r \in 0..7 |-> d'[r]]
    BY <1>1, <1>2 DEF Types
  <2> QED
    BY <1>1, <1>2, <2>2, <2>3, Zenon DEF Types, body
<1>4. ValuesInv'
  BY <1>1, <1>2 DEF ValuesInv
<1>5. StackInv'
  BY <1>1, <1>2 DEF StackInv
<1>6. BuildInv'
  BY <1>1, <1>2, BuildKept
<1>7. RunInv' /\ ResultInv'
  BY DEF RunInv, CallerInv, KeptInv, DynamicInv, StoredInv, GotInv, ResultInv, ReturnReaches
<1> QED
  BY <1>3, <1>4, <1>5, <1>6, <1>7 DEF FrameInv

(* A parameter's slot has a word for each of its words.                    *)
LEMMA ParamSize ==
  ASSUME FrameInv, pc \in {"args", "prologue", "body", "returned", "resumed"}, NEW i \in 1..n
  PROVE  /\ <<"param", i>> \in DOMAIN slots
         /\ slots[<<"param", i>>].size = 8 * Words(call.params[i].bytes)
         /\ Words(call.params[i].bytes) \in Nat \ {0}
<1>1. call \in Calls
  BY DEF FrameInv, Types
<1>2. /\ call.params[i].bytes \in Nat \ {0} /\ Words(call.params[i].bytes) \in Nat \ {0}
      /\ call.params[i].class # "struct" => call.params[i].bytes <= 8
  BY <1>1, ParamIs
<1>3. call.params[i].class # "struct" => Words(call.params[i].bytes) = 1
  BY <1>2, WordsFew
<1> QED
  BY <1>2, <1>3, LaidOut

(* A write to some other slot leaves a parameter as it is.                 *)
LEMMA ArrivedKept ==
  ASSUME FrameInv, pc \in {"args", "prologue", "body", "returned", "resumed"}, NEW i \in 1..n, Arrived(i),
         call' = call, slots' = slots,
         \A b \in Int : /\ Off(<<"param", i>>) <= b
                        /\ b < Off(<<"param", i>>) + slots[<<"param", i>>].size
                        => Read(mem', b) = Read(mem, b)
  PROVE  Arrived(i)'
<1>1. PICK o \in Nat, m \in Nat :
        /\ o = Off(<<"param", i>>) /\ m = Words(call.params[i].bytes)
        /\ slots[<<"param", i>>].size = 8 * m
  BY ParamSize, SlotIs
<1>2. ASSUME NEW w \in 1..m
      PROVE  Read(mem', o + 8 * (w - 1)) = Arg(i, w)
  <2>1. o + 8 * (w - 1) \in Int /\ o <= o + 8 * (w - 1) /\ o + 8 * (w - 1) < o + 8 * m
    OBVIOUS
  <2>2. Read(mem, o + 8 * (w - 1)) = Arg(i, w)
    BY <1>1 DEF Arrived
  <2> QED
    BY <1>1, <2>1, <2>2
<1>3. Off(<<"param", i>>)' = o /\ Words(call.params[i].bytes)' = m
  BY <1>1 DEF Off, Words
<1>4. \A w \in 1..m : Arg(i, w)' = Arg(i, w) /\ Read(mem, o + 8 * (w - 1))' = Read(mem', o + 8 * (w - 1))
  BY DEF Arg, Read
<1> QED
  BY <1>2, <1>3, <1>4 DEF Arrived, Arg, Read

(* A turn of emitPrologue's loop stores one parameter in its slot.         *)
LEMMA PrologueNext ==
  ASSUME FrameInv, pc = "prologue", pc' = "prologue", k' = k + 1,
         UNCHANGED <<call, slots, d>>, NEW c \in 1..n, k = c,
         \A b \in Int : \/ b < Off(<<"param", c>>)
                        \/ Off(<<"param", c>>) + slots[<<"param", c>>].size <= b
                        => Read(mem', b) = Read(mem, b),
         \A r \in 0..8 : x'[r] = x[r],
         Claimed => iIdx' = Regs(k) /\ fIdx' = FPs(k) /\ Arrived(c)'
  PROVE  PrologueInv'
<1>1. Types /\ PrologueInv /\ StackInv
  BY DEF FrameInv, RunInv
<1>2. /\ call \in Calls /\ k \in Nat \ {0} /\ n \in Nat /\ Len(call.extra) \in Nat
      /\ Len(call.locals) \in Nat
  BY <1>1, CallIs DEF Types
<1>3. /\ n' = n /\ RegsNeeded' = RegsNeeded
      /\ (Claimed' <=> Claimed) /\ (ExtraClaimed' <=> ExtraClaimed)
  BY CallSame
<1>4. /\ <<"param", c>> \in DOMAIN slots
      /\ Off(<<"param", c>>) \in Nat /\ 16 <= Off(<<"param", c>>)
      /\ slots[<<"param", c>>].size \in Nat
  <2>1. <<"param", c>> \in DOMAIN slots
    BY ParamSize
  <2> QED
    BY <2>1, SlotIs
<1>5. Read(mem', 0) = CallerFP /\ Read(mem', 8) = CallerLR
  <2>1. Read(mem, 0) = CallerFP /\ Read(mem, 8) = CallerLR
    BY <1>1 DEF PrologueInv
  <2> QED
    BY <1>4, <2>1
<1>6. ASSUME NEW id \in DOMAIN slots, id # <<"param", c>>, NEW b \in Int,
             Off(id) <= b, b < Off(id) + slots[id].size
      PROVE  Read(mem', b) = Read(mem, b)
  <2>1. \/ Off(id) + slots[id].size <= Off(<<"param", c>>)
        \/ Off(<<"param", c>>) + slots[<<"param", c>>].size <= Off(id)
    BY <1>4, <1>6, SlotsApart
  <2>2. Off(id) \in Nat /\ slots[id].size \in Nat
    BY <1>6, SlotIs
  <2> QED
    BY <1>4, <1>6, <2>1, <2>2
<1>7. ASSUME NEW j \in 1..Len(call.locals)
      PROVE  Read(mem', LocalOff(j)) = Junk /\ LocalOff(j)' = LocalOff(j)
  <2>1. PICK id : id = <<"local", j>>
    OBVIOUS
  <2>2. id \in DOMAIN slots /\ id # <<"param", c>> /\ LocalOff(j) = Off(id)
    BY <2>1, LaidOut DEF LocalOff
  <2>3. Off(id) \in Nat /\ slots[id].size \in Nat \ {0}
    BY <2>2, SlotIs
  <2>4. Off(id) \in Int /\ Off(id) < Off(id) + slots[id].size
    BY <2>3
  <2>5. Read(mem', Off(id)) = Read(mem, Off(id))
    BY <1>6, <2>2, <2>3, <2>4
  <2>6. Read(mem, LocalOff(j)) = Junk
    BY <1>1 DEF PrologueInv
  <2> QED
    BY <2>2, <2>5, <2>6 DEF LocalOff, Off
<1>8. ASSUME Claimed, NEW i \in 1..n
      PROVE  InRegs(i)'
  <2>1. InRegs(i)
    BY <1>1, <1>8 DEF PrologueInv
  <2>2. RegsNeeded <= 8 /\ FPNeeded <= 8
    BY <1>8 DEF Claimed, Fits
  <2>3. /\ Regs(i) \in Nat /\ FPs(i) \in Nat /\ Regs(i) <= RegsNeeded /\ FPs(i) <= FPNeeded
        /\ RegsNeeded \in Nat /\ FPNeeded \in Nat
    BY <1>2, CountsIs
  <2>4. Regs(i) <= 8 /\ FPs(i) <= 8
    BY <2>2, <2>3
  <2>5. \A r \in 0..7 : r \in 0..8
    OBVIOUS
  <2>6. \A r \in 0..7 : x'[r] = x[r] /\ d'[r] = d[r]
    BY <2>5
  <2> QED
    BY <1>2, <2>1, <2>4, <2>6, InRegsKept
<1>9. ASSUME Claimed, NEW i \in 1..n, i < k'
      PROVE  Arrived(i)'
  <2>1. CASE i = c
    BY <1>9, <2>1
  <2>2. CASE i # c
    <3>1. i < k
      BY <1>2, <1>9, <2>2
    <3>2. Arrived(i)
      BY <1>1, <1>9, <3>1 DEF PrologueInv
    <3>3. PICK id : id = <<"param", i>>
      OBVIOUS
    <3>4. id \in DOMAIN slots /\ id # <<"param", c>>
      BY <2>2, <3>3, ParamSize
    <3>5. \A b \in Int : Off(id) <= b /\ b < Off(id) + slots[id].size => Read(mem', b) = Read(mem, b)
      BY <1>6, <3>4
    <3> QED
      BY <3>2, <3>3, <3>5, ArrivedKept
  <2> QED
    BY <2>1, <2>2
<1>10. ASSUME ExtraClaimed, NEW i \in 1..Len(call.extra)
       PROVE  ExtraInReg(i)'
  <2>1. ExtraInReg(i)
    BY <1>1, <1>10 DEF PrologueInv
  <2>2. RegsNeeded \in Nat
    BY <1>2, NeededIs
  <2>3. RegsNeeded + i <= 8 => RegsNeeded + i - 1 \in 0..8
    BY <2>2
  <2> QED
    BY <1>3, <2>1, <2>3 DEF ExtraInReg, Arg
<1>11. call.ret > 16 /\ ~call.ptr => x'[8] = DestPtr
  <2>1. 8 \in 0..8
    OBVIOUS
  <2> QED
    BY <1>1, <2>1 DEF PrologueInv
<1>12. k' <= n + 1 /\ k' - 1 = k
  BY <1>2
<1>13. Regs(k - 1)' = Regs(k) /\ FPs(k - 1)' = FPs(k)
  BY <1>12 DEF Regs, FPs
<1> QED
  BY <1>3, <1>5, <1>7, <1>8, <1>9, <1>10, <1>11, <1>12, <1>13
  DEF PrologueInv, Read, CallerFP, CallerLR, Junk, DestPtr

(* A word stored in memory at a number.                                    *)
LEMMA WriteValues ==
  ASSUME ValuesInv, NEW a \in Int, NEW v, v[1] = "sp" => v[2] \in Int, mem' = Write(mem, a, v)
  PROVE  /\ DOMAIN mem' \subseteq Int
         /\ \A b \in DOMAIN mem' : mem'[b][1] = "sp" => mem'[b][2] \in Int
  BY DEF ValuesInv, Write

(* Reading the stack after one word was written.                           *)
LEMMA MemWrite ==
  ASSUME NEW a, NEW v, mem' = Write(mem, a, v)
  PROVE  Read(mem', a) = v /\ \A b : b # a => Read(mem', b) = Read(mem, b)
  BY DEF Read, Write

(* emitPrologue on a floating-point parameter.                             *)
LEMMA StoreFPParamInv ==
  ASSUME FrameInv, StoreFPParam
  PROVE  FrameInv'
<1>1. Types /\ ValuesInv /\ StackInv /\ PrologueInv
  BY DEF FrameInv, RunInv
<1>2. /\ call \in Calls /\ k \in Nat \ {0} /\ n \in Nat /\ iIdx \in Nat /\ fIdx \in 0..8
  BY <1>1, CallIs DEF Types
<1>3. /\ pc = "prologue" /\ pc' = "prologue" /\ k' = k + 1 /\ k <= n /\ call' = call
      /\ UNCHANGED <<call, frameVars, d, sp, fp, body>> /\ slots' = slots /\ iIdx' = iIdx /\ x' = x
      /\ call.params[k].class = "fp"
  BY DEF StoreFPParam, AtParam, Param, frameVars, n
<1>4. sp = 0
  BY <1>1, <1>3 DEF StackInv
<1>5. PICK c \in 1..n : k = c
  BY <1>2, <1>3
<1>6. PICK id : id = <<"param", c>>
  OBVIOUS
<1>7. id \in DOMAIN slots /\ Words(call.params[c].bytes) = 1 /\ slots[id].size = 8
  <2>1. call.params[c].bytes \in Nat \ {0} /\ call.params[c].bytes <= 8
    BY <1>2, <1>3, <1>5, ParamIs
  <2>2. Words(call.params[c].bytes) = 1
    BY <2>1, WordsFew
  <2> QED
    BY <1>3, <1>6, <2>2, ParamSize
<1>8. Off(id) \in Nat /\ sp + Off(id) = Off(id)
  BY <1>4, <1>7, SlotIs
<1>9. IF fIdx < 8 THEN mem' = Write(mem, Off(id), d[fIdx]) /\ fIdx' = fIdx + 1
                  ELSE mem' = mem /\ fIdx' = fIdx
  BY <1>5, <1>6, <1>8 DEF StoreFPParam, FPFits
<1>10. /\ fIdx' \in 0..8
       /\ DOMAIN mem' \subseteq Int
       /\ \A b \in DOMAIN mem' : mem'[b][1] = "sp" => mem'[b][2] \in Int
       /\ \A b \in Int : b < Off(id) \/ Off(id) + slots[id].size <= b => Read(mem', b) = Read(mem, b)
  <2>1. CASE fIdx < 8
    <3>1. mem' = Write(mem, Off(id), d[fIdx]) /\ fIdx' \in 0..8 /\ fIdx \in 0..7
      BY <1>2, <1>9, <2>1
    <3>2. d[fIdx][1] # "sp"
      BY <1>1, <3>1 DEF ValuesInv
    <3>3. \A b \in Int : b < Off(id) \/ Off(id) + 8 <= b => b # Off(id)
      BY <1>8
    <3>4. \A b : b # Off(id) => Read(mem', b) = Read(mem, b)
      BY <3>1, MemWrite
    <3>5. Off(id) \in Int
      BY <1>8
    <3>6. /\ DOMAIN mem' \subseteq Int
          /\ \A b \in DOMAIN mem' : mem'[b][1] = "sp" => mem'[b][2] \in Int
      BY <1>1, <3>1, <3>2, <3>5, WriteValues
    <3> QED
      BY <1>7, <3>1, <3>3, <3>4, <3>6
  <2>2. CASE ~(fIdx < 8)
    BY <1>1, <1>2, <1>9, <2>2 DEF ValuesInv
  <2> QED
    BY <2>1, <2>2
<1>11. ASSUME Claimed
       PROVE  iIdx' = Regs(k) /\ fIdx' = FPs(k) /\ Arrived(c)'
  <2>1. iIdx = Regs(c - 1) /\ fIdx = FPs(c - 1) /\ InRegs(c)
    BY <1>1, <1>3, <1>5, <1>11 DEF PrologueInv
  <2>2. /\ Regs(c) = Regs(c - 1) + regSlots(call.params[c])
        /\ FPs(c) = FPs(c - 1) + 1
        /\ Regs(c - 1) \in Nat /\ FPs(c) \in Nat /\ FPNeeded \in Nat /\ FPs(c) <= FPNeeded
    BY <1>2, <1>3, <1>5, CountsIs
  <2>3. regSlots(call.params[c]) = 0
    BY <1>2, <1>3, <1>5, ParamIs, regSlotsIs
  <2>4. FPNeeded <= 8
    BY <1>11 DEF Claimed, Fits
  <2>5. fIdx < 8
    BY <1>2, <2>1, <2>2, <2>4
  <2>6. mem' = Write(mem, Off(id), d[fIdx]) /\ fIdx' = FPs(c) /\ iIdx' = Regs(c)
    BY <1>3, <1>9, <2>1, <2>2, <2>3, <2>5
  <2>7. d[fIdx] = Arg(c, 1)
    BY <1>3, <1>5, <2>1 DEF InRegs
  <2>8. Read(mem', Off(id)) = Arg(c, 1)
    BY <2>6, <2>7, MemWrite
  <2>9. Arrived(c)'
    <3>1. Off(<<"param", c>>)' = Off(id) /\ Words(call.params[c].bytes)' = 1
      BY <1>3, <1>6, <1>7 DEF Off
    <3>2. \A w \in 1..1 : w = 1 /\ Off(id) + 8 * (w - 1) = Off(id)
      BY <1>8
    <3>3. \A w \in 1..1 : Read(mem', Off(id) + 8 * (w - 1)) = Arg(c, w)
      BY <2>8, <3>2
    <3> QED
      BY <3>1, <3>3 DEF Arrived, Arg, Read, Junk
  <2> QED
    BY <1>5, <2>6, <2>9
<1>12. PrologueInv'
  BY <1>3, <1>5, <1>6, <1>10, <1>11, PrologueNext
<1>13. x' = [r \in 0..18 |-> x'[r]] /\ \A r \in 0..18 : x'[r][1] # "sp"
  BY <1>1, <1>3 DEF Types, ValuesInv
<1> QED
  BY <1>2, <1>3, <1>10, <1>12, <1>13, ProloguePhase

(* emitPrologue on an integer parameter.                                   *)
LEMMA StoreIntParamInv ==
  ASSUME FrameInv, StoreIntParam
  PROVE  FrameInv'
<1>1. Types /\ ValuesInv /\ StackInv /\ PrologueInv
  BY DEF FrameInv, RunInv
<1>2. /\ call \in Calls /\ k \in Nat \ {0} /\ n \in Nat /\ iIdx \in Nat /\ fIdx \in 0..8
  BY <1>1, CallIs DEF Types
<1>3. /\ pc = "prologue" /\ pc' = "prologue" /\ k' = k + 1 /\ k <= n /\ call' = call
      /\ UNCHANGED <<call, frameVars, d, sp, fp, body>> /\ slots' = slots /\ fIdx' = fIdx /\ x' = x
      /\ call.params[k].class = "int"
  BY DEF StoreIntParam, AtParam, Param, frameVars, n
<1>4. sp = 0
  BY <1>1, <1>3 DEF StackInv
<1>5. PICK c \in 1..n : k = c
  BY <1>2, <1>3
<1>6. PICK id : id = <<"param", c>>
  OBVIOUS
<1>7. id \in DOMAIN slots /\ Words(call.params[c].bytes) = 1 /\ slots[id].size = 8
  <2>1. call.params[c].bytes \in Nat \ {0} /\ call.params[c].bytes <= 8
    BY <1>2, <1>3, <1>5, ParamIs
  <2>2. Words(call.params[c].bytes) = 1
    BY <2>1, WordsFew
  <2> QED
    BY <1>3, <1>6, <2>2, ParamSize
<1>8. Off(id) \in Nat /\ sp + Off(id) = Off(id)
  BY <1>4, <1>7, SlotIs
<1>9. IF iIdx < 8 THEN mem' = Write(mem, Off(id), x[iIdx]) /\ iIdx' = iIdx + 1
                  ELSE mem' = mem /\ iIdx' = iIdx
  BY <1>5, <1>6, <1>8 DEF StoreIntParam
<1>10. /\ iIdx' \in Nat
       /\ DOMAIN mem' \subseteq Int
       /\ \A b \in DOMAIN mem' : mem'[b][1] = "sp" => mem'[b][2] \in Int
       /\ \A b \in Int : b < Off(id) \/ Off(id) + slots[id].size <= b => Read(mem', b) = Read(mem, b)
  <2>1. CASE iIdx < 8
    <3>1. mem' = Write(mem, Off(id), x[iIdx]) /\ iIdx' \in Nat /\ iIdx \in 0..18
      BY <1>2, <1>9, <2>1
    <3>2. x[iIdx][1] # "sp"
      BY <1>1, <3>1 DEF ValuesInv
    <3>3. \A b \in Int : b < Off(id) \/ Off(id) + 8 <= b => b # Off(id)
      BY <1>8
    <3>4. \A b : b # Off(id) => Read(mem', b) = Read(mem, b)
      BY <3>1, MemWrite
    <3>5. Off(id) \in Int
      BY <1>8
    <3>6. /\ DOMAIN mem' \subseteq Int
          /\ \A b \in DOMAIN mem' : mem'[b][1] = "sp" => mem'[b][2] \in Int
      BY <1>1, <3>1, <3>2, <3>5, WriteValues
    <3> QED
      BY <1>7, <3>1, <3>3, <3>4, <3>6
  <2>2. CASE ~(iIdx < 8)
    BY <1>1, <1>2, <1>9, <2>2 DEF ValuesInv
  <2> QED
    BY <2>1, <2>2
<1>11. ASSUME Claimed
       PROVE  iIdx' = Regs(k) /\ fIdx' = FPs(k) /\ Arrived(c)'
  <2>1. iIdx = Regs(c - 1) /\ fIdx = FPs(c - 1) /\ InRegs(c)
    BY <1>1, <1>3, <1>5, <1>11 DEF PrologueInv
  <2>2. /\ Regs(c) = Regs(c - 1) + regSlots(call.params[c])
        /\ FPs(c) = FPs(c - 1)
        /\ Regs(c - 1) \in Nat /\ Regs(c) \in Nat /\ RegsNeeded \in Nat /\ Regs(c) <= RegsNeeded
    BY <1>2, <1>3, <1>5, CountsIs
  <2>3. regSlots(call.params[c]) = 1
    BY <1>2, <1>3, <1>5, ParamIs, regSlotsIs
  <2>4. RegsNeeded <= 8
    BY <1>11 DEF Claimed, Fits
  <2>5. iIdx < 8
    BY <2>1, <2>2, <2>3, <2>4
  <2>6. mem' = Write(mem, Off(id), x[iIdx]) /\ fIdx' = FPs(c) /\ iIdx' = Regs(c)
    BY <1>3, <1>9, <2>1, <2>2, <2>3, <2>5
  <2>7. x[iIdx] = Arg(c, 1)
    BY <1>3, <1>5, <2>1 DEF InRegs
  <2>8. Read(mem', Off(id)) = Arg(c, 1)
    BY <2>6, <2>7, MemWrite
  <2>9. Arrived(c)'
    <3>1. Off(<<"param", c>>)' = Off(id) /\ Words(call.params[c].bytes)' = 1
      BY <1>3, <1>6, <1>7 DEF Off
    <3>2. \A w \in 1..1 : w = 1 /\ Off(id) + 8 * (w - 1) = Off(id)
      BY <1>8
    <3>3. \A w \in 1..1 : Read(mem', Off(id) + 8 * (w - 1)) = Arg(c, w)
      BY <2>8, <3>2
    <3> QED
      BY <3>1, <3>3 DEF Arrived, Arg, Read, Junk
  <2> QED
    BY <1>5, <2>6, <2>9
<1>12. PrologueInv'
  BY <1>3, <1>5, <1>6, <1>10, <1>11, PrologueNext
<1>13. x' = [r \in 0..18 |-> x'[r]] /\ \A r \in 0..18 : x'[r][1] # "sp"
  BY <1>1, <1>3 DEF Types, ValuesInv
<1> QED
  BY <1>2, <1>3, <1>10, <1>12, <1>13, ProloguePhase

(* Reading the stack after words other than stack pointers were written.   *)
LEMMA MemWords ==
  ASSUME ValuesInv, NEW a \in Int, NEW vs, NEW len \in Nat, Len(vs) = len,
         mem' = WriteWords(mem, a, vs), \A w \in 1..len : vs[w][1] # "sp"
  PROVE  /\ DOMAIN mem' \subseteq Int
         /\ \A b \in DOMAIN mem' : mem'[b][1] = "sp" => mem'[b][2] \in Int
         /\ \A w \in 1..len : Read(mem', a + 8 * (w - 1)) = vs[w]
         /\ \A b \in Int : b < a \/ a + 8 * len <= b => Read(mem', b) = Read(mem, b)
<1>1. DOMAIN mem \subseteq Int /\ \A b \in DOMAIN mem : mem[b][1] = "sp" => mem[b][2] \in Int
  BY DEF ValuesInv
<1>2. DOMAIN mem' \subseteq Int
  BY <1>1, WordsDomain
<1>3. \A b \in DOMAIN mem' : \/ \E w \in 1..len : mem'[b] = vs[w]
                             \/ b \in DOMAIN mem /\ mem'[b] = mem[b]
  BY WordsValues
<1>4. \A b \in DOMAIN mem' : mem'[b][1] = "sp" => mem'[b][2] \in Int
  BY <1>1, <1>3
<1>5. /\ \A w \in 1..len : Read(WriteWords(mem, a, vs), a + 8 * (w - 1)) = vs[w]
      /\ \A b \in Int : b < a \/ a + 8 * len <= b =>
           Read(WriteWords(mem, a, vs), b) = Read(mem, b)
  BY ReadWords
<1> QED
  BY <1>2, <1>4, <1>5

(* Registers hold no stack pointers, and neither does a caller's struct.   *)
LEMMA RegIs ==
  ASSUME Types, ValuesInv, NEW r
  PROVE  /\ r \in 0..18 => Reg(r) = x[r]
         /\ Reg(r)[1] # "sp" /\ \A w : Behind(Reg(r), w)[1] # "sp"
<1>1. DOMAIN x = 0..18
  BY DEF Types
<1>2. Reg(r)[1] # "sp"
  BY <1>1 DEF ValuesInv, Reg, Junk
<1>3. \A v, w : Behind(v, w)[1] # "sp"
  BY DEF Behind, Arg, Junk
<1> QED
  BY <1>1, <1>2, <1>3 DEF Reg

(* emitPrologue on a struct: one or two registers, or the words behind a   *)
(* pointer, copied through X9 and X10.                                     *)
LEMMA StoreStructParamInv ==
  ASSUME FrameInv, StoreStructParam
  PROVE  FrameInv'
<1>1. Types /\ ValuesInv /\ StackInv /\ PrologueInv
  BY DEF FrameInv, RunInv
<1>2. /\ call \in Calls /\ k \in Nat \ {0} /\ n \in Nat /\ iIdx \in Nat /\ fIdx \in 0..8
  BY <1>1, CallIs DEF Types
<1>3. /\ pc = "prologue" /\ pc' = "prologue" /\ k' = k + 1 /\ k <= n /\ call' = call
      /\ UNCHANGED <<call, frameVars, d, sp, fp, body>> /\ slots' = slots /\ fIdx' = fIdx
      /\ call.params[k].class = "struct"
  BY DEF StoreStructParam, AtParam, Param, frameVars, n
<1>4. sp = 0
  BY <1>1, <1>3 DEF StackInv
<1>5. PICK c \in 1..n : k = c
  BY <1>2, <1>3
<1>19. PICK id, p : id = <<"param", c>> /\ p = call.params[c]
  OBVIOUS
<1>6. PICK m \in Nat \ {0} :
        /\ id = <<"param", c>> /\ p = call.params[c] /\ m = Words(p.bytes)
        /\ id \in DOMAIN slots /\ slots[id].size = 8 * m
  BY <1>3, <1>19, ParamSize
<1>7. param(p) /\ p.bytes \in Nat \ {0} /\ p.class = "struct" /\ Param = p
  BY <1>2, <1>3, <1>5, <1>6, ParamIs DEF Param
<1>8. Off(id) \in Nat /\ sp + Off(id) = Off(id) /\ Off(id) \in Int
  BY <1>4, <1>6, SlotIs
<1> DEFINE vs == [w \in 1..m |-> IF p.bytes > 16 THEN Behind(Reg(iIdx), w) ELSE Reg(iIdx + w - 1)]
<1>9. mem' = WriteWords(mem, Off(id), vs)
  BY <1>5, <1>6, <1>7, <1>8 DEF StoreStructParam
<1>10. Len(vs) = m
  BY <1>6
<1>11. \A w \in 1..m : vs[w][1] # "sp"
  BY <1>1, RegIs
<1>12. /\ DOMAIN mem' \subseteq Int
       /\ \A b \in DOMAIN mem' : mem'[b][1] = "sp" => mem'[b][2] \in Int
       /\ \A w \in 1..m : Read(mem', Off(id) + 8 * (w - 1)) = vs[w]
       /\ \A b \in Int : b < Off(id) \/ Off(id) + 8 * m <= b => Read(mem', b) = Read(mem, b)
  <2> HIDE DEF vs
  <2>1. m \in Nat
    BY <1>6
  <2> QED
    BY <1>1, <1>8, <1>9, <1>10, <1>11, <2>1, MemWords
<1>13. /\ x' = [r \in 0..18 |-> x'[r]] /\ (\A r \in 0..18 : x'[r][1] # "sp")
       /\ \A r \in 0..8 : x'[r] = x[r]
  <2>1. x = [r \in 0..18 |-> x[r]] /\ DOMAIN x = 0..18 /\ \A r \in 0..18 : x[r][1] # "sp"
    BY <1>1 DEF Types, ValuesInv
  <2>2. CASE p.bytes > 16
    <3>1. PICK u, v : u = Reg(iIdx) /\ v = Behind(Reg(iIdx), m)
      OBVIOUS
    <3>2. u[1] # "sp" /\ v[1] # "sp"
      BY <1>1, <3>1, RegIs
    <3>3. x' = [r \in 0..18 |-> CASE r = 9 -> u [] r = 10 -> v [] OTHER -> x[r]]
      BY <1>6, <1>7, <2>1, <2>2, <3>1 DEF StoreStructParam
    <3>4. \A r \in 0..18 : x'[r] = IF r = 9 THEN u ELSE IF r = 10 THEN v ELSE x[r]
      BY <3>3
    <3>5. \A r \in 0..8 : r \in 0..18 /\ r # 9 /\ r # 10
      OBVIOUS
    <3>6. x' = [r \in 0..18 |-> x'[r]]
      BY <3>3
    <3>7. \A r \in 0..18 : x'[r][1] # "sp"
      <4>1. \A r \in 0..18 : x[r][1] # "sp"
        BY <2>1
      <4> QED
        BY <3>2, <3>4, <4>1
    <3> QED
      BY <3>4, <3>5, <3>6, <3>7
  <2>3. CASE ~(p.bytes > 16)
    <3>1. x' = x
      BY <1>7, <2>3 DEF StoreStructParam
    <3>2. \A r \in 0..8 : x'[r] = x[r]
      BY <3>1
    <3> QED
      BY <2>1, <3>1, <3>2, Zenon
  <2> QED
    BY <2>2, <2>3
<1>14. PICK s \in 1..2 : s = StructRegs(p.bytes) /\ (s = 2 <=> p.bytes > 8 /\ p.bytes <= 16)
  BY <1>7, StructRegsIs
<1>15. iIdx' = iIdx + s /\ iIdx' \in Nat
  <2>1. iIdx' = iIdx + s
    BY <1>7, <1>14 DEF StoreStructParam
  <2>2. iIdx \in Nat /\ s \in Nat
    BY <1>2, <1>14
  <2> QED
    BY <2>1, <2>2
<1>16. ASSUME Claimed
       PROVE  iIdx' = Regs(k) /\ fIdx' = FPs(k) /\ Arrived(c)'
  <2>1. iIdx = Regs(c - 1) /\ fIdx = FPs(c - 1) /\ InRegs(c)
    BY <1>1, <1>3, <1>5, <1>16 DEF PrologueInv
  <2>2. /\ Regs(c) = Regs(c - 1) + regSlots(p)
        /\ FPs(c) = FPs(c - 1)
        /\ Regs(c - 1) \in Nat /\ Regs(c) \in Nat /\ RegsNeeded \in Nat /\ Regs(c) <= RegsNeeded
    BY <1>2, <1>6, <1>7, CountsIs
  <2>3. regSlots(p) = s
    BY <1>7, <1>14, regSlotsIs
  <2>4. RegsNeeded <= 8
    BY <1>16 DEF Claimed, Fits
  <2>5. iIdx + s <= 8
    BY <2>1, <2>2, <2>3, <2>4
  <2>6. fIdx' = FPs(c) /\ iIdx' = Regs(c)
    BY <1>3, <1>15, <2>1, <2>2, <2>3
  <2>7. /\ p.bytes > 16 => x[iIdx] = CopyOf(c)
        /\ p.bytes <= 16 => x[iIdx] = Arg(c, 1)
        /\ p.bytes > 8 /\ p.bytes <= 16 => x[iIdx + 1] = Arg(c, 2)
    BY <1>6, <1>7, <2>1 DEF InRegs
  <2>8. iIdx \in 0..18 /\ iIdx + 1 \in 0..18
    BY <1>2, <1>14, <2>5
  <2>9. Reg(iIdx) = x[iIdx] /\ Reg(iIdx + 1) = x[iIdx + 1]
    BY <1>1, <2>8, RegIs
  <2>10. \A w \in 1..m : vs[w] = Arg(c, w)
    <3>1. CASE p.bytes > 16
      <4>1. \A w : Behind(CopyOf(c), w) = Arg(c, w)
        BY DEF Behind, CopyOf
      <4> QED
        BY <2>7, <2>9, <3>1, <4>1
    <3>2. CASE p.bytes <= 8
      <4>1. m = 1
        BY <1>6, <1>7, <3>2, WordsFew
      <4>2. iIdx + 1 - 1 = iIdx /\ ~(p.bytes > 16) /\ p.bytes <= 16
        BY <1>2, <1>7, <3>2
      <4>3. vs[1] = Arg(c, 1)
        BY <2>7, <2>9, <4>1, <4>2
      <4>4. \A w \in 1..1 : w = 1
        OBVIOUS
      <4> QED
        BY <4>1, <4>3, <4>4
    <3>3. CASE p.bytes > 8 /\ p.bytes <= 16
      <4>1. m = 2
        BY <1>6, <1>7, <3>3, WordsFew
      <4>2. iIdx + 1 - 1 = iIdx /\ iIdx + 2 - 1 = iIdx + 1 /\ ~(p.bytes > 16)
        BY <1>2, <1>7, <3>3
      <4>3. vs[1] = Arg(c, 1) /\ vs[2] = Arg(c, 2)
        BY <2>7, <2>9, <3>3, <4>1, <4>2
      <4>4. \A w \in 1..2 : w = 1 \/ w = 2
        OBVIOUS
      <4> QED
        BY <4>1, <4>3, <4>4
    <3> QED
      BY <1>7, <3>1, <3>2, <3>3
  <2>11. Arrived(c)'
    <3>1. Off(<<"param", c>>)' = Off(id) /\ Words(call.params[c].bytes)' = m
      BY <1>3, <1>6 DEF Off
    <3>2. \A w \in 1..m : Read(mem', Off(id) + 8 * (w - 1)) = Arg(c, w)
      <4> HIDE DEF vs
      <4> QED
        BY <1>12, <2>10
    <3> QED
      BY <3>1, <3>2 DEF Arrived, Arg, Read, Junk
  <2> QED
    BY <1>5, <2>6, <2>11
<1>17. \A b \in Int : \/ b < Off(<<"param", c>>)
                      \/ Off(<<"param", c>>) + slots[<<"param", c>>].size <= b
                      => Read(mem', b) = Read(mem, b)
  <2> HIDE DEF vs
  <2> QED
    BY <1>6, <1>12
<1>18. PrologueInv'
  <2> HIDE DEF vs
  <2> QED
    BY <1>3, <1>5, <1>13, <1>16, <1>17, PrologueNext
<1> HIDE DEF vs
<1> QED
  BY <1>2, <1>3, <1>12, <1>13, <1>15, <1>18, ProloguePhase

(* What SaveRegisters writes: X1..X7 of a variadic function, and X8.       *)
LEMMA SaveIs ==
  ASSUME FrameInv, SaveRegisters
  PROVE  /\ DOMAIN mem' \subseteq Int
         /\ \A b \in DOMAIN mem' : mem'[b][1] = "sp" => mem'[b][2] \in Int
         /\ \A b \in Int : /\ call.variadic => b < 24 \/ 80 <= b
                           /\ call.ret > 16 => b # Off(X8Slot)
                           => Read(mem', b) = Read(mem, b)
         /\ call.variadic => \A w \in 1..7 : Read(mem', 24 + 8 * (w - 1)) = x[w]
         /\ call.ret > 16 => Read(mem', Off(X8Slot)) = x[8]
<1>1. Types /\ ValuesInv /\ StackInv /\ pc = "prologue"
  BY DEF FrameInv, SaveRegisters
<1>2. sp = 0 /\ sp + 24 = 24
  BY <1>1 DEF StackInv
<1> DEFINE vs == [w \in 1..7 |-> x[w]]
<1>3. PICK m0 : /\ m0 = IF call.variadic THEN WriteWords(mem, 24, vs) ELSE mem
                /\ mem' = IF call.ret > 16 THEN Write(m0, sp + Off(X8Slot), x[8]) ELSE m0
  BY <1>2 DEF SaveRegisters, SaveWords
<1>4. Len(vs) = 7 /\ \A w \in 1..7 : vs[w] = x[w]
  OBVIOUS
<1>5. \A r \in 1..8 : x[r][1] # "sp"
  <2>1. \A r \in 1..8 : r \in 0..18
    OBVIOUS
  <2> QED
    BY <1>1, <2>1 DEF ValuesInv
<1> HIDE DEF vs
<1>6. /\ DOMAIN m0 \subseteq Int
      /\ \A b \in DOMAIN m0 : m0[b][1] = "sp" => m0[b][2] \in Int
      /\ \A b \in Int : (call.variadic => b < 24 \/ 80 <= b) => Read(m0, b) = Read(mem, b)
      /\ call.variadic => \A w \in 1..7 : Read(m0, 24 + 8 * (w - 1)) = x[w]
  <2>1. CASE call.variadic
    <3>2. PICK a \in Int, len \in Nat : a = 24 /\ len = 7 /\ a + 8 * len = 80
      OBVIOUS
    <3>1. m0 = WriteWords(mem, a, vs) /\ Len(vs) = len
      BY <1>3, <1>4, <2>1, <3>2
    <3>3. DOMAIN mem \subseteq Int /\ \A b \in DOMAIN mem : mem[b][1] = "sp" => mem[b][2] \in Int
      BY <1>1 DEF ValuesInv
    <3>4. DOMAIN m0 \subseteq Int
      BY <3>1, <3>3, WordsDomain
    <3>5. \A b \in DOMAIN m0 : \/ \E w \in 1..len : m0[b] = vs[w]
                               \/ b \in DOMAIN mem /\ m0[b] = mem[b]
      BY <3>1, WordsValues
    <3>6. \A w \in 1..7 : vs[w][1] # "sp"
      <4>1. \A w \in 1..7 : w \in 1..8
        OBVIOUS
      <4> QED
        BY <1>4, <1>5, <4>1
    <3>7. \A b \in DOMAIN m0 : m0[b][1] = "sp" => m0[b][2] \in Int
      BY <3>2, <3>3, <3>5, <3>6
    <3>8. /\ \A w \in 1..len : Read(WriteWords(mem, a, vs), a + 8 * (w - 1)) = vs[w]
          /\ \A b \in Int : b < a \/ a + 8 * len <= b =>
               Read(WriteWords(mem, a, vs), b) = Read(mem, b)
      BY <3>1, ReadWords
    <3> QED
      BY <1>4, <2>1, <3>1, <3>2, <3>4, <3>7, <3>8
  <2>2. CASE ~call.variadic
    BY <1>1, <1>3, <2>2 DEF ValuesInv
  <2> QED
    BY <2>1, <2>2
<1>7. CASE call.ret > 16
  <2>1. X8Slot \in DOMAIN slots
    BY <1>1, <1>7, LaidOut
  <2>2. Off(X8Slot) \in Nat /\ (call.variadic => Off(X8Slot) >= 80)
    BY <2>1, SlotIs DEF X8Slot
  <2>3. PICK o \in Nat : o = Off(X8Slot)
    BY <2>2
  <2>4. mem' = Write(m0, o, x[8])
    BY <1>2, <1>3, <1>7, <2>3
  <2>5. Read(mem', o) = x[8] /\ (\A b : b # o => Read(mem', b) = Read(m0, b))
          /\ DOMAIN mem' = DOMAIN m0 \cup {o}
    BY <2>4 DEF Read, Write
  <2>6. \A b \in DOMAIN mem' : mem'[b] = x[8] \/ (b \in DOMAIN m0 /\ mem'[b] = m0[b])
    BY <2>4 DEF Write
  <2>7. x[8][1] # "sp"
    BY <1>5
  <2>8. \A b \in DOMAIN mem' : mem'[b][1] = "sp" => mem'[b][2] \in Int
    BY <1>6, <2>6, <2>7
  <2>9. DOMAIN mem' \subseteq Int
    BY <1>6, <2>3, <2>5
  <2>10. ASSUME call.variadic, NEW w \in 1..7
         PROVE  24 + 8 * (w - 1) # o
    BY <2>2, <2>3, <2>10
  <2> QED
    BY <1>6, <1>7, <2>3, <2>5, <2>8, <2>9, <2>10
<1>8. CASE ~(call.ret > 16)
  BY <1>3, <1>6, <1>8
<1> QED
  BY <1>7, <1>8

(* Integer parameters: register i holds parameter i + 1, whose slot is the *)
(* word where the save area has register i.                                *)
LEMMA AllIntIs ==
  ASSUME FrameInv, pc \in {"args", "prologue", "body", "returned", "resumed"}, AllInt, NEW i \in 1..n
  PROVE  /\ Regs(i - 1) = i - 1 /\ RegsNeeded = n
         /\ Off(<<"param", i>>) = 16 + 8 * (i - 1) /\ Words(call.params[i].bytes) = 1
<1>1. call \in Calls
  BY DEF FrameInv, Types
<1>2. n \in Nat
  BY <1>1, CallIs
<1>3. \A q \in 1..n : call.params[q].class = "int"
  BY DEF AllInt, n
<1>4. \A q \in 1..n : regSlots(call.params[q]) = 1
  BY <1>1, <1>3, ParamIs, regSlotsIs
<1>5. RegsBefore(call.params, n) = n
  BY <1>2, <1>4, RegsAllInt
<1>6. PICK j \in Nat : j = i - 1 /\ j <= n
  BY <1>2
<1>7. \A q \in 1..j : regSlots(call.params[q]) = 1
  BY <1>2, <1>4, <1>6
<1>8. RegsBefore(call.params, j) = j
  BY <1>7, RegsAllInt
<1>9. <<"param", i>> \in DOMAIN slots
  BY LaidOut
<1>10. Off(<<"param", i>>) = 16 + 8 * (i - 1)
  BY <1>9 DEF FrameInv, BuildInv, OrderInv, Off
<1>11. Words(call.params[i].bytes) = 1
  <2>1. call.params[i].bytes \in Nat \ {0} /\ call.params[i].bytes <= 8
    BY <1>1, <1>3, ParamIs
  <2> QED
    BY <2>1, WordsFew
<1> QED
  BY <1>5, <1>6, <1>8, <1>10, <1>11 DEF Regs, RegsNeeded, n

(* X1..X7 go over the parameters of a variadic function and X8 to its      *)
(* slot; both leave what arrived.                                          *)
LEMMA SaveRegistersInv ==
  ASSUME FrameInv, SaveRegisters
  PROVE  FrameInv'
<1>1. Types /\ ValuesInv /\ StackInv /\ BuildInv /\ PrologueInv
  BY DEF FrameInv, RunInv
<1>2. /\ call \in Calls /\ k \in Nat \ {0} /\ n \in Nat /\ Len(call.extra) \in Nat
      /\ Len(call.locals) \in Nat /\ RegsNeeded \in Nat
  BY <1>1, CallIs, NeededIs DEF Types
<1>3. /\ pc = "prologue" /\ pc' = "body" /\ k' = k /\ k > n /\ call' = call
      /\ UNCHANGED <<call, frameVars, regs, sp, fp, body>> /\ slots' = slots /\ offset' = offset
  BY DEF SaveRegisters, frameVars, n
<1>4. /\ sp = 0 /\ fp = 0
  BY <1>1, <1>3 DEF StackInv
<1>5. stored' = {} /\ ap' = <<>> /\ got' = <<>>
  BY <1>1, <1>3 DEF Types, body
<1>6. /\ DOMAIN mem' \subseteq Int
      /\ \A b \in DOMAIN mem' : mem'[b][1] = "sp" => mem'[b][2] \in Int
      /\ \A b \in Int : /\ call.variadic => b < 24 \/ 80 <= b
                        /\ call.ret > 16 => b # Off(X8Slot)
                        => Read(mem', b) = Read(mem, b)
      /\ call.variadic => \A w \in 1..7 : Read(mem', 24 + 8 * (w - 1)) = x[w]
      /\ call.ret > 16 => Read(mem', Off(X8Slot)) = x[8]
  BY SaveIs
<1>7. Types'
  BY <1>1, <1>3, Zenon DEF Types, regs, body
<1>8. ValuesInv'
  BY <1>1, <1>3, <1>6 DEF ValuesInv, regs
<1>9. BuildInv'
  BY <1>1, <1>3, BuildKept
<1>10. StackInv'
  BY <1>1, <1>3, <1>4 DEF StackInv
<1>11. /\ n' = n /\ RegsNeeded' = RegsNeeded /\ VLAs' = VLAs /\ (AllInt' <=> AllInt)
       /\ (Claimed' <=> Claimed) /\ (ExtraClaimed' <=> ExtraClaimed)
  BY <1>3, CallSame
<1>12. call.ret > 16 => /\ X8Slot \in DOMAIN slots /\ Off(X8Slot) \in Nat /\ 16 <= Off(X8Slot)
                        /\ slots[X8Slot].size = 8 /\ (call.variadic => Off(X8Slot) >= 80)
  <2>1. call.ret > 16 => X8Slot \in DOMAIN slots /\ slots[X8Slot].size = 8
    BY <1>3, LaidOut
  <2>2. X8Slot[1] # "param"
    BY DEF X8Slot
  <2> QED
    BY <2>1, <2>2, SlotIs
(* A slot that is not X8's, above the save area.                           *)
<1>13. ASSUME NEW id \in DOMAIN slots, id # X8Slot, call.variadic => Off(id) >= 80,
              NEW b \in Int, Off(id) <= b, b < Off(id) + slots[id].size
       PROVE  Read(mem', b) = Read(mem, b)
  <2>1. Off(id) \in Nat /\ slots[id].size \in Nat
    BY <1>13, SlotIs
  <2>2. call.ret > 16 => Off(id) + slots[id].size <= Off(X8Slot) \/ Off(X8Slot) + 8 <= Off(id)
    BY <1>12, <1>13, SlotsApart
  <2>3. call.ret > 16 => b # Off(X8Slot)
    BY <1>12, <1>13, <2>1, <2>2
  <2>4. call.variadic => 80 <= b
    BY <1>13, <2>1
  <2> QED
    BY <1>6, <2>3, <2>4
<1>14. Read(mem', 0) = CallerFP /\ Read(mem', 8) = CallerLR
  <2>1. Read(mem, 0) = CallerFP /\ Read(mem, 8) = CallerLR
    BY <1>1, <1>3 DEF PrologueInv
  <2>2. Read(mem', 0) = Read(mem, 0) /\ Read(mem', 8) = Read(mem, 8)
    <3>1. call.ret > 16 => 0 # Off(X8Slot) /\ 8 # Off(X8Slot)
      BY <1>12
    <3> QED
      BY <1>6, <3>1
  <2> QED
    BY <2>1, <2>2
<1>15. call.ret > 16 /\ ~call.ptr => Read(mem', Off(X8Slot)) = DestPtr
  BY <1>1, <1>3, <1>6 DEF PrologueInv
<1>16. ASSUME Claimed, call.variadic => AllInt, NEW i \in 1..n
       PROVE  Arrived(i)'
  <2>1. i < k /\ Arrived(i) /\ InRegs(i)
    <3>1. i < k
      BY <1>2, <1>3
    <3> QED
      BY <3>1, <1>1, <1>3, <1>16 DEF PrologueInv
  <2>2. PICK id : id = <<"param", i>>
    OBVIOUS
  <2>3. id \in DOMAIN slots /\ id # X8Slot
    BY <1>3, <2>2, LaidOut DEF X8Slot
  <2>4. CASE ~call.variadic
    <3>1. \A b \in Int : Off(id) <= b /\ b < Off(id) + slots[id].size => Read(mem', b) = Read(mem, b)
      BY <1>13, <2>3, <2>4
    <3> QED
      BY <1>3, <2>1, <2>2, <3>1, ArrivedKept
  <2>5. CASE call.variadic
    <3>1. /\ Regs(i - 1) = i - 1 /\ RegsNeeded = n
          /\ Off(<<"param", i>>) = 16 + 8 * (i - 1) /\ Words(call.params[i].bytes) = 1
      BY <1>3, <1>16, <2>5, AllIntIs
    <3>2. n <= 8
      BY <1>16, <3>1 DEF Claimed, Fits
    <3>3. Read(mem', 16 + 8 * (i - 1)) = Arg(i, 1)
      <4>1. CASE i = 1
        <5>1. Read(mem', 16) = Read(mem, 16)
          <6>1. call.ret > 16 => 16 # Off(X8Slot)
            BY <1>12, <2>5
          <6> QED
            BY <1>6, <6>1
        <5>2. 16 + 8 * (i - 1) = 16 /\ 16 + 8 * (1 - 1) = 16
          BY <4>1
        <5>3. Read(mem, Off(<<"param", i>>) + 8 * (1 - 1)) = Arg(i, 1)
          BY <2>1, <3>1 DEF Arrived
        <5>4. Off(<<"param", i>>) + 8 * (1 - 1) = 16
          BY <3>1, <5>2
        <5> QED
          BY <5>1, <5>2, <5>3, <5>4
      <4>2. CASE i # 1
        <5>1. i - 1 \in 1..7 /\ 16 + 8 * (i - 1) = 24 + 8 * ((i - 1) - 1)
          BY <1>2, <3>2, <4>2
        <5>2. Read(mem', 24 + 8 * ((i - 1) - 1)) = x[i - 1]
          BY <1>6, <2>5, <5>1
        <5>3. call.params[i].class = "int"
          BY <1>16, <2>5 DEF AllInt, n
        <5>4. x[Regs(i - 1)] = Arg(i, 1)
          BY <2>1, <5>3 DEF InRegs
        <5> QED
          BY <3>1, <5>1, <5>2, <5>4
      <4> QED
        BY <4>1, <4>2
    <3>4. Off(<<"param", i>>)' = 16 + 8 * (i - 1) /\ Words(call.params[i].bytes)' = 1
      BY <1>3, <3>1 DEF Off
    <3>5. \A w \in 1..1 : w = 1 /\ (16 + 8 * (i - 1)) + 8 * (w - 1) = 16 + 8 * (i - 1)
      OBVIOUS
    <3>6. \A w \in 1..1 : Read(mem', (16 + 8 * (i - 1)) + 8 * (w - 1)) = Arg(i, w)
      BY <3>3, <3>5
    <3> QED
      BY <3>4, <3>6 DEF Arrived, Arg, Read, Junk
  <2> QED
    BY <1>2, <2>4, <2>5, CallIs
<1>17. ASSUME ExtraClaimed, NEW i \in 1..Len(call.extra), RegsNeeded + i <= 8
       PROVE  Read(mem', 16 + 8 * (RegsNeeded + i - 1)) = Arg(n + i, 1)
  <2>1. x[RegsNeeded + i - 1] = Arg(n + i, 1)
    BY <1>1, <1>3, <1>17 DEF PrologueInv, ExtraInReg
  <2>2. call.variadic /\ FPNeeded = 0
    BY <1>17 DEF ExtraClaimed, Claimed
  <2>3. RegsNeeded >= 1
    <3>1. 1 \in 1..n /\ 1 - 1 = 0
      BY <1>2, <2>2, CallIs
    <3>2. PICK p : p = call.params[1]
      OBVIOUS
    <3>3. param(p) /\ p.class \in {"int", "struct"} /\ p.bytes \in Nat
      BY <1>2, <2>2, <3>1, <3>2, ParamIs, NoFP
    <3>4. regSlots(p) \in 1..2
      <4>1. StructRegs(p.bytes) \in 1..2
        BY <3>3, StructRegsIs
      <4> QED
        BY <3>3, <4>1, regSlotsIs
    <3>5. Regs(1) = Regs(1 - 1) + regSlots(p) /\ Regs(1 - 1) \in Nat /\ Regs(1) <= RegsNeeded
      BY <1>2, <3>1, <3>2, CountsIs
    <3> QED
      BY <1>2, <3>4, <3>5
  <2>4. PICK w \in 1..7 : w = RegsNeeded + i - 1
    BY <1>2, <1>17, <2>3
  <2>5. 16 + 8 * w = 24 + 8 * (w - 1)
    OBVIOUS
  <2>6. Read(mem', 24 + 8 * (w - 1)) = x[w]
    BY <1>6, <2>2
  <2> QED
    BY <2>1, <2>4, <2>5, <2>6
<1>18. KeptInv'
  <2>1. Off(X8Slot)' = Off(X8Slot)
    BY <1>3 DEF Off, X8Slot
  <2> QED
    BY <1>3, <1>11, <1>14, <1>15, <1>16, <1>17, <2>1
    DEF KeptInv, Read, Junk, CallerFP, CallerLR, DestPtr, Arg
<1>19. ASSUME NEW j \in 1..Len(call.locals)
       PROVE  Read(mem', LocalOff(j)) = Junk /\ LocalOff(j)' = LocalOff(j)
  <2>1. PICK id : id = <<"local", j>>
    OBVIOUS
  <2>2. id \in DOMAIN slots /\ id # X8Slot /\ LocalOff(j) = Off(id) /\ id[1] # "param"
    BY <1>3, <2>1, LaidOut DEF LocalOff, X8Slot
  <2>3. Off(id) \in Nat /\ slots[id].size \in Nat \ {0} /\ (call.variadic => Off(id) >= 80)
    BY <2>2, SlotIs
  <2>4. Off(id) \in Int /\ Off(id) < Off(id) + slots[id].size /\ Off(id) <= Off(id)
    BY <2>3
  <2>5. Read(mem', Off(id)) = Read(mem, Off(id))
    BY <1>13, <2>2, <2>3, <2>4
  <2>6. Read(mem, LocalOff(j)) = Junk
    BY <1>1, <1>3 DEF PrologueInv
  <2> QED
    BY <1>3, <2>2, <2>5, <2>6 DEF LocalOff, Off
<1>20. DynamicInv'
  <2>1. \A j \in VLAs : Read(mem, LocalOff(j))' = Junk
    BY <1>19 DEF VLAs, Read, Junk
  <2>2. \A j \in VLAs : ~Allocated(j)'
    BY <2>1 DEF Allocated, Junk
  <2> QED
    BY <1>11, <2>1, <2>2 DEF DynamicInv, Junk
<1>21. StoredInv' /\ GotInv'
  BY <1>5 DEF StoredInv, GotInv
<1>22. CallerInv' /\ PrologueInv' /\ ResultInv'
  BY <1>3 DEF CallerInv, PrologueInv, ResultInv, ReturnReaches
<1> QED
  BY <1>7, <1>8, <1>9, <1>10, <1>18, <1>20, <1>21, <1>22 DEF FrameInv, RunInv

-----------------------------------------------------------------------------
(* The body.                                                               *)
LEMMA LocalSlotIs ==
  ASSUME FrameInv, pc = "body", NEW j \in 1..Len(call.locals)
  PROVE  /\ <<"local", j>> \in DOMAIN slots /\ LocalOff(j) = Off(<<"local", j>>)
         /\ slots[<<"local", j>>].size = LocalBytes(call.locals[j])
         /\ LocalOff(j) \in Nat /\ 16 <= LocalOff(j)
         /\ LocalBytes(call.locals[j]) \in Nat \ {0}
         /\ LocalOff(j) + LocalBytes(call.locals[j]) <= offset
         /\ call.variadic => LocalOff(j) >= 80
<1>1. <<"local", j>> \in DOMAIN slots /\ slots[<<"local", j>>].size = LocalBytes(call.locals[j])
  BY LaidOut
<1>4. PICK id : id = <<"local", j>>
  OBVIOUS
<1>2. id = <<"local", j>> /\ id[1] # "param"
  BY <1>4
<1>3. /\ Off(id) \in Nat /\ slots[id].size \in Nat \ {0}
      /\ 16 <= Off(id) /\ Off(id) + slots[id].size <= offset
      /\ call.variadic => Off(id) >= 80
  BY <1>1, <1>2, SlotIs
<1> QED
  BY <1>1, <1>2, <1>3 DEF LocalOff

(* Two locals of a body share no byte.                                     *)
LEMMA LocalsApart ==
  ASSUME FrameInv, pc = "body", NEW i \in 1..Len(call.locals), NEW j \in 1..Len(call.locals), i # j
  PROVE  \/ LocalOff(i) + LocalBytes(call.locals[i]) <= LocalOff(j)
         \/ LocalOff(j) + LocalBytes(call.locals[j]) <= LocalOff(i)
<1>4. PICK a, b : a = <<"local", i>> /\ b = <<"local", j>>
  OBVIOUS
<1>1. a = <<"local", i>> /\ b = <<"local", j>> /\ a # b
  BY <1>4
<1>2. /\ a \in DOMAIN slots /\ LocalOff(i) = Off(a)
      /\ slots[a].size = LocalBytes(call.locals[i])
  BY <1>1, LocalSlotIs
<1>3. /\ b \in DOMAIN slots /\ LocalOff(j) = Off(b)
      /\ slots[b].size = LocalBytes(call.locals[j])
  BY <1>1, LocalSlotIs
<1> QED
  BY <1>1, <1>2, <1>3, SlotsApart

(* A write that stays out of the frame, or in the slots of locals, leaves  *)
(* what the function was given.                                            *)
LEMMA KeptNext ==
  ASSUME FrameInv, pc = "body", UNCHANGED <<call, slots, offset>>, Regular,
         \A b \in Nat : \/ Read(mem', b) = Read(mem, b)
                        \/ \E j \in 1..Len(call.locals) :
                             LocalOff(j) <= b /\ b < LocalOff(j) + LocalBytes(call.locals[j])
  PROVE  KeptInv'
<1>1. Types /\ KeptInv
  BY DEF FrameInv, RunInv
<1>2. /\ call \in Calls /\ n \in Nat /\ Len(call.extra) \in Nat
      /\ Len(call.locals) \in Nat /\ RegsNeeded \in Nat
  BY <1>1, CallIs, NeededIs DEF Types
<1>3. /\ n' = n /\ RegsNeeded' = RegsNeeded /\ (AllInt' <=> AllInt)
      /\ (Claimed' <=> Claimed) /\ (ExtraClaimed' <=> ExtraClaimed)
  BY CallSame
<1>4. /\ Read(mem, 0) = CallerFP /\ Read(mem, 8) = CallerLR
      /\ call.ret > 16 /\ ~call.ptr => Read(mem, Off(X8Slot)) = DestPtr
      /\ Claimed /\ (call.variadic => AllInt) => \A i \in 1..n : Arrived(i)
      /\ ExtraClaimed => \A i \in 1..Len(call.extra) :
           RegsNeeded + i <= 8 => Read(mem, 16 + 8 * (RegsNeeded + i - 1)) = Arg(n + i, 1)
  BY <1>1 DEF KeptInv
<1>5. ASSUME NEW b \in Nat, b < 16 \/ (call.variadic /\ b < 80)
      PROVE  Read(mem', b) = Read(mem, b)
  <2> SUFFICES ASSUME NEW j \in 1..Len(call.locals), LocalOff(j) <= b
               PROVE  FALSE
    OBVIOUS
  <2>1. LocalOff(j) \in Nat /\ 16 <= LocalOff(j) /\ (call.variadic => LocalOff(j) >= 80)
    BY LocalSlotIs
  <2> QED
    BY <1>5, <2>1
<1>6. ASSUME NEW id \in DOMAIN slots, \A j \in 1..Len(call.locals) : id # <<"local", j>>,
             NEW b \in Int, Off(id) <= b, b < Off(id) + slots[id].size
      PROVE  Read(mem', b) = Read(mem, b)
  <2>1. Off(id) \in Nat /\ slots[id].size \in Nat
    BY <1>6, SlotIs
  <2>2. b \in Nat
    BY <1>6, <2>1
  <2> SUFFICES ASSUME NEW j \in 1..Len(call.locals), LocalOff(j) <= b,
                      b < LocalOff(j) + LocalBytes(call.locals[j])
               PROVE  FALSE
    BY <2>2
  <2>3. PICK e : e = <<"local", j>>
    OBVIOUS
  <2>4. /\ e \in DOMAIN slots /\ LocalOff(j) = Off(e) /\ slots[e].size = LocalBytes(call.locals[j])
        /\ LocalOff(j) \in Nat /\ LocalBytes(call.locals[j]) \in Nat
    BY <2>3, LocalSlotIs
  <2>5. Off(id) + slots[id].size <= Off(e) \/ Off(e) + slots[e].size <= Off(id)
    BY <1>6, <2>3, <2>4, SlotsApart
  <2> QED
    BY <1>6, <2>1, <2>4, <2>5
<1>7. Read(mem', 0) = CallerFP /\ Read(mem', 8) = CallerLR
  BY <1>4, <1>5
<1>8. call.ret > 16 /\ ~call.ptr => Read(mem', Off(X8Slot)) = DestPtr
  <2> SUFFICES ASSUME call.ret > 16, ~call.ptr
               PROVE  Read(mem', Off(X8Slot)) = Read(mem, Off(X8Slot))
    BY <1>4
  <2>1. X8Slot \in DOMAIN slots
    BY LaidOut
  <2>2. Off(X8Slot) \in Nat /\ slots[X8Slot].size \in Nat \ {0}
    BY <2>1, SlotIs
  <2>3. Off(X8Slot) \in Int /\ Off(X8Slot) <= Off(X8Slot)
          /\ Off(X8Slot) < Off(X8Slot) + slots[X8Slot].size
    BY <2>2
  <2>4. \A j \in 1..Len(call.locals) : X8Slot # <<"local", j>>
    BY DEF X8Slot
  <2> QED
    BY <1>6, <2>1, <2>3, <2>4
<1>9. ASSUME Claimed, call.variadic => AllInt, NEW i \in 1..n
      PROVE  Arrived(i)'
  <2>1. PICK id : id = <<"param", i>>
    OBVIOUS
  <2>2. id \in DOMAIN slots /\ \A j \in 1..Len(call.locals) : id # <<"local", j>>
    BY <2>1, LaidOut
  <2>3. \A b \in Int : Off(id) <= b /\ b < Off(id) + slots[id].size => Read(mem', b) = Read(mem, b)
    BY <1>6, <2>2
  <2>4. Arrived(i)
    BY <1>4, <1>9
  <2> QED
    BY <2>1, <2>3, <2>4, ArrivedKept
<1>10. ASSUME ExtraClaimed, NEW i \in 1..Len(call.extra), RegsNeeded + i <= 8
       PROVE  Read(mem', 16 + 8 * (RegsNeeded + i - 1)) = Arg(n + i, 1)
  <2>1. PICK b \in Nat : b = 16 + 8 * (RegsNeeded + i - 1) /\ b < 80
    BY <1>2, <1>10
  <2>2. call.variadic
    BY <1>10 DEF ExtraClaimed
  <2>3. Read(mem, b) = Arg(n + i, 1)
    BY <1>4, <1>10, <2>1
  <2> QED
    BY <1>5, <2>1, <2>2, <2>3
<1>11. Off(X8Slot)' = Off(X8Slot)
  BY DEF Off, X8Slot
<1> QED
  BY <1>3, <1>7, <1>8, <1>9, <1>10, <1>11
  DEF KeptInv, Read, Junk, CallerFP, CallerLR, DestPtr, Arg

(* Whether a frame is regular depends on the call and its size.            *)
LEMMA RegularSame ==
  ASSUME call' = call, offset' = offset
  PROVE  Regular' <=> Regular
  BY DEF Regular, frameSize

(* A step of the body.                                                     *)
LEMMA BodyPhase ==
  ASSUME FrameInv, pc = "body", pc' = "body",
         UNCHANGED <<call, k, frameVars, iIdx, fIdx, fp>>,
         x' = [r \in 0..18 |-> x'[r]], d' = [r \in 0..7 |-> d'[r]],
         \A r \in 0..18 : x'[r][1] # "sp", \A r \in 0..7 : d'[r][1] # "sp",
         DOMAIN mem' \subseteq Int, \A a \in DOMAIN mem' : mem'[a][1] = "sp" => mem'[a][2] \in Int,
         sp' \in Int, sp' <= 0, hasVLA \/ sp' = 0,
         stored' \subseteq 1..Len(call.locals), UNCHANGED <<ap, got>>,
         Regular => KeptInv' /\ DynamicInv' /\ StoredInv'
  PROVE  FrameInv'
<1>1. Types /\ ValuesInv /\ StackInv /\ BuildInv /\ GotInv
  BY DEF FrameInv, RunInv
<1>2. call' = call /\ slots' = slots /\ offset' = offset
  BY DEF frameVars
<1>3. Types'
  BY <1>1, <1>2, Zenon DEF Types
<1>4. ValuesInv'
  BY <1>1 DEF ValuesInv
<1>5. /\ n' = n /\ RegsNeeded' = RegsNeeded
      /\ (ExtraClaimed' <=> ExtraClaimed) /\ (hasVLA' <=> hasVLA) /\ (Regular' <=> Regular)
  BY <1>2, CallSame, RegularSame
<1>6. StackInv'
  BY <1>1, <1>2, <1>5 DEF StackInv
<1>7. BuildInv'
  BY <1>1, <1>2, BuildKept
<1>8. GotInv'
  BY <1>1, <1>5 DEF GotInv, Arg
<1>9. KeptInv' /\ DynamicInv' /\ StoredInv'
  BY <1>5 DEF KeptInv, DynamicInv, StoredInv
<1>10. CallerInv' /\ PrologueInv' /\ ResultInv'
  BY DEF CallerInv, PrologueInv, ResultInv, ReturnReaches
<1> QED
  BY <1>3, <1>4, <1>6, <1>7, <1>8, <1>9, <1>10 DEF FrameInv, RunInv

(* Where locals are.                                                       *)
LEMMA BodyStack ==
  ASSUME FrameInv, pc = "body"
  PROVE  fp = 0 /\ frameBase = 0 /\ sp \in Int /\ sp <= 0 /\ (hasVLA \/ sp = 0)
  BY DEF FrameInv, Types, StackInv, frameBase

(* The body computes the address of a local that buildFrame chose.         *)
LEMMA AddressIs ==
  ASSUME FrameInv, pc = "body", NEW j \in 1..Len(call.locals)
  PROVE  /\ fp + LocalOff(j) = LocalOff(j)
         /\ (Dynamic(call.locals[j]) <=> j \in VLAs)
         /\ j \in VLAs => LocalAddress(j) = Base(j)
         /\ j \notin VLAs => LocalAddress(j) \in Int
         /\ Regular => LocalAddress(j) = Address(j)
<1>1. fp = 0 /\ frameBase = 0
  BY BodyStack
<1>2. /\ LocalOff(j) \in Nat /\ LocalBytes(call.locals[j]) \in Nat \ {0}
      /\ LocalOff(j) + LocalBytes(call.locals[j]) <= offset
  BY LocalSlotIs
<1>3. offset \in Nat
  BY DEF FrameInv, Types
<1>4. fp + LocalOff(j) = LocalOff(j) /\ (Dynamic(call.locals[j]) <=> j \in VLAs)
  BY <1>1, <1>2 DEF VLAs
<1>5. j \in VLAs => LocalAddress(j) = Base(j)
  BY <1>4 DEF LocalAddress, Base
<1>6. encADDimm(LocalOff(j)) \in Int
  BY <1>2 DEF encADDimm
<1>7. j \notin VLAs => /\ \/ LocalAddress(j) = 0 + encADDimm(LocalOff(j))
                          \/ LocalAddress(j) = 0 + LocalOff(j)
                       /\ LocalAddress(j) \in Int
  BY <1>1, <1>2, <1>4, <1>6 DEF LocalAddress
<1>8. Regular => encADDimm(LocalOff(j)) = LocalOff(j)
  BY <1>2, <1>3 DEF Regular, frameSize, encADDimm
<1>9. Regular => LocalAddress(j) = Address(j)
  BY <1>2, <1>5, <1>7, <1>8 DEF Address
<1> QED
  BY <1>4, <1>5, <1>7, <1>9

(* The words of a local: in its slot, or below the frame and above SP.     *)
LEMMA RegionIs ==
  ASSUME FrameInv, pc = "body", Regular, NEW j \in 1..Len(call.locals), j \in VLAs => Allocated(j)
  PROVE  /\ Address(j) \in Int /\ Size(call.locals[j]) \in Nat
         /\ j \notin VLAs => /\ Address(j) = LocalOff(j)
                             /\ 8 * Size(call.locals[j]) = LocalBytes(call.locals[j])
         /\ j \in VLAs => /\ Address(j) = Base(j) /\ sp <= Address(j)
                          /\ VLABytes(call.locals[j]) \in Nat
                          /\ 8 * Size(call.locals[j]) <= VLABytes(call.locals[j])
                          /\ Address(j) + VLABytes(call.locals[j]) <= 0
<1>1. PICK l : l = call.locals[j]
  OBVIOUS
<1>2. local(l) /\ l.kind # "structArray"
  BY <1>1, LocalIs DEF FrameInv, Types, Regular
<1>3. Size(l) \in Nat /\ VLABytes(l) \in Nat
  BY <1>2, SizeIs, VLABytesIs
<1>4. (~Dynamic(l) => 8 * Size(l) = LocalBytes(l)) /\ (Dynamic(l) => 8 * Size(l) <= VLABytes(l))
  BY <1>2, SizeFits
<1>5. Dynamic(l) <=> j \in VLAs
  BY <1>1, AddressIs
<1>6. LocalOff(j) \in Nat
  BY LocalSlotIs
<1>7. CASE j \in VLAs
  BY <1>1, <1>3, <1>4, <1>5, <1>7 DEF Address, Allocated
<1>8. CASE j \notin VLAs
  BY <1>1, <1>3, <1>4, <1>5, <1>6, <1>8 DEF Address
<1> QED
  BY <1>7, <1>8

(* What the body writes through two locals never meets.                    *)
LEMMA RegionsApart ==
  ASSUME FrameInv, pc = "body", Regular,
         NEW i \in 1..Len(call.locals), i \in VLAs => Allocated(i),
         NEW j \in 1..Len(call.locals), j \in VLAs => Allocated(j), i # j
  PROVE  \/ Address(i) + 8 * Size(call.locals[i]) <= Address(j)
         \/ Address(j) + 8 * Size(call.locals[j]) <= Address(i)
<1>2. /\ Address(i) \in Int /\ Size(call.locals[i]) \in Nat
      /\ Address(j) \in Int /\ Size(call.locals[j]) \in Nat
  BY RegionIs
<1>1. PICK ai \in Int, aj \in Int, si \in Nat, sj \in Nat :
        /\ ai = Address(i) /\ aj = Address(j)
        /\ si = Size(call.locals[i]) /\ sj = Size(call.locals[j])
  BY <1>2
<1>3. CASE i \notin VLAs /\ j \notin VLAs
  <2>1. ai = LocalOff(i) /\ 8 * si = LocalBytes(call.locals[i])
    BY <1>1, <1>3, RegionIs
  <2>2. aj = LocalOff(j) /\ 8 * sj = LocalBytes(call.locals[j])
    BY <1>1, <1>3, RegionIs
  <2> QED
    BY <1>1, <2>1, <2>2, LocalsApart
<1>4. CASE i \in VLAs /\ j \notin VLAs
  <2>1. PICK v \in Nat : 8 * si <= v /\ ai + v <= 0
    BY <1>1, <1>4, RegionIs
  <2>2. aj \in Nat
    BY <1>1, <1>4, RegionIs, LocalSlotIs
  <2>3. ai + 8 * si <= aj
    BY <2>1, <2>2
  <2> QED
    BY <1>1, <2>3
<1>5. CASE i \notin VLAs /\ j \in VLAs
  <2>1. PICK v \in Nat : 8 * sj <= v /\ aj + v <= 0
    BY <1>1, <1>5, RegionIs
  <2>2. ai \in Nat
    BY <1>1, <1>5, RegionIs, LocalSlotIs
  <2>3. aj + 8 * sj <= ai
    BY <2>1, <2>2
  <2> QED
    BY <1>1, <2>3
<1>6. CASE i \in VLAs /\ j \in VLAs
  <2>1. PICK v \in Nat : v = VLABytes(call.locals[i]) /\ 8 * si <= v /\ ai = Base(i)
    BY <1>1, <1>6, RegionIs
  <2>2. PICK u \in Nat : u = VLABytes(call.locals[j]) /\ 8 * sj <= u /\ aj = Base(j)
    BY <1>1, <1>6, RegionIs
  <2>3. Base(i) + VLABytes(call.locals[i]) <= Base(j) \/ Base(j) + VLABytes(call.locals[j]) <= Base(i)
    BY <1>6 DEF FrameInv, RunInv, DynamicInv
  <2>4. ai + v <= aj \/ aj + u <= ai
    BY <2>1, <2>2, <2>3
  <2>5. ai + 8 * si <= aj \/ aj + 8 * sj <= ai
    BY <2>1, <2>2, <2>4
  <2> QED
    BY <1>1, <2>5
<1> QED
  BY <1>3, <1>4, <1>5, <1>6

(* A step that leaves the slots of the VLAs and SP alone.                  *)
LEMMA DynamicSame ==
  ASSUME FrameInv, pc = "body", Regular, UNCHANGED <<call, slots, sp>>,
         \A j \in VLAs : Read(mem', LocalOff(j)) = Read(mem, LocalOff(j))
  PROVE  /\ DynamicInv'
         /\ \A j \in VLAs : Base(j)' = Base(j) /\ (Allocated(j)' <=> Allocated(j))
<1>1. DynamicInv
  BY DEF FrameInv, RunInv
<1>2. VLAs' = VLAs
  BY CallSame
<1>3. \A j \in VLAs : Read(mem, LocalOff(j))' = Read(mem, LocalOff(j))
  BY DEF Read, Junk, LocalOff, Off
<1>4. \A j \in VLAs : Base(j)' = Base(j)
  BY <1>3 DEF Base
<1>5. \A j \in VLAs : Allocated(j)' <=> Allocated(j)
  BY <1>3, <1>4 DEF Allocated
<1>6. DynamicInv'
  BY <1>1, <1>2, <1>3, <1>4, <1>5 DEF DynamicInv, Junk
<1> QED
  BY <1>4, <1>5, <1>6

(* What a step must leave of the locals that have been stored.             *)
LEMMA StoredKept ==
  ASSUME FrameInv, pc = "body", Regular, UNCHANGED <<call, slots>>, NEW i \in stored,
         i \in VLAs => Allocated(i)' /\ Base(i)' = Base(i),
         \A b \in Int : Address(i) <= b /\ b < Address(i) + 8 * Size(call.locals[i]) =>
           Read(mem', b) = Read(mem, b)
  PROVE  /\ i \in VLAs => Allocated(i)'
         /\ \A w \in 1..Size(call.locals[i]) :
              Read(mem', Address(i)' + 8 * (w - 1)) = <<"word", i, w>>
<1>1. /\ i \in VLAs => Allocated(i)
      /\ \A w \in 1..Size(call.locals[i]) : Read(mem, Address(i) + 8 * (w - 1)) = <<"word", i, w>>
  BY DEF FrameInv, RunInv, StoredInv
<1>2. i \in 1..Len(call.locals)
  BY DEF FrameInv, Types
<1>3. PICK a \in Int, s \in Nat : a = Address(i) /\ s = Size(call.locals[i])
  BY <1>1, <1>2, RegionIs
<1>4. VLAs' = VLAs
  BY CallSame
<1>5. Address(i)' = a
  BY <1>3, <1>4 DEF Address, LocalOff, Off
<1>6. \A w \in 1..s : a + 8 * (w - 1) \in Int /\ a <= a + 8 * (w - 1) /\ a + 8 * (w - 1) < a + 8 * s
  OBVIOUS
<1> QED
  BY <1>1, <1>3, <1>5, <1>6

(* The body stores to a local.                                             *)
LEMMA StoreLocalInv ==
  ASSUME FrameInv, NEW j \in 1..Len(call.locals), StoreLocal(j)
  PROVE  FrameInv'
<1>1. Types /\ ValuesInv
  BY DEF FrameInv
<1>2. call \in Calls /\ Len(call.locals) \in Nat
  BY <1>1, CallIs DEF Types
<1>3. /\ pc = "body" /\ pc' = "body" /\ call' = call /\ slots' = slots /\ offset' = offset
      /\ x' = x /\ d' = d /\ sp' = sp /\ stored' = stored \cup {j}
      /\ UNCHANGED <<call, k, frameVars, iIdx, fIdx, fp>> /\ UNCHANGED <<ap, got>>
  BY DEF StoreLocal, frameVars, regs
<1>4. PICK s \in Nat : s = Size(call.locals[j])
  BY <1>2, LocalIs, SizeIs
<1>5. /\ fp + LocalOff(j) = LocalOff(j)
      /\ (Dynamic(call.locals[j]) <=> j \in VLAs)
      /\ j \in VLAs => LocalAddress(j) = Base(j)
      /\ j \notin VLAs => LocalAddress(j) \in Int
      /\ Regular => LocalAddress(j) = Address(j)
  BY <1>3, AddressIs
<1>6. j \in VLAs => Read(mem, LocalOff(j))[1] = "sp" /\ LocalAddress(j) \in Int
  <2> SUFFICES ASSUME j \in VLAs
               PROVE  Read(mem, LocalOff(j))[1] = "sp" /\ Base(j) \in Int
    BY <1>5
  <2>1. Read(mem, LocalOff(j))[1] = "sp"
    BY <1>5 DEF StoreLocal
  <2>2. LocalOff(j) \in DOMAIN mem
    BY <2>1 DEF Read, Junk
  <2> QED
    BY <1>1, <2>1, <2>2 DEF ValuesInv, Base, Read
<1>7. PICK a \in Int : a = LocalAddress(j)
  BY <1>5, <1>6
<1> DEFINE vs == [w \in 1..s |-> <<"word", j, w>>]
<1>8. mem' = WriteWords(mem, a, vs)
  BY <1>4, <1>7 DEF StoreLocal
<1>9. Len(vs) = s /\ (\A w \in 1..s : vs[w][1] # "sp") /\ \A w \in 1..s : vs[w] = <<"word", j, w>>
  BY <1>4
<1> HIDE DEF vs
<1>10. /\ DOMAIN mem' \subseteq Int
       /\ \A b \in DOMAIN mem' : mem'[b][1] = "sp" => mem'[b][2] \in Int
       /\ \A w \in 1..s : Read(mem', a + 8 * (w - 1)) = vs[w]
       /\ \A b \in Int : b < a \/ a + 8 * s <= b => Read(mem', b) = Read(mem, b)
  BY <1>1, <1>8, <1>9, MemWords
<1>11. ASSUME Regular
       PROVE  KeptInv' /\ DynamicInv' /\ StoredInv'
  <2>1. a = Address(j)
    BY <1>5, <1>7, <1>11
  <2>2. j \in VLAs => Allocated(j)
    <3> SUFFICES ASSUME j \in VLAs PROVE Allocated(j)
      OBVIOUS
    <3>1. Read(mem, LocalOff(j)) = Junk \/ Allocated(j)
      BY <1>3, <1>11 DEF FrameInv, RunInv, DynamicInv
    <3>2. Read(mem, LocalOff(j)) # Junk
      BY <1>6 DEF Junk
    <3> QED
      BY <3>1, <3>2
  <2>3. /\ j \notin VLAs => a = LocalOff(j) /\ 8 * s = LocalBytes(call.locals[j])
        /\ j \in VLAs => a + 8 * s <= 0
    <3>1. j \notin VLAs => a = LocalOff(j) /\ 8 * s = LocalBytes(call.locals[j])
      BY <1>3, <1>4, <1>11, <2>1, <2>2, RegionIs
    <3>2. ASSUME j \in VLAs PROVE a + 8 * s <= 0
      <4>1. PICK v \in Nat : 8 * s <= v /\ a + v <= 0
        BY <1>3, <1>4, <1>11, <2>1, <2>2, <3>2, RegionIs
      <4> QED
        BY <4>1
    <3> QED
      BY <3>1, <3>2
  <2>4. KeptInv'
    <3>1. ASSUME NEW b \in Nat
          PROVE  \/ Read(mem', b) = Read(mem, b)
                 \/ \E q \in 1..Len(call.locals) :
                      LocalOff(q) <= b /\ b < LocalOff(q) + LocalBytes(call.locals[q])
      <4>1. CASE j \in VLAs
        <5>1. a + 8 * s <= b
          BY <2>3, <4>1
        <5> QED
          BY <1>10, <5>1
      <4>2. CASE j \notin VLAs
        <5>1. CASE b < a \/ a + 8 * s <= b
          BY <1>10, <5>1
        <5>2. CASE ~(b < a \/ a + 8 * s <= b)
          <6>1. a <= b /\ b < a + 8 * s
            BY <5>2
          <6> QED
            BY <2>3, <4>2, <6>1
        <5> QED
          BY <5>1, <5>2
      <4> QED
        BY <4>1, <4>2
    <3> QED
      BY <1>3, <1>11, <3>1, KeptNext
  <2>5. ASSUME NEW i \in VLAs
        PROVE  Read(mem', LocalOff(i)) = Read(mem, LocalOff(i))
    <3>1. i \in 1..Len(call.locals)
      BY DEF VLAs
    <3>2. LocalOff(i) \in Nat /\ LocalBytes(call.locals[i]) \in Nat \ {0}
      BY <1>3, <3>1, LocalSlotIs
    <3>3. CASE j \in VLAs
      <4>1. a + 8 * s <= LocalOff(i)
        BY <2>3, <3>2, <3>3
      <4> QED
        BY <1>10, <3>2, <4>1
    <3>4. CASE j \notin VLAs
      <4>1. i # j
        BY <3>4
      <4>2. LocalOff(i) + LocalBytes(call.locals[i]) <= a \/ a + 8 * s <= LocalOff(i)
        BY <1>3, <2>3, <3>1, <3>4, <4>1, LocalsApart
      <4>3. LocalOff(i) < a \/ a + 8 * s <= LocalOff(i)
        BY <3>2, <4>2
      <4> QED
        BY <1>10, <3>2, <4>3
    <3> QED
      BY <3>3, <3>4
  <2>6. /\ DynamicInv'
        /\ \A i \in VLAs : Base(i)' = Base(i) /\ (Allocated(i)' <=> Allocated(i))
    BY <1>3, <1>11, <2>5, DynamicSame
  <2>7. /\ j \in VLAs => Allocated(j)'
        /\ \A w \in 1..s : Read(mem', Address(j)' + 8 * (w - 1)) = <<"word", j, w>>
    <3>1. VLAs' = VLAs
      BY <1>3, CallSame
    <3>2. Address(j)' = a
      BY <1>3, <2>1, <2>6, <3>1 DEF Address, LocalOff, Off
    <3> QED
      BY <1>9, <1>10, <2>2, <2>6, <3>2
  <2>8. ASSUME NEW i \in stored, i # j
        PROVE  /\ i \in VLAs => Allocated(i)'
               /\ \A w \in 1..Size(call.locals[i]) :
                    Read(mem', Address(i)' + 8 * (w - 1)) = <<"word", i, w>>
    <3>1. i \in 1..Len(call.locals)
      BY <1>1 DEF Types
    <3>2. i \in VLAs => Allocated(i)
      BY <1>3, <1>11 DEF FrameInv, RunInv, StoredInv
    <3>3. Address(i) \in Int /\ Size(call.locals[i]) \in Nat
      BY <1>3, <1>11, <3>1, <3>2, RegionIs
    <3>4. Address(i) + 8 * Size(call.locals[i]) <= a \/ a + 8 * s <= Address(i)
      BY <1>3, <1>4, <1>11, <2>1, <2>2, <2>8, <3>1, <3>2, RegionsApart
    <3>5. \A b \in Int : Address(i) <= b /\ b < Address(i) + 8 * Size(call.locals[i]) =>
            b < a \/ a + 8 * s <= b
      <4>1. PICK u \in Int, z \in Nat : u = Address(i) /\ z = Size(call.locals[i])
        BY <3>3
      <4>2. u + 8 * z <= a \/ a + 8 * s <= u
        BY <3>4, <4>1
      <4>3. \A b \in Int : u <= b /\ b < u + 8 * z => b < a \/ a + 8 * s <= b
        BY <4>2
      <4> QED
        BY <4>1, <4>3
    <3>6. \A b \in Int : Address(i) <= b /\ b < Address(i) + 8 * Size(call.locals[i]) =>
            Read(mem', b) = Read(mem, b)
      BY <1>10, <3>5
    <3>7. i \in VLAs => Allocated(i)' /\ Base(i)' = Base(i)
      BY <2>6, <3>2
    <3> QED
      BY <1>3, <1>11, <3>6, <3>7, StoredKept
  <2>9. StoredInv'
    <3>1. VLAs' = VLAs
      BY <1>3, CallSame
    <3>2. ASSUME NEW i \in stored'
          PROVE  /\ i \in VLAs' => Allocated(i)'
                 /\ \A w \in 1..Size(call'.locals[i]) :
                      Read(mem', Address(i)' + 8 * (w - 1)) = <<"word", i, w>>
      <4>1. CASE i = j
        BY <1>3, <1>4, <2>7, <3>1, <4>1
      <4>2. CASE i # j
        BY <1>3, <2>8, <3>1, <4>2
      <4> QED
        BY <4>1, <4>2
    <3> QED
      BY <3>2 DEF StoredInv, Read, Junk
  <2> QED
    BY <2>4, <2>6, <2>9
<1>12. /\ x' = [r \in 0..18 |-> x'[r]] /\ d' = [r \in 0..7 |-> d'[r]]
       /\ (\A r \in 0..18 : x'[r][1] # "sp") /\ (\A r \in 0..7 : d'[r][1] # "sp")
  BY <1>1, <1>3 DEF Types, ValuesInv
<1>13. sp' \in Int /\ sp' <= 0 /\ (hasVLA \/ sp' = 0)
  BY <1>3, BodyStack
<1>14. stored' \subseteq 1..Len(call.locals)
  BY <1>1, <1>3 DEF Types
<1> QED
  BY <1>3, <1>10, <1>11, <1>12, <1>13, <1>14, BodyPhase

(* The body allocates a VLA or calls alloca.                               *)
LEMMA AllocVLAInv ==
  ASSUME FrameInv, NEW j \in 1..Len(call.locals), AllocVLA(j)
  PROVE  FrameInv'
<1>1. Types /\ ValuesInv
  BY DEF FrameInv
<1>2. call \in Calls /\ Len(call.locals) \in Nat
  BY <1>1, CallIs DEF Types
<1>3. /\ pc = "body" /\ pc' = "body" /\ call' = call /\ slots' = slots /\ offset' = offset
      /\ x' = x /\ d' = d /\ stored' = stored \ {j}
      /\ UNCHANGED <<call, k, frameVars, iIdx, fIdx, fp>> /\ UNCHANGED <<ap, got>>
  BY DEF AllocVLA, frameVars, regs
<1>4. PICK v \in Nat : v = VLABytes(call.locals[j])
  BY <1>2, LocalIs, VLABytesIs
<1>5. fp + LocalOff(j) = LocalOff(j) /\ j \in VLAs
  <2>1. Dynamic(call.locals[j])
    BY DEF AllocVLA
  <2>2. fp + LocalOff(j) = LocalOff(j) /\ (Dynamic(call.locals[j]) <=> j \in VLAs)
    BY <1>3, AddressIs
  <2> QED
    BY <2>1, <2>2
<1>6. PICK o \in Nat : /\ o = LocalOff(j) /\ LocalBytes(call.locals[j]) \in Nat \ {0}
                       /\ o < o + LocalBytes(call.locals[j])
  <2>1. LocalOff(j) \in Nat /\ LocalBytes(call.locals[j]) \in Nat \ {0}
    BY <1>3, LocalSlotIs
  <2>2. LocalOff(j) < LocalOff(j) + LocalBytes(call.locals[j])
    BY <2>1
  <2> QED
    BY <2>1, <2>2
<1>7. /\ sp' = sp - v /\ mem' = Write(mem, o, <<"sp", sp'>>)
  BY <1>4, <1>5, <1>6 DEF AllocVLA
<1>8. sp \in Int /\ sp <= 0 /\ hasVLA
  BY <1>3, <1>5, BodyStack DEF hasVLA, VLAs
<1>9. PICK t \in Int : t = sp' /\ t = sp - v /\ t <= sp /\ t + v = sp
  BY <1>7, <1>8
<1>10. Read(mem', o) = <<"sp", t>> /\ \A b : b # o => Read(mem', b) = Read(mem, b)
  BY <1>7, <1>9, MemWrite
<1>11. /\ DOMAIN mem' \subseteq Int
       /\ \A b \in DOMAIN mem' : mem'[b][1] = "sp" => mem'[b][2] \in Int
  <2>1. o \in Int /\ (<<"sp", t>>[1] = "sp" => <<"sp", t>>[2] \in Int)
    OBVIOUS
  <2> QED
    BY <1>1, <1>7, <1>9, <2>1, WriteValues
<1>12. ASSUME Regular
       PROVE  KeptInv' /\ DynamicInv' /\ StoredInv'
  <2>1. KeptInv'
    <3>1. ASSUME NEW b \in Nat
          PROVE  \/ Read(mem', b) = Read(mem, b)
                 \/ \E q \in 1..Len(call.locals) :
                      LocalOff(q) <= b /\ b < LocalOff(q) + LocalBytes(call.locals[q])
      <4>1. CASE b # o
        BY <1>10, <4>1
      <4>2. CASE b = o
        <5>1. LocalOff(j) <= b /\ b < LocalOff(j) + LocalBytes(call.locals[j])
          BY <1>6, <4>2
        <5> QED
          BY <5>1
      <4> QED
        BY <4>1, <4>2
    <3> QED
      BY <1>3, <1>12, <3>1, KeptNext
  <2>2. ASSUME NEW i \in VLAs, i # j
        PROVE  Read(mem', LocalOff(i)) = Read(mem, LocalOff(i))
    <3>1. i \in 1..Len(call.locals)
      BY DEF VLAs
    <3>2. LocalOff(i) \in Nat /\ LocalBytes(call.locals[i]) \in Nat \ {0}
      BY <1>3, <3>1, LocalSlotIs
    <3>3. LocalOff(i) # o
      BY <1>3, <1>6, <2>2, <3>1, <3>2, LocalsApart
    <3> QED
      BY <1>10, <3>3
  <2>3. VLAs' = VLAs
    BY <1>3, CallSame
  <2>4. \A i : LocalOff(i)' = LocalOff(i)
    BY <1>3 DEF LocalOff, Off
  <2>5. ASSUME NEW i \in VLAs, i # j
        PROVE  Base(i)' = Base(i) /\ (Allocated(i)' <=> Allocated(i))
               /\ Read(mem, LocalOff(i))' = Read(mem, LocalOff(i))
    <3>1. Read(mem, LocalOff(i))' = Read(mem, LocalOff(i))
      BY <2>2, <2>4, <2>5 DEF Read, Junk
    <3>2. Base(i)' = Base(i)
      BY <3>1 DEF Base
    <3>3. Read(mem, LocalOff(i)) = Junk \/ Allocated(i)
      BY <1>3, <1>12 DEF FrameInv, RunInv, DynamicInv
    <3>4. CASE Read(mem, LocalOff(i)) = Junk
      BY <3>1, <3>2, <3>4 DEF Allocated, Junk
    <3>5. CASE Allocated(i)
      <4>1. Base(i) \in Int /\ t <= Base(i)
        BY <1>8, <1>9, <3>5 DEF Allocated
      <4> QED
        BY <1>3, <1>9, <3>1, <3>2, <3>5, <4>1 DEF Allocated
    <3> QED
      BY <3>1, <3>2, <3>3, <3>4, <3>5
  <2>6. Base(j)' = t /\ Allocated(j)'
    <3>1. Read(mem, LocalOff(j))' = <<"sp", t>>
      BY <1>6, <1>10, <2>4 DEF Read, Junk
    <3>2. Base(j)' = t
      BY <3>1 DEF Base
    <3>3. VLABytes(call.locals[j])' = v
      BY <1>3, <1>4
    <3> QED
      BY <1>8, <1>9, <3>1, <3>2, <3>3 DEF Allocated
  <2>7. DynamicInv
    BY DEF FrameInv, RunInv
  <2>8. ASSUME NEW i \in VLAs
        PROVE  Read(mem, LocalOff(i))' = Junk \/ Allocated(i)'
    <3>1. CASE i = j
      BY <2>6, <3>1
    <3>2. CASE i # j
      <4>1. Read(mem, LocalOff(i)) = Junk \/ Allocated(i)
        BY <1>3, <1>12, <2>7 DEF DynamicInv
      <4> QED
        BY <2>5, <3>2, <4>1
    <3> QED
      BY <3>1, <3>2
  <2>9. ASSUME NEW i \in VLAs, i # j, Allocated(i)'
        PROVE  Base(j)' + VLABytes(call.locals[j]) <= Base(i)'
    <3>1. Allocated(i) /\ Base(i)' = Base(i)
      BY <2>5, <2>9
    <3>2. sp <= Base(i)
      BY <3>1 DEF Allocated
    <3> QED
      BY <1>4, <1>9, <2>6, <3>1, <3>2
  <2>10. ASSUME NEW i \in VLAs, NEW q \in VLAs, i # q, Allocated(i)', Allocated(q)'
         PROVE  \/ Base(i)' + VLABytes(call.locals[i]) <= Base(q)'
                \/ Base(q)' + VLABytes(call.locals[q]) <= Base(i)'
    <3>1. CASE i = j
      BY <2>9, <2>10, <3>1
    <3>2. CASE q = j
      BY <2>9, <2>10, <3>2
    <3>3. CASE i # j /\ q # j
      <4>1. Allocated(i) /\ Allocated(q) /\ Base(i)' = Base(i) /\ Base(q)' = Base(q)
        BY <2>5, <2>10, <3>3
      <4>2. \/ Base(i) + VLABytes(call.locals[i]) <= Base(q)
            \/ Base(q) + VLABytes(call.locals[q]) <= Base(i)
        BY <1>3, <1>12, <2>7, <2>10, <4>1 DEF DynamicInv
      <4> QED
        BY <4>1, <4>2
    <3> QED
      BY <3>1, <3>2, <3>3
  <2>11. DynamicInv'
    <3>1. \A i : VLABytes(call.locals[i])' = VLABytes(call.locals[i])
      BY <1>3
    <3> QED
      BY <2>3, <2>8, <2>10, <3>1 DEF DynamicInv, Junk
  <2>12. ASSUME NEW i \in stored, i # j
         PROVE  /\ i \in VLAs => Allocated(i)'
                /\ \A w \in 1..Size(call.locals[i]) :
                     Read(mem', Address(i)' + 8 * (w - 1)) = <<"word", i, w>>
    <3>1. i \in 1..Len(call.locals)
      BY <1>1 DEF Types
    <3>2. i \in VLAs => Allocated(i)
      BY <1>3, <1>12 DEF FrameInv, RunInv, StoredInv
    <3>3. PICK u \in Int, z \in Nat : u = Address(i) /\ z = Size(call.locals[i])
      BY <1>3, <1>12, <3>1, <3>2, RegionIs
    <3>4. o < u \/ u + 8 * z <= o
      <4>1. CASE i \in VLAs
        <5>1. PICK e \in Nat : 8 * z <= e /\ u + e <= 0
          BY <1>3, <1>12, <3>1, <3>2, <3>3, <4>1, RegionIs
        <5> QED
          BY <1>6, <5>1
      <4>2. CASE i \notin VLAs
        <5>1. u = LocalOff(i) /\ 8 * z = LocalBytes(call.locals[i])
          BY <1>3, <1>12, <3>1, <3>2, <3>3, <4>2, RegionIs
        <5>2. u + 8 * z <= o \/ o + LocalBytes(call.locals[j]) <= u
          BY <1>3, <1>6, <2>12, <3>1, <5>1, LocalsApart
        <5> QED
          BY <1>6, <5>2
      <4> QED
        BY <4>1, <4>2
    <3>5. \A b \in Int : u <= b /\ b < u + 8 * z => b # o
      BY <3>4
    <3>6. \A b \in Int : Address(i) <= b /\ b < Address(i) + 8 * Size(call.locals[i]) =>
            Read(mem', b) = Read(mem, b)
      BY <1>10, <3>3, <3>5
    <3>7. i \in VLAs => Allocated(i)' /\ Base(i)' = Base(i)
      BY <2>5, <2>12, <3>2
    <3> QED
      BY <1>3, <1>12, <3>6, <3>7, StoredKept
  <2>13. StoredInv'
    BY <1>3, <2>3, <2>12 DEF StoredInv, Read, Junk
  <2> QED
    BY <2>1, <2>11, <2>13
<1>13. /\ x' = [r \in 0..18 |-> x'[r]] /\ d' = [r \in 0..7 |-> d'[r]]
       /\ (\A r \in 0..18 : x'[r][1] # "sp") /\ (\A r \in 0..7 : d'[r][1] # "sp")
  BY <1>1, <1>3 DEF Types, ValuesInv
<1>14. sp' \in Int /\ sp' <= 0
  BY <1>8, <1>9
<1>15. stored' \subseteq 1..Len(call.locals)
  BY <1>1, <1>3 DEF Types
<1> QED
  BY <1>3, <1>8, <1>11, <1>12, <1>13, <1>14, <1>15, BodyPhase

(* The body calls another function.                                        *)
LEMMA InnerCallInv ==
  ASSUME FrameInv, InnerCall
  PROVE  FrameInv'
<1>1. Types /\ ValuesInv
  BY DEF FrameInv
<1>2. call \in Calls /\ Len(call.locals) \in Nat /\ DOMAIN x = 0..18 /\ DOMAIN d = 0..7
  BY <1>1, CallIs DEF Types
<1>3. /\ pc = "body" /\ pc' = "body" /\ call' = call /\ slots' = slots /\ offset' = offset
      /\ sp' = sp /\ stored' = stored
      /\ UNCHANGED <<call, k, frameVars, iIdx, fIdx, fp>> /\ UNCHANGED <<ap, got>>
  BY DEF InnerCall, frameVars, body
<1>4. sp \in Int /\ sp <= 0 /\ (hasVLA \/ sp = 0)
  BY <1>3, BodyStack
<1>5. PICK a \in Int, len \in Nat : a = sp - 16 /\ len = 2 /\ a + 8 * len = sp
  BY <1>4
<1>6. PICK vs : vs = <<Junk, Junk>>
  OBVIOUS
<1>7. Len(vs) = len /\ \A w \in 1..len : vs[w][1] # "sp"
  BY <1>5, <1>6 DEF Junk
<1>8. mem' = WriteWords(mem, a, vs)
  BY <1>5, <1>6 DEF InnerCall
<1>9. /\ DOMAIN mem' \subseteq Int
      /\ \A b \in DOMAIN mem' : mem'[b][1] = "sp" => mem'[b][2] \in Int
      /\ \A b \in Int : b < a \/ a + 8 * len <= b => Read(mem', b) = Read(mem, b)
  BY <1>1, <1>7, <1>8, MemWords
<1>10. \A b \in Int : sp <= b => Read(mem', b) = Read(mem, b)
  BY <1>5, <1>9
<1>11. /\ x' = [r \in 0..18 |-> x'[r]] /\ d' = [r \in 0..7 |-> d'[r]]
       /\ (\A r \in 0..18 : x'[r][1] # "sp") /\ (\A r \in 0..7 : d'[r][1] # "sp")
  BY <1>2 DEF InnerCall, Junk
<1>12. ASSUME Regular
       PROVE  KeptInv' /\ DynamicInv' /\ StoredInv'
  <2>1. KeptInv'
    <3>1. \A b \in Nat : Read(mem', b) = Read(mem, b)
      BY <1>4, <1>10
    <3> QED
      BY <1>3, <1>12, <3>1, KeptNext
  <2>2. /\ DynamicInv'
        /\ \A i \in VLAs : Base(i)' = Base(i) /\ (Allocated(i)' <=> Allocated(i))
    <3>1. ASSUME NEW i \in VLAs
          PROVE  Read(mem', LocalOff(i)) = Read(mem, LocalOff(i))
      <4>1. LocalOff(i) \in Nat
        BY <1>3, LocalSlotIs DEF VLAs
      <4> QED
        BY <1>4, <1>10, <4>1
    <3> QED
      BY <1>3, <1>12, <3>1, DynamicSame
  <2>3. ASSUME NEW i \in stored
        PROVE  /\ i \in VLAs => Allocated(i)'
               /\ \A w \in 1..Size(call.locals[i]) :
                    Read(mem', Address(i)' + 8 * (w - 1)) = <<"word", i, w>>
    <3>1. i \in 1..Len(call.locals)
      BY <1>1 DEF Types
    <3>2. i \in VLAs => Allocated(i)
      BY <1>3, <1>12 DEF FrameInv, RunInv, StoredInv
    <3>3. Address(i) \in Int /\ sp <= Address(i)
      <4>1. CASE i \in VLAs
        BY <1>3, <1>12, <3>1, <3>2, <4>1, RegionIs
      <4>2. CASE i \notin VLAs
        <5>1. Address(i) = LocalOff(i) /\ LocalOff(i) \in Nat
          BY <1>3, <1>12, <3>1, <3>2, <4>2, RegionIs, LocalSlotIs
        <5> QED
          BY <1>4, <5>1
      <4> QED
        BY <4>1, <4>2
    <3>4. \A b \in Int : Address(i) <= b => sp <= b
      BY <1>4, <3>3
    <3>5. \A b \in Int : Address(i) <= b /\ b < Address(i) + 8 * Size(call.locals[i]) =>
            Read(mem', b) = Read(mem, b)
      BY <1>10, <3>4
    <3>6. i \in VLAs => Allocated(i)' /\ Base(i)' = Base(i)
      BY <2>2, <3>2
    <3> QED
      BY <1>3, <1>12, <3>5, <3>6, StoredKept
  <2>4. VLAs' = VLAs
    BY <1>3, CallSame
  <2>5. StoredInv'
    BY <1>3, <2>3, <2>4 DEF StoredInv, Read, Junk
  <2> QED
    BY <2>1, <2>2, <2>5
<1>13. stored' \subseteq 1..Len(call.locals)
  BY <1>1, <1>3 DEF Types
<1> QED
  BY <1>3, <1>4, <1>9, <1>11, <1>12, <1>13, BodyPhase

(* va_start and va_arg change neither memory nor registers.                *)
LEMMA VaPhase ==
  ASSUME FrameInv, pc = "body",
         UNCHANGED <<call, pc, k, frameVars, regs, sp, fp, mem, stored>>,
         \E a : ap' = <<a>>, \E S : got' \in Seq(S), Len(got') <= Len(call.extra),
         GotInv'
  PROVE  FrameInv'
<1>1. Types /\ ValuesInv /\ StackInv /\ BuildInv
  BY DEF FrameInv
<1>2. /\ call' = call /\ pc' = pc /\ slots' = slots /\ offset' = offset /\ mem' = mem /\ sp' = sp
      /\ fp' = fp /\ stored' = stored /\ iIdx' = iIdx /\ fIdx' = fIdx /\ x' = x /\ d' = d /\ k' = k
  BY DEF frameVars, regs
<1>3. Types'
  <2>1. ap' # <<>>
    OBVIOUS
  <2> QED
    BY <1>1, <1>2, <2>1, Zenon DEF Types
<1>4. ValuesInv'
  BY <1>1, <1>2 DEF ValuesInv
<1>5. (hasVLA' <=> hasVLA) /\ (Regular' <=> Regular) /\ VLAs' = VLAs
  BY <1>2, CallSame, RegularSame
<1>6. StackInv'
  BY <1>1, <1>2, <1>5 DEF StackInv
<1>7. BuildInv'
  BY <1>1, <1>2, BuildKept
<1>8. ASSUME Regular
      PROVE  KeptInv' /\ DynamicInv' /\ StoredInv'
  <2>1. \A b : Read(mem', b) = Read(mem, b)
    BY <1>2
  <2>2. KeptInv'
    BY <1>2, <1>8, <2>1, KeptNext
  <2>3. /\ DynamicInv'
        /\ \A i \in VLAs : Base(i)' = Base(i) /\ (Allocated(i)' <=> Allocated(i))
    BY <1>2, <1>8, <2>1, DynamicSame
  <2>4. ASSUME NEW i \in stored
        PROVE  /\ i \in VLAs => Allocated(i)'
               /\ \A w \in 1..Size(call.locals[i]) :
                    Read(mem', Address(i)' + 8 * (w - 1)) = <<"word", i, w>>
    <3>1. i \in VLAs => Allocated(i)
      BY <1>8 DEF FrameInv, RunInv, StoredInv
    <3>2. i \in VLAs => Allocated(i)' /\ Base(i)' = Base(i)
      BY <2>3, <3>1
    <3> QED
      BY <1>2, <1>8, <2>1, <3>2, StoredKept
  <2>5. StoredInv'
    BY <1>2, <1>5, <2>4 DEF StoredInv, Read, Junk
  <2> QED
    BY <2>2, <2>3, <2>5
<1>9. KeptInv' /\ DynamicInv' /\ StoredInv'
  BY <1>5, <1>8 DEF KeptInv, DynamicInv, StoredInv
<1>10. CallerInv' /\ PrologueInv' /\ ResultInv'
  BY <1>2 DEF CallerInv, PrologueInv, ResultInv, ReturnReaches
<1> QED
  BY <1>3, <1>4, <1>6, <1>7, <1>9, <1>10 DEF FrameInv, RunInv

(* va_start points at the register behind the named parameters'.           *)
LEMMA VaStartInv ==
  ASSUME FrameInv, VaStart
  PROVE  FrameInv'
<1>1. Types
  BY DEF FrameInv
<1>2. call \in Calls /\ RegsNeeded \in Nat
  BY <1>1, NeededIs DEF Types
<1>3. /\ pc = "body" /\ got' = got /\ ap = <<>> /\ got = <<>> /\ call' = call /\ offset' = offset
      /\ UNCHANGED <<call, pc, k, frameVars, regs, sp, fp, mem, stored>>
  BY <1>1 DEF VaStart, Types, frameVars
<1>4. ap' = <<sp + encADDimm(16 + 8 * RegsNeeded)>>
  BY DEF VaStart, RegsNeeded
<1>5. GotInv'
  <2>1. /\ RegsNeeded' = RegsNeeded /\ (ExtraClaimed' <=> ExtraClaimed)
        /\ (hasVLA' <=> hasVLA)
    BY <1>3, CallSame
  <2>2. ASSUME ExtraClaimed, ~hasVLA
        PROVE  ap' = <<16 + 8 * (RegsNeeded + Len(got))>>
    <3>1. sp = 0
      BY <1>3, <2>2, BodyStack
    <3>2. RegsNeeded <= 8
      BY <2>2 DEF ExtraClaimed, Claimed, Fits
    <3>3. sp + encADDimm(16 + 8 * RegsNeeded) = 16 + 8 * RegsNeeded
      BY <1>2, <3>1, <3>2 DEF encADDimm
    <3>4. Len(got) = 0 /\ RegsNeeded + 0 = RegsNeeded
      BY <1>2, <1>3
    <3> QED
      BY <1>4, <3>3, <3>4
  <2>3. Len(got') = 0
    BY <1>3
  <2>4. 1..0 = {}
    OBVIOUS
  <2> QED
    BY <1>3, <2>1, <2>2, <2>3, <2>4 DEF GotInv
<1>6. \E a : ap' = <<a>>
  BY <1>4
<1>7. (\E S : got' \in Seq(S)) /\ Len(got') <= Len(call.extra)
  BY <1>1, <1>3 DEF Types
<1> QED
  BY <1>3, <1>5, <1>6, <1>7, VaPhase

(* va_arg reads the word at ap and moves on.                               *)
LEMMA VaArgInv ==
  ASSUME FrameInv, VaArg
  PROVE  FrameInv'
<1>1. Types
  BY DEF FrameInv
<1>2. call \in Calls /\ RegsNeeded \in Nat /\ n \in Nat /\ Len(call.extra) \in Nat
  BY <1>1, NeededIs, CallIs DEF Types
<1>3. /\ pc = "body" /\ pc' = "body" /\ call' = call /\ offset' = offset /\ ap # <<>>
      /\ UNCHANGED <<call, pc, k, frameVars, regs, sp, fp, mem, stored>>
      /\ Len(got) < Len(call.extra)
  BY DEF VaArg, frameVars
<1>4. PICK v : v = Read(mem, ap[1])
  OBVIOUS
<1>5. got' = Append(got, v) /\ ap' = <<ap[1] + 8>>
  BY <1>4 DEF VaArg
<1>6. PICK S : got \in Seq(S)
  BY <1>1 DEF Types
<1>7. got \in Seq(S \cup {v}) /\ v \in S \cup {v}
  BY <1>6
<1>8. PICK len \in Nat : len = Len(got) /\ len < Len(call.extra)
  BY <1>3, <1>6
<1>9. /\ got' \in Seq(S \cup {v}) /\ Len(got') = len + 1 /\ got'[len + 1] = v
      /\ \A i \in 1..len : got'[i] = got[i]
  BY <1>5, <1>7, <1>8
<1>10. Len(got') <= Len(call.extra)
  BY <1>2, <1>8, <1>9
<1>11. GotInv'
  <2>1. /\ RegsNeeded' = RegsNeeded /\ (ExtraClaimed' <=> ExtraClaimed)
        /\ (hasVLA' <=> hasVLA) /\ (Regular' <=> Regular) /\ n' = n
    BY <1>3, CallSame, RegularSame
  <2>2. ASSUME Regular, ExtraClaimed, ~hasVLA
        PROVE  /\ ap' = <<16 + 8 * (RegsNeeded + Len(got'))>>
               /\ \A i \in 1..Len(got') : RegsNeeded + i <= 8 => got'[i] = Arg(n + i, 1)
    <3>1. /\ ap = <<16 + 8 * (RegsNeeded + len)>>
          /\ \A i \in 1..len : RegsNeeded + i <= 8 => got[i] = Arg(n + i, 1)
      BY <1>3, <1>8, <2>2 DEF FrameInv, RunInv, GotInv
    <3>2. ap[1] = 16 + 8 * (RegsNeeded + len)
      BY <3>1
    <3>3. ap[1] + 8 = 16 + 8 * (RegsNeeded + (len + 1))
      BY <1>2, <3>2
    <3>4. ASSUME RegsNeeded + (len + 1) <= 8
          PROVE  v = Arg(n + (len + 1), 1)
      <4>1. len + 1 \in 1..Len(call.extra)
        BY <1>2, <1>8
      <4>2. Read(mem, 16 + 8 * (RegsNeeded + (len + 1) - 1)) = Arg(n + (len + 1), 1)
        BY <1>3, <2>2, <3>4, <4>1 DEF FrameInv, RunInv, KeptInv
      <4>3. 16 + 8 * (RegsNeeded + (len + 1) - 1) = 16 + 8 * (RegsNeeded + len)
        BY <1>2
      <4> QED
        BY <1>4, <3>2, <4>2, <4>3
    <3>5. ASSUME NEW i \in 1..(len + 1), RegsNeeded + i <= 8
          PROVE  got'[i] = Arg(n + i, 1)
      <4>1. CASE i = len + 1
        BY <1>9, <3>4, <3>5, <4>1
      <4>2. CASE i \in 1..len
        BY <1>9, <3>1, <3>5, <4>2
      <4> QED
        BY <4>1, <4>2
    <3> QED
      BY <1>5, <1>9, <3>3, <3>5
  <2> QED
    BY <2>1, <2>2 DEF GotInv, Arg
<1> QED
  BY <1>3, <1>5, <1>9, <1>10, <1>11, VaPhase

(* What IRReturn leaves in the registers.                                  *)
LEMMA ReturnRegs ==
  ASSUME FrameInv
  PROVE  /\ ReturnX = [r \in 0..18 |-> ReturnX[r]] /\ ReturnD = [r \in 0..7 |-> ReturnD[r]]
         /\ (\A r \in 0..18 : ReturnX[r][1] # "sp") /\ (\A r \in 0..7 : ReturnD[r][1] # "sp")
         /\ InX0 => ReturnX[0] = Ret(1)
         /\ call.ret = 0 /\ call.retFP => ReturnD[0] = Ret(1)
         /\ call.ret \in 9..16 => ReturnX[1] = Ret(2)
<1>1. /\ DOMAIN x = 0..18 /\ DOMAIN d = 0..7
      /\ (\A r \in 0..18 : x[r][1] # "sp") /\ (\A r \in 0..7 : d[r][1] # "sp")
  BY DEF FrameInv, Types, ValuesInv
<1>2. Junk[1] # "sp" /\ Ret(1)[1] # "sp" /\ Ret(2)[1] # "sp"
  BY DEF Junk, Ret
<1>3. \A r \in 0..18 : ReturnX[r] \in {Ret(1), Ret(2), Junk, x[r]}
  BY <1>1 DEF ReturnX
<1>4. \A r \in 0..7 : ReturnD[r] \in {Ret(1), d[r]}
  BY <1>1 DEF ReturnD
<1>5. ReturnX = [r \in 0..18 |-> ReturnX[r]] /\ ReturnD = [r \in 0..7 |-> ReturnD[r]]
  BY <1>1 DEF ReturnX, ReturnD
<1>6. /\ InX0 => ReturnX[0] = Ret(1)
      /\ call.ret = 0 /\ call.retFP => ReturnD[0] = Ret(1)
      /\ call.ret \in 9..16 => ReturnX[1] = Ret(2)
  BY <1>1 DEF ReturnX, ReturnD
<1> QED
  BY <1>1, <1>2, <1>3, <1>4, <1>5, <1>6

(* IRReturn and emitEpilogue.                                              *)
LEMMA ReturnInv ==
  ASSUME FrameInv, Return
  PROVE  FrameInv'
<1>1. Types /\ ValuesInv /\ StackInv /\ BuildInv /\ GotInv
  BY DEF FrameInv, RunInv
<1>2. call \in Calls /\ call.ret \in Nat /\ call.ptr \in BOOLEAN /\ offset \in Nat
  BY <1>1, CallIs DEF Types
<1>3. /\ pc = "body" /\ pc' = "returned" /\ call' = call /\ slots' = slots /\ offset' = offset
      /\ mem' = mem /\ fp' = fp /\ stored' = stored /\ ap' = ap /\ got' = got
      /\ iIdx' = iIdx /\ fIdx' = fIdx /\ x' = ReturnX /\ d' = ReturnD /\ k' = k
  BY DEF Return, frameVars
<1>4. fp = 0 /\ frameBase = 0 /\ EpilogueSP = 0
  BY <1>3, BodyStack DEF EpilogueSP
<1>5. sp' = offset /\ restored' = <<Read(mem, 0), Read(mem, 8)>> /\ dest' = ThroughX8
  <2>1. 0 + offset = offset /\ 0 + 8 = 8
    BY <1>2
  <2> QED
    BY <1>4, <2>1 DEF Return, frameSize
<1>6. Types'
  <2>1. sp' \in Int
    BY <1>2, <1>5
  <2>2. x' = [r \in 0..18 |-> x'[r]] /\ d' = [r \in 0..7 |-> d'[r]]
    BY <1>3, ReturnRegs
  <2> QED
    BY <1>1, <1>3, <2>1, <2>2, Zenon DEF Types
<1>7. ValuesInv'
  BY <1>1, <1>3, ReturnRegs DEF ValuesInv
<1>8. /\ n' = n /\ RegsNeeded' = RegsNeeded /\ (ExtraClaimed' <=> ExtraClaimed)
      /\ (hasVLA' <=> hasVLA) /\ (Regular' <=> Regular)
  BY <1>3, CallSame, RegularSame
<1>9. StackInv'
  BY <1>1, <1>3 DEF StackInv
<1>10. BuildInv'
  BY <1>1, <1>3, BuildKept
<1>11. GotInv'
  BY <1>1, <1>3, <1>8 DEF GotInv, Arg
<1>12. CallerInv' /\ PrologueInv' /\ KeptInv' /\ DynamicInv' /\ StoredInv'
  BY <1>3 DEF CallerInv, PrologueInv, KeptInv, DynamicInv, StoredInv
<1>13. ASSUME Regular
       PROVE  /\ restored' = <<CallerFP, CallerLR>>
              /\ call.ret > 16 /\ ~call.ptr => ThroughX8 = [w \in 1..ResultWords |-> Ret(w)]
  <2>1. /\ Read(mem, 0) = CallerFP /\ Read(mem, 8) = CallerLR
        /\ call.ret > 16 /\ ~call.ptr => Read(mem, Off(X8Slot)) = DestPtr
    BY <1>3, <1>13 DEF FrameInv, RunInv, KeptInv
  <2>2. call.ret > 16 => frameBase + Off(X8Slot) = Off(X8Slot)
    <3> SUFFICES ASSUME call.ret > 16
                 PROVE  Off(X8Slot) \in Nat
      BY <1>4
    <3>1. X8Slot \in DOMAIN slots
      BY <1>3, LaidOut
    <3> QED
      BY <3>1, SlotIs
  <2>3. call.ret > 16 /\ ~call.ptr => ThroughX8 = [w \in 1..ResultWords |-> Ret(w)]
    BY <2>1, <2>2 DEF ThroughX8
  <2> QED
    BY <1>5, <2>1, <2>3
<1>14. ResultInv'
  <2>1. /\ ResultWords' = ResultWords /\ frameSize' = offset /\ (InX0' <=> InX0)
    BY <1>3 DEF ResultWords, frameSize, InX0
  <2>2. ReturnReaches'
    BY <1>3, <1>5, <1>8, <1>13, <2>1 DEF ReturnReaches, CallerFP, CallerLR
  <2>3. /\ InX0 => x'[0] = Ret(1)
        /\ call.ret = 0 /\ call.retFP => d'[0] = Ret(1)
        /\ call.ret \in 9..16 => x'[1] = Ret(2)
    BY <1>3, ReturnRegs
  <2> QED
    BY <1>3, <1>5, <1>8, <1>13, <2>1, <2>2, <2>3 DEF ResultInv, Ret
<1> QED
  BY <1>6, <1>7, <1>9, <1>10, <1>11, <1>12, <1>14 DEF FrameInv, RunInv

(* What the caller finds where it looks for the result.                    *)
LEMMA Taken ==
  ASSUME FrameInv, TakeResult, Regular, ~call.ptr \/ (call.ret <= 8 /\ ~call.retFP)
  PROVE  dest' = [w \in 1..ResultWords |-> Ret(w)]
<1>1. pc = "returned" /\ call \in Calls /\ call.ret \in Nat /\ call.ptr \in BOOLEAN
  BY CallIs DEF TakeResult, FrameInv, Types
<1>2. /\ InX0 => x[0] = Ret(1)
      /\ call.ret = 0 /\ call.retFP => d[0] = Ret(1)
      /\ call.ret \in 9..16 => x[1] = Ret(2)
      /\ call.ret > 16 /\ ~call.ptr => dest = [w \in 1..ResultWords |-> Ret(w)]
  BY <1>1 DEF FrameInv, ResultInv
<1>3. CASE call.ret > 16
  <2>1. ~call.ptr
    BY <1>1, <1>3
  <2>2. dest' = dest
    BY <1>3, <2>1 DEF TakeResult
  <2> QED
    BY <1>2, <1>3, <2>1, <2>2, Zenon
<1>4. CASE call.ret \in 9..16
  <2>1. dest' = <<x[0], x[1]>> /\ x[0] = Ret(1) /\ x[1] = Ret(2)
    BY <1>1, <1>2, <1>4 DEF TakeResult, InX0
  <2>2. ResultWords = 2
    BY <1>4, WordsFew DEF ResultWords
  <2> QED
    BY <2>1, <2>2
<1>5. CASE call.ret \in 0..8
  <2>1. dest' = <<Ret(1)>>
    BY <1>1, <1>2, <1>5 DEF TakeResult, InX0
  <2>2. ResultWords = 1
    BY <1>5, WordsFew DEF ResultWords
  <2> QED
    BY <2>1, <2>2
<1>6. call.ret > 16 \/ call.ret \in 9..16 \/ call.ret \in 0..8
  BY <1>1
<1> QED
  BY <1>3, <1>4, <1>5, <1>6, Zenon

(* emitCall after the BL.                                                  *)
LEMMA TakeResultInv ==
  ASSUME FrameInv, TakeResult
  PROVE  FrameInv'
<1>1. Types /\ ValuesInv /\ StackInv /\ BuildInv /\ GotInv /\ ResultInv
  BY DEF FrameInv, RunInv
<1>2. /\ pc = "returned" /\ pc' = "resumed" /\ call' = call /\ slots' = slots /\ offset' = offset
      /\ mem' = mem /\ sp' = sp /\ fp' = fp /\ stored' = stored /\ ap' = ap /\ got' = got
      /\ iIdx' = iIdx /\ fIdx' = fIdx /\ x' = x /\ d' = d /\ k' = k /\ restored' = restored
  BY DEF TakeResult, frameVars, regs
<1>3. Types'
  BY <1>1, <1>2, Zenon DEF Types
<1>4. ValuesInv'
  BY <1>1, <1>2 DEF ValuesInv
<1>5. /\ n' = n /\ RegsNeeded' = RegsNeeded /\ (ExtraClaimed' <=> ExtraClaimed)
      /\ (hasVLA' <=> hasVLA) /\ (Regular' <=> Regular)
  BY <1>2, CallSame, RegularSame
<1>6. StackInv'
  BY <1>1, <1>2 DEF StackInv
<1>7. BuildInv'
  BY <1>1, <1>2, BuildKept
<1>8. GotInv'
  BY <1>1, <1>2, <1>5 DEF GotInv, Arg
<1>9. CallerInv' /\ PrologueInv' /\ KeptInv' /\ DynamicInv' /\ StoredInv'
  BY <1>2 DEF CallerInv, PrologueInv, KeptInv, DynamicInv, StoredInv
<1>10. ResultInv'
  <2>1. ResultWords' = ResultWords /\ frameSize' = frameSize
    BY <1>2 DEF ResultWords, frameSize
  <2>2. Regular => restored = <<CallerFP, CallerLR>> /\ sp = frameSize
    BY <1>1, <1>2 DEF ResultInv, ReturnReaches
  <2>3. Regular /\ (~call.ptr \/ (call.ret <= 8 /\ ~call.retFP))
          => dest' = [w \in 1..ResultWords |-> Ret(w)]
    BY Taken
  <2> QED
    BY <1>2, <1>5, <2>1, <2>2, <2>3 DEF ResultInv, ReturnReaches, CallerFP, CallerLR, Ret
<1> QED
  BY <1>3, <1>4, <1>6, <1>7, <1>8, <1>9, <1>10 DEF FrameInv, RunInv

-----------------------------------------------------------------------------
(* Every step.                                                             *)
LEMMA StutterInv ==
  ASSUME FrameInv, UNCHANGED vars
  PROVE  FrameInv'
<1>1. /\ call' = call /\ pc' = pc /\ k' = k /\ offset' = offset /\ slots' = slots
      /\ iIdx' = iIdx /\ fIdx' = fIdx /\ x' = x /\ d' = d /\ sp' = sp /\ fp' = fp /\ mem' = mem
      /\ stored' = stored /\ ap' = ap /\ got' = got /\ dest' = dest /\ restored' = restored
  BY DEF vars, frameVars, regs, body
<1>2. /\ n' = n /\ Args' = Args /\ RegsNeeded' = RegsNeeded /\ VLAs' = VLAs /\ Ids' = Ids
      /\ (Claimed' <=> Claimed) /\ (ExtraClaimed' <=> ExtraClaimed)
      /\ (AllInt' <=> AllInt) /\ (hasVLA' <=> hasVLA) /\ (Regular' <=> Regular)
  BY <1>1, CallSame, RegularSame
<1>3. Types' /\ ValuesInv' /\ StackInv'
  <2>1. Types'
    BY <1>1, Zenon DEF FrameInv, Types
  <2>2. ValuesInv'
    BY <1>1 DEF FrameInv, ValuesInv
  <2>3. StackInv'
    BY <1>1, <1>2 DEF FrameInv, StackInv
  <2> QED
    BY <2>1, <2>2, <2>3
<1>4. BuildInv'
  <2>1. SlotsInv'
    BY <1>1 DEF FrameInv, BuildInv, SlotsInv, Apart
  <2>2. PlacedInv'
    BY <1>1, <1>2 DEF FrameInv, BuildInv, PlacedInv, Before, X8Slot
  <2>3. SizesInv'
    BY <1>1, SizesSame DEF FrameInv, BuildInv
  <2>4. OrderInv'
    BY <1>1, <1>2 DEF FrameInv, BuildInv, OrderInv
  <2> QED
    BY <2>1, <2>2, <2>3, <2>4 DEF BuildInv
<1>5. \A i : /\ InRegs(i)' <=> InRegs(i)
             /\ ExtraInReg(i)' <=> ExtraInReg(i)
             /\ Arrived(i)' <=> Arrived(i)
             /\ LocalOff(i)' = LocalOff(i) /\ Base(i)' = Base(i) /\ Address(i)' = Address(i)
             /\ Allocated(i)' <=> Allocated(i)
  BY <1>1, <1>2 DEF InRegs, ExtraInReg, Arrived, LocalOff, Off, Base, Address, Allocated, VLAs,
    Regs, FPs, Read, Arg, CopyOf, Junk
<1>6. CallerInv'
  BY <1>1, <1>2, <1>5 DEF FrameInv, RunInv, CallerInv, Regs, FPs
<1>7. PrologueInv'
  BY <1>1, <1>2, <1>5
  DEF FrameInv, RunInv, PrologueInv, Regs, FPs, Read, Junk, CallerFP, CallerLR, DestPtr
<1>8. KeptInv' /\ DynamicInv' /\ StoredInv'
  BY <1>1, <1>2, <1>5 DEF FrameInv, RunInv, KeptInv, DynamicInv, StoredInv, Off, X8Slot, Read, Junk,
    CallerFP, CallerLR, DestPtr, Arg
<1>9. GotInv'
  BY <1>1, <1>2 DEF FrameInv, RunInv, GotInv, Arg
<1>10. ResultInv'
  BY <1>1, <1>2 DEF FrameInv, ResultInv, ReturnReaches, frameSize, ResultWords, CallerFP, CallerLR,
    InX0, Ret
<1> QED
  BY <1>3, <1>4, <1>6, <1>7, <1>8, <1>9, <1>10 DEF FrameInv, RunInv

(* One step of caller or callee keeps the invariant.                       *)
LEMMA InductiveStep ==
  ASSUME FrameInv, [Next]_vars
  PROVE  FrameInv'
<1>1. CASE ParamSlot \/ SaveArea \/ StructSlot \/ StructsEnd \/ LocalSlot \/ LocalsEnd
             \/ TempSlot \/ FrameEnd
  BY <1>1, ParamSlotInv, SaveAreaInv, StructSlotInv, StructsEndInv, LocalSlotInv, LocalsEndInv,
     TempSlotInv, FrameEndInv
<1>2. CASE RouteFP \/ RouteInt \/ RouteStruct \/ EnterFunction
  BY <1>2, RouteFPInv, RouteIntInv, RouteStructInv, EnterFunctionInv
<1>3. CASE StoreFPParam \/ StoreIntParam \/ StoreStructParam \/ SaveRegisters
  BY <1>3, StoreFPParamInv, StoreIntParamInv, StoreStructParamInv, SaveRegistersInv
<1>4. CASE \E j \in 1..Len(call.locals) : StoreLocal(j) \/ AllocVLA(j)
  BY <1>4, StoreLocalInv, AllocVLAInv
<1>5. CASE InnerCall \/ VaStart \/ VaArg \/ Return \/ TakeResult
  BY <1>5, InnerCallInv, VaStartInv, VaArgInv, ReturnInv, TakeResultInv
<1>6. CASE UNCHANGED vars
  BY <1>6, StutterInv
<1> QED
  BY <1>1, <1>2, <1>3, <1>4, <1>5, <1>6 DEF Next

(* The invariant holds from buildFrame to the return, whatever the calls.  *)
LEMMA FrameAlways == Spec => []FrameInv
<1>1. Init => FrameInv
  BY InitInv
<1>2. FrameInv /\ [Next]_vars => FrameInv'
  BY InductiveStep
<1> QED
  BY <1>1, <1>2, PTL DEF Spec

-----------------------------------------------------------------------------
(* What the invariant says of a running call.                              *)
LEMMA AllPlaced ==
  ASSUME FrameInv, pc \in {"args", "prologue", "body"}
  PROVE  DOMAIN slots \cup {X8Slot} = Ids
<1>1. PlacedInv
  BY DEF FrameInv, BuildInv
<1>2. DOMAIN slots \subseteq Ids /\ X8Slot \in Ids
  BY <1>1 DEF PlacedInv, Ids
<1>3. \A i \in 1..n : <<"param", i>> \in DOMAIN slots
  BY LaidOut
<1>4. \A j \in 1..Len(call.locals) : <<"local", j>> \in DOMAIN slots
  BY LaidOut
<1>5. \A j \in 1..call.temps : <<"temp", j>> \in DOMAIN slots
  BY <1>1 DEF PlacedInv, Before
<1>6. ASSUME NEW id \in Ids
      PROVE  id \in DOMAIN slots \cup {X8Slot}
  BY <1>3, <1>4, <1>5 DEF Ids, n
<1> QED
  BY <1>2, <1>6

(* The invariant gives the types.                                          *)
LEMMA TypeHolds == FrameInv => TypeOK
<1> SUFFICES ASSUME FrameInv
             PROVE  TypeOK
  OBVIOUS
<1>1. Types /\ ValuesInv /\ SlotsInv /\ PlacedInv
  BY DEF FrameInv, BuildInv
<1>2. calls(call)
  BY <1>1, CallIs DEF Types
<1>3. DOMAIN x = 0..18 /\ DOMAIN d = 0..7
  BY <1>1 DEF Types
<1>4. Len(ap) <= 1
  <2>1. CASE ap = <<>>
    BY <2>1
  <2>2. CASE \E a : ap = <<a>>
    BY <2>2
  <2> QED
    BY <1>1, <2>1, <2>2 DEF Types
<1>5. /\ pc \in {"params", "structs", "locals", "temps", "args", "prologue", "body", "returned", "resumed"}
      /\ k \in Nat \ {0} /\ offset \in Nat /\ iIdx \in Nat /\ fIdx \in 0..8
      /\ sp \in Int /\ fp \in Int /\ stored \subseteq 1..Len(call.locals)
      /\ Len(got) <= Len(call.extra)
  BY <1>1, Zenon DEF Types
<1>6. /\ DOMAIN slots \subseteq Ids /\ DOMAIN mem \subseteq Int
      /\ \A id \in DOMAIN slots : slots[id].off \in Nat /\ slots[id].size \in Nat \ {0}
  BY <1>1 DEF SlotsInv, PlacedInv, ValuesInv
<1> QED
  BY <1>2, <1>3, <1>4, <1>5, <1>6, Zenon DEF TypeOK

(* The invariant gives the layout of the finished frame.                   *)
LEMMA DisjointHolds == FrameInv => FrameDisjoint
<1> SUFFICES ASSUME FrameInv, pc \in {"args", "prologue", "body"}
             PROVE  /\ DOMAIN slots \cup {X8Slot} = Ids
                    /\ frameSize % 16 = 0
                    /\ \A id \in DOMAIN slots :
                         /\ slots[id].off % 8 = 0
                         /\ 16 <= slots[id].off /\ slots[id].off + slots[id].size <= frameSize
                         /\ call.variadic /\ id[1] # "param" => slots[id].off >= 80
                    /\ \A i, j \in DOMAIN slots : i # j => Apart(slots[i], slots[j])
  BY DEF FrameDisjoint
<1>1. SlotsInv /\ StackInv
  BY DEF FrameInv, BuildInv
<1>2. DOMAIN slots \cup {X8Slot} = Ids
  BY AllPlaced
<1>3. frameSize % 16 = 0
  BY <1>1 DEF StackInv, frameSize
<1>4. \A id \in DOMAIN slots :
        /\ slots[id].off % 8 = 0
        /\ 16 <= slots[id].off /\ slots[id].off + slots[id].size <= frameSize
        /\ call.variadic /\ id[1] # "param" => slots[id].off >= 80
  BY <1>1 DEF SlotsInv, frameSize
<1>5. \A i, j \in DOMAIN slots : i # j => Apart(slots[i], slots[j])
  BY <1>1 DEF SlotsInv
<1> QED
  BY <1>2, <1>3, <1>4, <1>5

(* The invariant gives what locals hold.                                   *)
LEMMA LocalsHold == FrameInv => LocalsKept
<1> SUFFICES ASSUME FrameInv, pc = "body", Regular
             PROVE  /\ Read(mem, fp) = CallerFP /\ Read(mem, fp + 8) = CallerLR
                    /\ \A j \in stored : \A w \in 1..Size(call.locals[j]) :
                         Read(mem, LocalAddress(j) + 8 * (w - 1)) = <<"word", j, w>>
  BY DEF LocalsKept
<1>1. fp = 0 /\ fp + 8 = 8
  BY BodyStack
<1>2. Read(mem, 0) = CallerFP /\ Read(mem, 8) = CallerLR
  BY DEF FrameInv, RunInv, KeptInv
<1>3. ASSUME NEW j \in stored, NEW w \in 1..Size(call.locals[j])
      PROVE  Read(mem, LocalAddress(j) + 8 * (w - 1)) = <<"word", j, w>>
  <2>1. j \in 1..Len(call.locals)
    BY DEF FrameInv, Types
  <2>2. LocalAddress(j) = Address(j)
    BY <2>1, AddressIs
  <2>3. Read(mem, Address(j) + 8 * (w - 1)) = <<"word", j, w>>
    BY DEF FrameInv, RunInv, StoredInv
  <2> QED
    BY <2>2, <2>3
<1> QED
  BY <1>1, <1>2, <1>3

(* The invariant gives what parameters hold.                               *)
LEMMA ArgsHold == FrameInv => ArgsArrive
<1> SUFFICES ASSUME FrameInv, pc = "body", Regular, Fits, call.variadic => AllInt,
                    call.ptr => \A i \in 1..n : call.params[i].bytes <= 8,
                    NEW i \in 1..n, NEW w \in 1..Words(call.params[i].bytes)
             PROVE  Read(mem, fp + Off(<<"param", i>>) + 8 * (w - 1)) = Arg(i, w)
  BY DEF ArgsArrive, n
<1>1. call \in Calls /\ n \in Nat
  BY CallIs DEF FrameInv, Types
<1>2. Claimed
  <2>1. ASSUME call.variadic
        PROVE  FPNeeded = 0
    <3>1. \A q \in 1..n : call.params[q].class # "fp"
      BY <2>1 DEF AllInt, n
    <3> QED
      BY <1>1, <3>1, NoFP
  <2> QED
    BY <2>1 DEF Claimed
<1>3. Read(mem, Off(<<"param", i>>) + 8 * (w - 1)) = Arg(i, w)
  BY <1>2 DEF FrameInv, RunInv, KeptInv, Arrived
<1>4. fp + Off(<<"param", i>>) = Off(<<"param", i>>)
  <2>1. <<"param", i>> \in DOMAIN slots
    BY LaidOut
  <2>2. PICK id : id = <<"param", i>>
    OBVIOUS
  <2>3. Off(id) \in Nat
    BY <2>1, <2>2, SlotIs
  <2>4. fp = 0
    BY BodyStack
  <2> QED
    BY <2>2, <2>3, <2>4
<1> QED
  BY <1>3, <1>4

(* The invariant gives what va_arg returned.                               *)
LEMMA VaHolds == FrameInv => VaArgs
<1> SUFFICES ASSUME FrameInv, call.variadic, Regular, ~hasVLA, FPNeeded = 0,
                    call.ptr => \A i \in 1..Len(Args) : Args[i].bytes <= 8 /\ Args[i].class # "fp",
                    NEW i \in 1..Len(got), RegsNeeded + i <= 8
             PROVE  got[i] = Arg(n + i, 1)
  BY DEF VaArgs, n
<1>1. Types
  BY DEF FrameInv
<1>2. call \in Calls /\ n \in Nat /\ Len(call.extra) \in Nat /\ RegsNeeded \in Nat
  BY <1>1, CallIs, NeededIs DEF Types
<1>3. PICK len \in Nat : len = Len(got)
  <2>1. PICK S : got \in Seq(S)
    BY <1>1 DEF Types
  <2> QED
    BY <2>1
<1>4. Fits
  BY <1>2, <1>3 DEF Fits
<1>5. ASSUME call.ptr
      PROVE  /\ \A q \in 1..n : call.params[q].bytes <= 8
             /\ \A q \in 1..Len(call.extra) : call.extra[q].class # "fp"
  <2>1. /\ Len(Args) = n + Len(call.extra)
        /\ \A q \in 1..n : Args[q] = call.params[q]
        /\ \A q \in 1..Len(call.extra) : Args[n + q] = call.extra[q]
    BY <1>2, ArgsIs
  <2>2. \A q \in 1..n : q \in 1..Len(Args)
    BY <1>2, <2>1
  <2>3. \A q \in 1..Len(call.extra) : n + q \in 1..Len(Args)
    BY <1>2, <2>1
  <2> QED
    BY <1>5, <2>1, <2>2, <2>3
<1>6. ExtraClaimed
  BY <1>4, <1>5 DEF ExtraClaimed, Claimed
<1>7. pc \in {"body", "returned", "resumed"}
  <2> SUFFICES ASSUME pc \notin {"body", "returned", "resumed"}
               PROVE  FALSE
    OBVIOUS
  <2>1. got = <<>>
    BY <1>1 DEF Types
  <2> QED
    BY <2>1
<1> QED
  BY <1>6, <1>7 DEF FrameInv, RunInv, GotInv

-----------------------------------------------------------------------------
(* Through buildFrame, the caller's routing, the prologue, the body and    *)
(* the epilogue, slots belong to the function's own names, the count of    *)
(* floating-point registers stays in its bank, and every address is a      *)
(* number, whatever the calls.                                             *)
THEOREM FrameTypeCorrect == Spec => []TypeOK
  BY FrameAlways, TypeHolds, PTL

(* buildFrame gives every parameter, local and temporary words of its own  *)
(* between the saved FP and LR and the 16-byte aligned end of the frame,   *)
(* and in a variadic function keeps all but the parameters off the         *)
(* register save area.                                                     *)
THEOREM FrameIsDisjoint == Spec => []FrameDisjoint
  BY FrameAlways, DisjointHolds, PTL

(* In a frame below 4096 bytes without arrays of structs, what the body    *)
(* stores in a local stays there through every store to another local,     *)
(* every VLA or alloca and every inner call, and the FP and LR that the    *)
(* prologue saved stay as they were.                                       *)
THEOREM LocalsAreKept == Spec => []LocalsKept
  BY FrameAlways, LocalsHold, PTL

(* emitCall and emitPrologue count the registers of a call apart from each *)
(* other and agree: every named parameter that has registers is in its     *)
(* slot, word by word, while the body runs.                                *)
THEOREM ArgumentsArrive == Spec => []ArgsArrive
  BY FrameAlways, ArgsHold, PTL

(* The values va_arg reads are the extra arguments the caller passed, in   *)
(* their order, as far as the integer registers reach.                     *)
THEOREM VariadicArgsRead == Spec => []VaArgs
  BY FrameAlways, VaHolds, PTL

(* In a regular frame emitEpilogue gives the caller its FP, LR and SP back *)
(* although VLAs moved SP, any number of times, and the result, which      *)
(* IRReturn and emitStructReturn leave in X0, X1, D0 or behind X8, is what *)
(* emitCall takes from there, word by word.  Through a pointer this is     *)
(* claimed of results of one integer word only.                            *)
THEOREM ReturnIsReached == Spec => []ReturnReaches
<1>1. FrameInv => ReturnReaches
  BY DEF FrameInv, ResultInv
<1> QED
  BY <1>1, FrameAlways, PTL
=============================================================================
