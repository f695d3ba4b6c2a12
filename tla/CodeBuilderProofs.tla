-------------------------- MODULE CodeBuilderProofs --------------------------
(***************************************************************************)
(* Proofs about CodeBuilder, for every list of operations, every pool and  *)
(* every width of the offset fields.                                       *)
(***************************************************************************)
EXTENDS CodeBuilder, SequenceTheorems, TLAPS

-----------------------------------------------------------------------------
(* Numbers.                                                                *)

(* A field gives back an offset exactly when the offset is in its range.   *)
LEMMA FieldRange ==
  ASSUME NEW v \in Int, NEW r \in Nat \ {0}
  PROVE  /\ InRange(v, r) => Decode(Encode(v, r), r) = v
         /\ ~InRange(v, r) => Decode(Encode(v, r), r) # v
<1>1. PICK m \in Nat \ {0} : m = 2 * r
  OBVIOUS
<1>2. PICK e \in 0..(m - 1) : e = v % m
  OBVIOUS
<1>3. PICK q \in Int : v = m * q + e
  <2>1. PICK q \in Int : q = v \div m
    OBVIOUS
  <2>2. v = m * q + e
    BY <1>2, <2>1
  <2> QED BY <2>2
<1>4. Encode(v, r) = e
  BY <1>1, <1>2 DEF Encode
<1>5. Decode(e, r) \in Int /\ -r <= Decode(e, r) /\ Decode(e, r) < r
  BY <1>1 DEF Decode
<1>6. ASSUME -r <= v, v < r PROVE Decode(e, r) = v
  <2>1. CASE v >= 0
    <3>1. v % m = v
      BY <1>1, <1>6, <2>1
    <3> QED BY <1>2, <1>6, <3>1 DEF Decode
  <2>2. CASE v < 0
    <3>1. v % m = v + m
      <4>1. v + m \in 0..(m - 1)
        BY <1>1, <1>6, <2>2
      <4>2. m * q + e = v /\ m * (q + 1) + e = v + m
        BY <1>3
      <4>3. q = -1
        <5>1. CASE q >= 0
          <6>1. m * q >= 0
            BY <5>1
          <6> QED BY <1>3, <2>2, <6>1
        <5>2. CASE q <= -2
          <6>1. m * (q + 2) <= 0
            BY <5>2
          <6>2. m * (q + 2) = m * q + 2 * m
            OBVIOUS
          <6> QED BY <1>3, <4>1, <6>1, <6>2
        <5> QED BY <5>1, <5>2
      <4> QED BY <1>2, <1>3, <4>3
    <3> QED BY <1>1, <1>2, <1>6, <2>2, <3>1 DEF Decode
  <2> QED BY <2>1, <2>2
<1> QED BY <1>4, <1>5, <1>6 DEF InRange

(* Quotient and remainder.                                                 *)
LEMMA DivMod ==
  ASSUME NEW v \in Nat, NEW m \in Nat \ {0}
  PROVE  /\ v \div m \in Nat /\ v % m \in 0..(m - 1)
         /\ v = m * (v \div m) + (v % m)
  OBVIOUS

(* Dividing twice is dividing by the product.                              *)
LEMMA DivDiv ==
  ASSUME NEW v \in Nat, NEW m \in Nat \ {0}, NEW n \in Nat \ {0}
  PROVE  v \div (m * n) = (v \div m) \div n
<1>1. PICK q \in Nat : q = v \div m
  BY DivMod
<1>2. PICK r \in 0..(m - 1) : v = m * q + r
  BY <1>1, DivMod
<1>3. PICK p \in Nat : p = q \div n
  BY DivMod
<1>4. PICK s \in 0..(n - 1) : q = n * p + s
  BY <1>3, DivMod
<1>5. PICK w \in Nat \ {0} : w = m * n
  OBVIOUS
<1>6. PICK t \in Nat : t = m * s + r
  OBVIOUS
<1>7. v = w * p + t
  BY <1>2, <1>4, <1>5, <1>6
<1>8. t < w
  <2>1. m * s <= m * (n - 1)
    BY <1>4
  <2>2. m * (n - 1) = w - m
    BY <1>5
  <2> QED BY <1>2, <1>5, <1>6, <2>1, <2>2
<1>9. v \div w = p
  <2>1. PICK x \in Nat : x = v \div w
    BY DivMod
  <2>2. PICK y \in 0..(w - 1) : v = w * x + y
    BY <2>1, DivMod
  <2>3. w * (x - p) = t - y
    <3>1. w * (x - p) = w * x - w * p
      OBVIOUS
    <3>2. w * x \in Int /\ w * p \in Int
      OBVIOUS
    <3> QED BY <1>7, <2>2, <3>1, <3>2
  <2>4. CASE x > p
    <3>1. w * (x - p) >= w
      BY <2>4
    <3> QED BY <1>8, <2>2, <2>3, <3>1
  <2>5. CASE x < p
    <3>1. w * (p - x) >= w
      BY <2>5
    <3>2. w * (p - x) = 0 - (w * (x - p))
      OBVIOUS
    <3>3. w * (p - x) = y - t
      BY <2>3, <3>2
    <3> QED BY <1>8, <2>2, <3>1, <3>3
  <2> QED BY <2>1, <2>4, <2>5
<1> QED BY <1>1, <1>3, <1>5, <1>9

(* What the chunks up to sh stand for.                                     *)
Partial(v, sh) ==
  CASE sh = 0 -> Chunk(v, 0)
    [] sh = 1 -> Chunk(v, 0) + Chunk(v, 1) * Weight(1)
    [] sh = 2 -> Chunk(v, 0) + Chunk(v, 1) * Weight(1) + Chunk(v, 2) * Weight(2)
    [] sh = 3 -> Chunk(v, 0) + Chunk(v, 1) * Weight(1) + Chunk(v, 2) * Weight(2)
                   + Chunk(v, 3) * Weight(3)

(* The four chunks are the number.                                         *)
LEMMA AllChunks ==
  ASSUME NEW v \in 0..(Weight(3) * ChunkBase - 1)
  PROVE  /\ Partial(v, 3) = v
         /\ \A sh \in 0..3 : Chunk(v, sh) \in Nat /\ Weight(sh) \in Nat
<1>1. PICK b \in Nat \ {0} : b = ChunkBase
  BY BuilderAssumption
<1>2. Weight(0) = 1 /\ Weight(1) = b /\ Weight(2) = b * b /\ Weight(3) = (b * b) * b
  BY <1>1 DEF Weight
<1>3. PICK c \in Nat \ {0} : c = b * b
  OBVIOUS
<1>4. PICK e \in Nat \ {0} : e = c * b
  OBVIOUS
<1>5. v \in Nat /\ v < e * b
  <2>1. PICK z \in Nat : z = e * b
    OBVIOUS
  <2>2. Weight(3) * ChunkBase = z
    BY <1>1, <1>2, <1>3, <1>4, <2>1
  <2> QED BY <2>1, <2>2
<1>6. PICK q \in Nat : q = v \div b
  BY <1>5, DivMod
<1>7. PICK r \in Nat : r = v \div c
  BY <1>5, DivMod
<1>8. PICK s \in Nat : s = v \div e
  BY <1>5, DivMod
<1>9. r = q \div b
  BY <1>3, <1>5, <1>6, <1>7, DivDiv
<1>10. s = r \div b
  BY <1>4, <1>5, <1>7, <1>8, DivDiv
<1>11. PICK d0 \in 0..(b - 1) : d0 = v % b
  BY <1>5, DivMod
<1>12. PICK d1 \in 0..(b - 1) : d1 = q % b
  BY DivMod
<1>13. PICK d2 \in 0..(b - 1) : d2 = r % b
  BY DivMod
<1>14. v = b * q + d0 /\ q = b * r + d1 /\ r = b * s + d2
  BY <1>5, <1>6, <1>9, <1>10, <1>11, <1>12, <1>13, DivMod
<1>15. s < b
  <2> SUFFICES ASSUME s >= b PROVE FALSE
    OBVIOUS
  <2>1. v >= e * s
    BY <1>5, <1>8, DivMod
  <2>2. e * s >= e * b
    OBVIOUS
  <2> QED BY <1>5, <2>1, <2>2
<1>16. s % b = s
  BY <1>15
<1>17. v \div 1 = v
  BY <1>5
<1>18. Chunk(v, 0) = d0 /\ Chunk(v, 1) = d1 /\ Chunk(v, 2) = d2 /\ Chunk(v, 3) = s
  BY <1>1, <1>2, <1>3, <1>4, <1>6, <1>7, <1>8, <1>11, <1>12, <1>13, <1>16, <1>17 DEF Chunk
<1>19. v = d0 + d1 * b + d2 * c + s * e
  <2>1. b * q = b * (b * r) + b * d1
    BY <1>14
  <2>2. b * (b * r) = c * r
    BY <1>3
  <2>3. c * r = c * (b * s) + c * d2
    BY <1>14
  <2>4. c * (b * s) = e * s
    BY <1>4
  <2>5. b * d1 = d1 * b /\ c * d2 = d2 * c /\ e * s = s * e
    OBVIOUS
  <2>6. d1 * b \in Nat /\ d2 * c \in Nat /\ s * e \in Nat
    OBVIOUS
  <2>7. b * q = d1 * b + d2 * c + s * e
    BY <2>1, <2>2, <2>3, <2>4, <2>5, <2>6
  <2> QED BY <1>14, <2>6, <2>7
<1>20. Partial(v, 3) = d0 + d1 * b + d2 * c + s * e
  BY <1>2, <1>3, <1>4, <1>18 DEF Partial
<1>21. ASSUME NEW sh \in 0..3 PROVE Chunk(v, sh) \in Nat /\ Weight(sh) \in Nat
  BY <1>2, <1>3, <1>4, <1>18
<1> QED BY <1>19, <1>20, <1>21

-----------------------------------------------------------------------------
(* The inductive invariant.                                                *)
IsSeq(s) == \E S : s \in Seq(S)

(* The words of an operation as they are appended, its placeholder, and    *)
(* the words once applyFixups has patched them.                            *)
Code(k) == Instruction(ops[k], at[k])
Fix(k) == [at |-> at[k], label |-> ops[k].label, kind |-> ops[k].op]
Word(k, j) ==
  IF phase = "run" /\ ops[k].op \in Branches
    THEN [Code(k)[j] EXCEPT !.imm = Encode(Offset(Fix(k)), Reach(ops[k].op))]
    ELSE Code(k)[j]

(* Only a load that undoes the store before it, or follows a load elided   *)
(* for the same reason, is without words, and no label stands before it.   *)
Elided(k) == Place(k + 1) = at[k]

Skipped(k) ==
  /\ ops[k].op = "ldr" /\ k > 1
  /\ ops[k - 1].op = "str" \/ (ops[k - 1].op = "ldr" /\ Elided(k - 1))
  /\ ops[k - 1].rt = ops[k].rt /\ ops[k - 1].off = ops[k].off
  /\ \A n \in DOMAIN opLabels : opLabels[n] # k
  /\ phase = "build" =>
       at[k] >= 1 /\ instrs[at[k]] = [op |-> "str", rt |-> ops[k].rt, off |-> ops[k].off]

Types ==
  /\ phase \in {"build", "run", "error"} /\ peepholeBarrier \in BOOLEAN
  /\ ops \in Seq(Requests) /\ at \in Seq(Nat) /\ Len(at) = Len(ops)

(* The pool comes first, then the operations' words one after another.     *)
PlacesInv ==
  /\ Place(1) = 2 * Len(Pool) /\ 2 * Len(Pool) <= Len(instrs)
  /\ \A k \in 1..Len(ops) :
       2 * Len(Pool) <= at[k] /\ at[k] <= Place(k + 1) /\ Place(k + 1) <= Len(instrs)
  /\ \A j, k \in 1..Len(ops) : j < k => Place(j + 1) <= at[k]

WordsInv ==
  /\ \A w \in 1..(2 * Len(Pool)) : instrs[w] = PoolWords[w]
  /\ \A k \in 1..Len(ops) :
       IF Elided(k) THEN Skipped(k)
       ELSE /\ Place(k + 1) = at[k] + Len(Code(k))
            /\ \A j \in 1..Len(Code(k)) : instrs[at[k] + j] = Word(k, j)

FixInv ==
  /\ \A fx \in fixups : \E k \in 1..Len(ops) : ops[k].op \in Branches /\ fx = Fix(k)
  /\ \A k \in 1..Len(ops) : ops[k].op \in Branches => Fix(k) \in fixups
  /\ phase = "run" => \A fx \in fixups : Fixable(fx)
  /\ phase = "error" => \E fx \in fixups : ~Fixable(fx)

LabelInv ==
  /\ DOMAIN opLabels = DOMAIN labels
  /\ \A n \in DOMAIN labels :
       /\ opLabels[n] \in 1..(Len(ops) + 1) /\ labels[n] = Place(opLabels[n])
       /\ phase = "build" /\ opLabels[n] = Len(ops) + 1 => peepholeBarrier

BuildInv == Types /\ IsSeq(instrs) /\ PlacesInv /\ WordsInv /\ FixInv /\ LabelInv

(* The machines: at the start of an operation they agree, and an elided    *)
(* load would change nothing; amid the words of an immediate the register  *)
(* holds its low chunks.                                                   *)
Machine(m) ==
  /\ m = [pc |-> m.pc, reg |-> m.reg, mem |-> m.mem]
  /\ m.reg = [r \in Registers |-> m.reg[r]] /\ m.mem = [s \in Slots |-> m.mem[s]]

Due == ops[model.pc]

AtStart ==
  /\ mach.pc = Place(model.pc) /\ mach.reg = model.reg
  /\ model.pc <= Len(ops) /\ Elided(model.pc) => model.mem[Due.off] = model.reg[Due.rt]

Amid ==
  \E j \in 1..(Len(Code(model.pc)) - 1) :
    /\ model.pc <= Len(ops) /\ Due.op = "movimm" /\ mach.pc = at[model.pc] + j
    /\ mach.reg = [model.reg EXCEPT ![Due.rt] =
                      <<"int", Partial(Due.val, Code(model.pc)[j].sh)>>]

RunInv ==
  phase = "run" /\ Len(instrs) <= LitReach =>
    /\ Machine(mach) /\ Machine(model) /\ model.pc \in 1..(Len(ops) + 1)
    /\ mach.mem = model.mem
    /\ AtStart \/ Amid

BuilderInv == BuildInv /\ RunInv

-----------------------------------------------------------------------------
(* The words of an operation.                                              *)

(* The elements of a concatenation.                                        *)
LEMMA Join ==
  ASSUME NEW s, NEW t, IsSeq(s), IsSeq(t)
  PROVE  /\ IsSeq(s \o t) /\ Len(s) \in Nat /\ Len(t) \in Nat
         /\ Len(s \o t) = Len(s) + Len(t)
         /\ \A i \in 1..Len(s) : (s \o t)[i] = s[i]
         /\ \A i \in 1..Len(t) : (s \o t)[Len(s) + i] = t[i]
<1>1. PICK S : s \in Seq(S)
  BY DEF IsSeq
<1>2. PICK T : t \in Seq(T)
  BY DEF IsSeq
<1>3. PICK U : U = S \cup T
  OBVIOUS
<1>4. s \in Seq(U)
  <2>1. Len(s) \in Nat /\ s = [i \in 1..Len(s) |-> s[i]] /\ \A i \in 1..Len(s) : s[i] \in U
    BY <1>1, <1>3
  <2> QED BY <2>1
<1>5. t \in Seq(U)
  <2>1. Len(t) \in Nat /\ t = [i \in 1..Len(t) |-> t[i]] /\ \A i \in 1..Len(t) : t[i] \in U
    BY <1>2, <1>3
  <2> QED BY <2>1
<1>6. s \o t \in Seq(U) /\ Len(s \o t) = Len(s) + Len(t)
  BY <1>4, <1>5
<1>7. \A i \in 1..Len(s) : (s \o t)[i] = s[i]
  BY <1>4, <1>5
<1>8. \A i \in 1..Len(t) : (s \o t)[Len(s) + i] = t[i]
  BY <1>4, <1>5
<1> QED BY <1>4, <1>5, <1>6, <1>7, <1>8 DEF IsSeq

(* A sequence of one.                                                      *)
LEMMA Single ==
  ASSUME NEW x
  PROVE  IsSeq(<<x>>) /\ Len(<<x>>) = 1 /\ <<x>>[1] = x
<1>1. <<x>> \in Seq({x})
  OBVIOUS
<1> QED BY <1>1 DEF IsSeq

(* emitMOVimm: MOVZ, then MOVKs that each add a chunk, which make up the   *)
(* chunks up to top.                                                       *)
MovWord(op, rd, v, sh) == [op |-> op, rt |-> rd, chunk |-> Chunk(v, sh), sh |-> sh]

MovWords(ws, rd, v, top) ==
  /\ IsSeq(ws) /\ Len(ws) \in 1..(top + 1)
  /\ ws[1] = MovWord("movz", rd, v, 0)
  /\ \A j \in 1..(Len(ws) - 1) : \E s \in 0..3, t \in 1..3 :
       /\ ws[j].sh = s /\ ws[j + 1] = MovWord("movk", rd, v, t)
       /\ Partial(v, t) = Partial(v, s) + Chunk(v, t) * Weight(t)
  /\ \E s \in 0..top : ws[Len(ws)].sh = s /\ Partial(v, s) = Partial(v, top)

(* Zero chunks in between add nothing.                                     *)
LEMMA PartialSteps ==
  ASSUME NEW v \in 0..(Weight(3) * ChunkBase - 1)
  PROVE  /\ \A sh \in 0..3 : Partial(v, sh) \in Nat
         /\ \A sh \in 1..3 : Partial(v, sh) = Partial(v, sh - 1) + Chunk(v, sh) * Weight(sh)
         /\ \A sh \in 1..3 : Chunk(v, sh) = 0 => Partial(v, sh) = Partial(v, sh - 1)
         /\ \A sh \in 1..3 : Chunk(v, sh) * Weight(sh) \in Nat
         /\ Partial(v, 3) = v
<1>1. PICK a \in Nat, b \in Nat, c \in Nat, d \in Nat :
        a = Chunk(v, 0) /\ b = Chunk(v, 1) /\ c = Chunk(v, 2) /\ d = Chunk(v, 3)
  BY AllChunks
<1>2. PICK q \in Nat, r \in Nat, s \in Nat : q = Weight(1) /\ r = Weight(2) /\ s = Weight(3)
  BY AllChunks
<1>3. PICK x \in Nat, y \in Nat, z \in Nat : x = b * q /\ y = c * r /\ z = d * s
  OBVIOUS
<1>4. /\ Partial(v, 0) = a /\ Partial(v, 1) = a + x
      /\ Partial(v, 2) = a + x + y /\ Partial(v, 3) = a + x + y + z
  BY <1>1, <1>2, <1>3 DEF Partial
<1>5. (b = 0 => x = 0) /\ (c = 0 => y = 0) /\ (d = 0 => z = 0)
  BY <1>3
<1>6. \A sh \in 1..3 : Chunk(v, sh) * Weight(sh) \in Nat
  BY <1>1, <1>2, <1>3
<1>7. \A sh \in 1..3 : Partial(v, sh) = Partial(v, sh - 1) + Chunk(v, sh) * Weight(sh)
  BY <1>1, <1>2, <1>3, <1>4
<1>8. \A sh \in 1..3 : Chunk(v, sh) = 0 => Partial(v, sh) = Partial(v, sh - 1)
  BY <1>1, <1>4, <1>5
<1>9. \A sh \in 0..3 : Partial(v, sh) \in Nat
  BY <1>4
<1> QED BY <1>6, <1>7, <1>8, <1>9, AllChunks

(* One more chunk.                                                         *)
LEMMA MovStep ==
  ASSUME NEW rd, NEW v \in 0..(Weight(3) * ChunkBase - 1), NEW top \in 1..3, NEW ws,
         MovWords(ws, rd, v, top - 1)
  PROVE  MovWords(ws \o MOVK(rd, v, top), rd, v, top)
<1>1. /\ IsSeq(ws) /\ Len(ws) \in 1..top /\ ws[1] = MovWord("movz", rd, v, 0)
      /\ \A j \in 1..(Len(ws) - 1) : \E s \in 0..3, t \in 1..3 :
           /\ ws[j].sh = s /\ ws[j + 1] = MovWord("movk", rd, v, t)
           /\ Partial(v, t) = Partial(v, s) + Chunk(v, t) * Weight(t)
  BY DEF MovWords
<1>2. PICK s \in 0..(top - 1) : ws[Len(ws)].sh = s /\ Partial(v, s) = Partial(v, top - 1)
  BY DEF MovWords
<1>3. CASE Chunk(v, top) = 0
  <2>1. MOVK(rd, v, top) = <<>>
    BY <1>3 DEF MOVK
  <2>2. ws \o <<>> = ws
    <3>1. PICK S : ws \in Seq(S)
      BY <1>1 DEF IsSeq
    <3> QED BY <3>1, ConcatEmptySeq
  <2>3. Partial(v, s) = Partial(v, top)
    <3>1. Partial(v, top) = Partial(v, top - 1)
      BY <1>3, PartialSteps, Zenon
    <3> QED BY <1>2, <3>1, Zenon
  <2>4. s \in 0..top /\ Len(ws) \in 1..(top + 1)
    BY <1>1, <1>2
  <2> QED BY <1>1, <1>2, <2>1, <2>2, <2>3, <2>4 DEF MovWords
<1>4. CASE Chunk(v, top) # 0
  <2>1. PICK w : w = MovWord("movk", rd, v, top)
    OBVIOUS
  <2>2. MOVK(rd, v, top) = <<w>>
    BY <1>4, <2>1 DEF MOVK, MovWord
  <2>3. PICK z : z = ws \o <<w>>
    OBVIOUS
  <2>4. PICK n \in Nat : n = Len(ws)
    BY <1>1
  <2>5. /\ IsSeq(z) /\ Len(z) = n + 1 /\ (\A i \in 1..n : z[i] = ws[i]) /\ z[n + 1] = w
    BY <1>1, <2>3, <2>4, Join, Single
  <2>6. z[1] = MovWord("movz", rd, v, 0) /\ Len(z) \in 1..(top + 1)
    BY <1>1, <2>4, <2>5
  <2>7. ASSUME NEW j \in 1..(Len(z) - 1)
        PROVE  \E q \in 0..3, t \in 1..3 :
                 /\ z[j].sh = q /\ z[j + 1] = MovWord("movk", rd, v, t)
                 /\ Partial(v, t) = Partial(v, q) + Chunk(v, t) * Weight(t)
    <3>1. CASE j = n
      <4>1. z[j] = ws[Len(ws)] /\ z[j + 1] = w
        BY <1>1, <2>4, <2>5, <3>1
      <4>2. Partial(v, top) = Partial(v, s) + Chunk(v, top) * Weight(top)
        <5>1. Partial(v, top) = Partial(v, top - 1) + Chunk(v, top) * Weight(top)
          BY PartialSteps, Zenon
        <5> QED BY <1>2, <5>1, Zenon
      <4>3. s \in 0..3
        BY <1>2
      <4> QED BY <1>2, <2>1, <4>1, <4>2, <4>3
    <3>2. CASE j # n
      <4>1. j \in 1..(Len(ws) - 1) /\ z[j] = ws[j] /\ z[j + 1] = ws[j + 1]
        BY <2>4, <2>5, <3>2
      <4> QED BY <1>1, <4>1
    <3> QED BY <3>1, <3>2
  <2>8. z[Len(z)].sh = top
    BY <2>1, <2>5 DEF MovWord
  <2>9. MovWords(z, rd, v, top)
    BY <2>5, <2>6, <2>7, <2>8 DEF MovWords
  <2> QED BY <2>2, <2>3, <2>9
<1> QED BY <1>3, <1>4

(* All four chunks.                                                        *)
LEMMA MovShape ==
  ASSUME NEW rd, NEW v \in 0..(Weight(3) * ChunkBase - 1)
  PROVE  MovWords(emitMOVimm(rd, v), rd, v, 3)
<1> DEFINE z == <<MovWord("movz", rd, v, 0)>>
<1>1. MovWords(z, rd, v, 0)
  <2>1. IsSeq(z) /\ Len(z) = 1 /\ z[1] = MovWord("movz", rd, v, 0)
    BY Single
  <2>2. z[1].sh = 0
    BY <2>1 DEF MovWord
  <2> HIDE DEF z
  <2> QED BY <2>1, <2>2 DEF MovWords
<1> HIDE DEF z
<1>2. MovWords(z \o MOVK(rd, v, 1), rd, v, 1)
  BY <1>1, MovStep
<1>3. MovWords((z \o MOVK(rd, v, 1)) \o MOVK(rd, v, 2), rd, v, 2)
  BY <1>2, MovStep
<1>4. MovWords(((z \o MOVK(rd, v, 1)) \o MOVK(rd, v, 2)) \o MOVK(rd, v, 3), rd, v, 3)
  BY <1>3, MovStep
<1>5. emitMOVimm(rd, v) = ((z \o MOVK(rd, v, 1)) \o MOVK(rd, v, 2)) \o MOVK(rd, v, 3)
  BY DEF emitMOVimm, z, MovWord
<1> QED BY <1>4, <1>5

(* The kinds of operations.                                                *)
LEMMA RequestKinds ==
  ASSUME NEW o \in Requests
  PROVE  \/ o.op \in {"str", "ldr"} /\ o.rt \in Registers /\ o.off \in Slots
         \/ o.op = "movimm" /\ o.rt \in Registers /\ o.val \in 0..(Weight(3) * ChunkBase - 1)
         \/ o.op = "ldrglobal" /\ \E k \in DOMAIN Pool : o.name = Pool[k]
         \/ o.op \in {"b", "bcond"} /\ o.label \in Labels
         \/ o.op = "adr" /\ o.rt \in Registers /\ o.label \in Labels
<1>1. o \in Request
  BY BuilderAssumption
<1> QED BY <1>1 DEF Request

(* Every operation that is not elided has words; a store is the only one   *)
(* that ends in a store.                                                   *)
LEMMA InstructionShape ==
  ASSUME NEW o \in Requests, NEW here \in Nat
  PROVE  /\ IsSeq(Instruction(o, here)) /\ Len(Instruction(o, here)) \in 1..4
         /\ o.op # "movimm" => Len(Instruction(o, here)) = 1
         /\ o.op = "movimm" => MovWords(Instruction(o, here), o.rt, o.val, 3)
         /\ \A j \in 1..Len(Instruction(o, here)) :
              Instruction(o, here)[j].op = "str" =>
                o.op = "str" /\ Instruction(o, here)[j] = [op |-> "str", rt |-> o.rt, off |-> o.off]
         /\ o.op \in Branches => Instruction(o, here)[1].op = o.op
<1> DEFINE w == Instruction(o, here)
<1>1. CASE o.op \in {"str", "ldr"}
  <2>1. w = <<[op |-> o.op, rt |-> o.rt, off |-> o.off]>>
    BY <1>1 DEF Instruction
  <2>2. IsSeq(w) /\ Len(w) = 1 /\ w[1] = [op |-> o.op, rt |-> o.rt, off |-> o.off]
    BY <2>1, Single
  <2> HIDE DEF w
  <2> QED BY <1>1, <2>2 DEF Branches, w
<1>2. CASE o.op = "movimm"
  <2>1. o.val \in 0..(Weight(3) * ChunkBase - 1)
    BY <1>2, RequestKinds
  <2>2. w = emitMOVimm(o.rt, o.val)
    BY <1>2 DEF Instruction
  <2>3. MovWords(w, o.rt, o.val, 3)
    BY <2>1, <2>2, MovShape
  <2>4. IsSeq(w) /\ Len(w) \in 1..4
    BY <2>3 DEF MovWords
  <2>5. ASSUME NEW j \in 1..Len(w) PROVE w[j].op # "str"
    <3>1. CASE j = 1
      BY <2>3, <3>1 DEF MovWords, MovWord
    <3>2. CASE j # 1
      <4>1. j - 1 \in 1..(Len(w) - 1) /\ (j - 1) + 1 = j
        BY <2>4, <3>2
      <4>2. \E t \in 1..3 : w[(j - 1) + 1] = MovWord("movk", o.rt, o.val, t)
        BY <2>3, <4>1 DEF MovWords
      <4> QED BY <4>1, <4>2 DEF MovWord
    <3> QED BY <3>1, <3>2
  <2> HIDE DEF w
  <2> QED BY <1>2, <2>3, <2>4, <2>5 DEF Branches, w
<1>3. CASE o.op = "ldrglobal"
  <2>1. PICK i : i = Encode(2 * (poolIdx(o.name) - 1) - here, LitReach)
    OBVIOUS
  <2>2. w = <<[op |-> "ldrlit", rt |-> X9, imm |-> i]>>
    BY <1>3, <2>1 DEF Instruction
  <2>3. IsSeq(w) /\ Len(w) = 1 /\ w[1] = [op |-> "ldrlit", rt |-> X9, imm |-> i]
    BY <2>2, Single
  <2> HIDE DEF w
  <2> QED BY <1>3, <2>3 DEF Branches, w
<1>4. CASE o.op \in {"b", "bcond"}
  <2>1. w = <<[op |-> o.op, imm |-> 0]>>
    BY <1>4 DEF Instruction
  <2>2. IsSeq(w) /\ Len(w) = 1 /\ w[1] = [op |-> o.op, imm |-> 0]
    BY <2>1, Single
  <2> HIDE DEF w
  <2> QED BY <1>4, <2>2 DEF Branches, w
<1>5. CASE o.op = "adr"
  <2>1. w = <<[op |-> "adr", rt |-> o.rt, imm |-> 0]>>
    BY <1>5 DEF Instruction
  <2>2. IsSeq(w) /\ Len(w) = 1 /\ w[1] = [op |-> "adr", rt |-> o.rt, imm |-> 0]
    BY <2>1, Single
  <2> HIDE DEF w
  <2> QED BY <1>5, <2>2 DEF Branches, w
<1> QED BY <1>1, <1>2, <1>3, <1>4, <1>5, RequestKinds

-----------------------------------------------------------------------------
(* Building.                                                               *)

(* The pool.                                                               *)
LEMMA PoolFacts ==
  /\ Len(Pool) \in Nat /\ DOMAIN Pool = 1..Len(Pool)
  /\ IsSeq(PoolWords) /\ Len(PoolWords) = 2 * Len(Pool)
  /\ \A w \in 1..(2 * Len(Pool)) :
       PoolWords[w] = [op |-> "pool", name |-> Pool[(w + 1) \div 2], half |-> w % 2]
<1>1. Len(Pool) \in Nat /\ DOMAIN Pool = 1..Len(Pool)
  BY BuilderAssumption
<1>2. PICK n \in Nat : n = 2 * Len(Pool)
  BY <1>1
<1>3. PoolWords = [w \in 1..n |->
                     [op |-> "pool", name |-> Pool[(w + 1) \div 2], half |-> w % 2]]
  BY <1>2 DEF PoolWords
<1>4. PICK S : S = {PoolWords[w] : w \in 1..n}
  OBVIOUS
<1>5. PoolWords \in [1..n -> S]
  BY <1>3, <1>4
<1>6. PoolWords \in Seq(S) /\ Len(PoolWords) = n
  BY <1>5
<1> QED BY <1>1, <1>2, <1>3, <1>6 DEF IsSeq

(* Nothing is built at first.                                              *)
LEMMA InitBuild == Init => BuilderInv
<1> SUFFICES ASSUME Init PROVE BuilderInv
  OBVIOUS
<1>1. /\ phase = "build" /\ ops = <<>> /\ at = <<>> /\ instrs = PoolWords
      /\ labels = <<>> /\ opLabels = <<>> /\ fixups = {} /\ peepholeBarrier = FALSE
  BY DEF Init
<1>2. Types /\ Len(ops) = 0
  <2>1. phase \in {"build", "run", "error"} /\ peepholeBarrier \in BOOLEAN
    BY <1>1, Zenon
  <2>2. ops \in Seq(Requests) /\ at \in Seq(Nat) /\ Len(at) = Len(ops) /\ Len(ops) = 0
    BY <1>1
  <2> QED BY <2>1, <2>2 DEF Types
<1>3. PlacesInv
  <2>1. Place(1) = Len(instrs)
    BY <1>2 DEF Place
  <2> QED BY <1>1, <1>2, <2>1, PoolFacts DEF PlacesInv
<1>4. WordsInv
  BY <1>1, <1>2 DEF WordsInv
<1>5. FixInv
  BY <1>1, <1>2 DEF FixInv
<1>6. LabelInv
  BY <1>1 DEF LabelInv
<1>7. RunInv
  BY <1>1 DEF RunInv
<1> QED BY <1>1, <1>2, <1>3, <1>4, <1>5, <1>6, <1>7, PoolFacts DEF BuilderInv, BuildInv

(* emit leaves what is there and appends the words of one operation.       *)
LEMMA EmitFacts ==
  ASSUME BuildInv, NEW o \in Requests, Emit(o), NEW n \in Nat, n = Len(ops)
  PROVE  /\ phase = "build" /\ phase' = "build" /\ UNCHANGED <<labels, opLabels>>
         /\ ops' \in Seq(Requests) /\ at' \in Seq(Nat) /\ Len(ops') = n + 1 /\ Len(at') = n + 1
         /\ \A k \in 1..n : ops[k] \in Requests /\ ops'[k] = ops[k] /\ at'[k] = at[k] /\ at[k] \in Nat
         /\ ops'[n + 1] = o /\ at'[n + 1] = Len(instrs)
         /\ IsSeq(Words(o)) /\ Len(Words(o)) \in Nat
         /\ IsSeq(instrs') /\ Len(instrs) \in Nat /\ Len(instrs') = Len(instrs) + Len(Words(o))
         /\ \A i \in 1..Len(instrs) : instrs'[i] = instrs[i]
         /\ \A i \in 1..Len(Words(o)) : instrs'[Len(instrs) + i] = Words(o)[i]
         /\ \A k \in 1..(n + 1) : Place(k)' = Place(k) /\ Place(k) \in Nat
         /\ Place(n + 1) = Len(instrs) /\ Place(n + 2)' = Len(instrs')
<1>1. /\ phase = "build" /\ phase' = "build" /\ UNCHANGED <<labels, opLabels>>
      /\ ops' = Append(ops, o) /\ at' = Append(at, Len(instrs)) /\ instrs' = instrs \o Words(o)
  BY DEF Emit
<1>2. ops \in Seq(Requests) /\ at \in Seq(Nat) /\ Len(at) = n /\ Len(ops) = n /\ IsSeq(instrs)
  BY DEF BuildInv, Types
<1>3. Len(instrs) \in Nat
  BY <1>2, Join
<1>4. IsSeq(Words(o))
  <2>1. CASE Words(o) = <<>>
    <3>1. <<>> \in Seq(Nat)
      OBVIOUS
    <3> QED BY <2>1, <3>1 DEF IsSeq
  <2>2. CASE Words(o) = Instruction(o, Len(instrs))
    BY <1>3, <2>2, InstructionShape
  <2> QED BY <2>1, <2>2 DEF Words
<1>5. /\ IsSeq(instrs') /\ Len(Words(o)) \in Nat /\ Len(instrs') = Len(instrs) + Len(Words(o))
      /\ \A i \in 1..Len(instrs) : instrs'[i] = instrs[i]
      /\ \A i \in 1..Len(Words(o)) : instrs'[Len(instrs) + i] = Words(o)[i]
  BY <1>1, <1>2, <1>4, Join
<1>6. /\ ops' \in Seq(Requests) /\ Len(ops') = n + 1 /\ ops'[n + 1] = o
      /\ \A k \in 1..n : ops[k] \in Requests /\ ops'[k] = ops[k]
  BY <1>1, <1>2
<1>7. /\ at' \in Seq(Nat) /\ Len(at') = n + 1 /\ at'[n + 1] = Len(instrs)
      /\ \A k \in 1..n : at[k] \in Nat /\ at'[k] = at[k]
  BY <1>1, <1>2, <1>3
<1>8. ASSUME NEW k \in 1..(n + 1) PROVE Place(k)' = Place(k) /\ Place(k) \in Nat
  <2>1. CASE k = n + 1
    BY <1>3, <1>6, <1>7, <2>1 DEF Place
  <2>2. CASE k # n + 1
    <3>1. k \in 1..n /\ ~(k > n) /\ ~(k > n + 1)
      BY <2>2
    <3> QED BY <1>6, <1>7, <3>1 DEF Place
  <2> QED BY <2>1, <2>2
<1>9. Place(n + 1) = Len(instrs) /\ Place(n + 2)' = Len(instrs')
  BY <1>6 DEF Place
<1> QED BY <1>1, <1>3, <1>4, <1>5, <1>6, <1>7, <1>8, <1>9

(* Operations already there keep their words.                              *)
LEMMA EmitKeeps ==
  ASSUME BuildInv, NEW o \in Requests, Emit(o), NEW n \in Nat, n = Len(ops), NEW k \in 1..n
  PROVE  /\ Code(k)' = Code(k) /\ Fix(k)' = Fix(k) /\ (Elided(k)' <=> Elided(k))
         /\ \A j : Word(k, j) = Code(k)[j] /\ Word(k, j)' = Code(k)[j]
         /\ IsSeq(Code(k)) /\ Len(Code(k)) \in 1..4
<1>1. phase = "build" /\ phase' = "build"
  BY EmitFacts
<1>2. /\ ops[k] \in Requests /\ ops'[k] = ops[k] /\ at'[k] = at[k] /\ at[k] \in Nat
  BY EmitFacts
<1>3. k + 1 \in 1..(n + 1) /\ Place(k + 1)' = Place(k + 1)
  BY EmitFacts
<1>4. Code(k)' = Code(k) /\ Fix(k)' = Fix(k)
  BY <1>2 DEF Code, Fix
<1>5. Elided(k)' <=> Elided(k)
  BY <1>2, <1>3 DEF Elided
<1>6. \A j : Word(k, j) = Code(k)[j] /\ Word(k, j)' = Code(k)[j]
  BY <1>1, <1>4 DEF Word
<1>7. IsSeq(Code(k)) /\ Len(Code(k)) \in 1..4
  BY <1>2, InstructionShape DEF Code
<1> QED BY <1>4, <1>5, <1>6, <1>7

(* The places.                                                             *)
LEMMA EmitPlaces ==
  ASSUME BuildInv, NEW o \in Requests, Emit(o) PROVE PlacesInv'
<1>1. PICK n \in Nat : n = Len(ops)
  BY DEF BuildInv, Types
<1>2. /\ Len(instrs) \in Nat /\ Len(instrs') \in Nat /\ Len(instrs) <= Len(instrs')
      /\ Len(ops') = n + 1 /\ at'[n + 1] = Len(instrs) /\ Place(n + 2)' = Len(instrs')
      /\ Place(n + 1) = Len(instrs)
  BY <1>1, EmitFacts
<1>3. \A k \in 1..(n + 1) : Place(k)' = Place(k) /\ Place(k) \in Nat
  BY <1>1, EmitFacts
<1>4. \A k \in 1..n : at'[k] = at[k] /\ at[k] \in Nat
  BY <1>1, EmitFacts
<1>5. PICK p \in Nat : p = 2 * Len(Pool)
  BY PoolFacts
<1>6. /\ Place(1) = p /\ p <= Len(instrs)
      /\ \A k \in 1..n : p <= at[k] /\ at[k] <= Place(k + 1) /\ Place(k + 1) <= Len(instrs)
      /\ \A j, k \in 1..n : j < k => Place(j + 1) <= at[k]
  BY <1>1, <1>5 DEF BuildInv, PlacesInv
<1>7. Place(1)' = p /\ p <= Len(instrs')
  BY <1>2, <1>3, <1>6
<1>8. ASSUME NEW k \in 1..(n + 1)
      PROVE  p <= at'[k] /\ at'[k] <= Place(k + 1)' /\ Place(k + 1)' <= Len(instrs')
  <2>1. CASE k = n + 1
    BY <1>2, <1>6, <2>1
  <2>2. CASE k # n + 1
    <3>1. k \in 1..n /\ k + 1 \in 1..(n + 1)
      BY <2>2
    <3>2. Place(k + 1)' = Place(k + 1) /\ at'[k] = at[k] /\ Place(k + 1) \in Nat
      BY <1>3, <1>4, <3>1
    <3> QED BY <1>2, <1>6, <3>1, <3>2
  <2> QED BY <2>1, <2>2
<1>9. ASSUME NEW j \in 1..(n + 1), NEW k \in 1..(n + 1), j < k PROVE Place(j + 1)' <= at'[k]
  <2>1. j \in 1..n /\ j + 1 \in 1..(n + 1) /\ Place(j + 1)' = Place(j + 1)
    BY <1>3, <1>9
  <2>2. CASE k = n + 1
    BY <1>2, <1>6, <2>1, <2>2
  <2>3. CASE k # n + 1
    <3>1. k \in 1..n
      BY <2>3
    <3> QED BY <1>4, <1>6, <1>9, <2>1, <3>1
  <2> QED BY <2>2, <2>3
<1> QED BY <1>2, <1>5, <1>7, <1>8, <1>9 DEF PlacesInv

(* A load is elided only behind a store of the same register to the same   *)
(* slot, or behind a load that is elided for the same reason.              *)
LEMMA ElidedBehind ==
  ASSUME BuildInv, NEW o \in Requests, phase = "build", peepholeElim(o), NEW n \in Nat, n = Len(ops)
  PROVE  /\ Len(instrs) >= 1 /\ instrs[Len(instrs)] = [op |-> "str", rt |-> o.rt, off |-> o.off]
         /\ n >= 1
         /\ ops[n].op = "str" \/ (ops[n].op = "ldr" /\ Elided(n))
         /\ ops[n].rt = o.rt /\ ops[n].off = o.off
<1> DEFINE w == [op |-> "str", rt |-> o.rt, off |-> o.off]
<1>1. instrs # <<>> /\ Last(instrs) = w
  BY DEF peepholeElim
<1>2. Len(instrs) \in Nat /\ Len(instrs) >= 1
  <2>1. PICK S : instrs \in Seq(S)
    BY DEF BuildInv, IsSeq
  <2> QED BY <1>1, <2>1
<1>3. instrs[Len(instrs)] = w
  BY <1>1 DEF Last
<1>4. Place(n + 1) = Len(instrs)
  BY DEF Place
<1>5. n # 0
  <2> SUFFICES ASSUME n = 0 PROVE FALSE
    OBVIOUS
  <2>1. Len(instrs) = 2 * Len(Pool)
    BY <1>4 DEF BuildInv, PlacesInv
  <2>2. instrs[Len(instrs)] = PoolWords[Len(instrs)]
    BY <1>2, <2>1 DEF BuildInv, WordsInv
  <2>3. PoolWords[Len(instrs)].op = "pool"
    BY <1>2, <2>1, PoolFacts
  <2>4. w.op = "str"
    OBVIOUS
  <2> HIDE DEF w
  <2> QED BY <1>3, <2>2, <2>3, <2>4
<1>6. n \in 1..Len(ops) /\ ops[n] \in Requests /\ at[n] \in Nat
  BY <1>5 DEF BuildInv, Types
<1>7. CASE Elided(n)
  <2>1. Skipped(n) /\ at[n] = Len(instrs)
    BY <1>4, <1>6, <1>7 DEF BuildInv, WordsInv, Elided
  <2>2. w = [op |-> "str", rt |-> ops[n].rt, off |-> ops[n].off] /\ ops[n].op = "ldr"
    BY <1>3, <2>1 DEF Skipped
  <2> QED BY <1>2, <1>3, <1>5, <1>7, <2>2
<1>8. CASE ~Elided(n)
  <2>1. /\ Place(n + 1) = at[n] + Len(Code(n))
        /\ \A j \in 1..Len(Code(n)) : instrs[at[n] + j] = Word(n, j)
    BY <1>6, <1>8 DEF BuildInv, WordsInv
  <2>2. Len(Code(n)) \in 1..Len(Code(n))
    <3>1. PICK m \in 1..4 : m = Len(Code(n))
      BY <1>6, InstructionShape DEF Code
    <3>2. m \in 1..m
      OBVIOUS
    <3> QED BY <3>1, <3>2
  <2>3. w = Code(n)[Len(Code(n))]
    <3>1. instrs[at[n] + Len(Code(n))] = Word(n, Len(Code(n)))
      BY <2>1, <2>2, Zenon
    <3> QED BY <1>3, <1>4, <2>1, <3>1 DEF Word
  <2>4. ops[n].op = "str" /\ w = [op |-> "str", rt |-> ops[n].rt, off |-> ops[n].off]
    <3>1. w.op = "str"
      OBVIOUS
    <3> HIDE DEF w
    <3>2. Code(n)[Len(Code(n))].op = "str" /\ Len(Code(n)) \in 1..Len(Code(n))
      BY <2>2, <2>3, <3>1, Zenon
    <3>3. \A j \in 1..Len(Code(n)) : Code(n)[j].op = "str" =>
            /\ ops[n].op = "str"
            /\ Code(n)[j] = [op |-> "str", rt |-> ops[n].rt, off |-> ops[n].off]
      BY <1>6, InstructionShape DEF Code
    <3> QED BY <2>3, <3>2, <3>3
  <2> QED BY <1>2, <1>3, <1>5, <2>4
<1> QED BY <1>7, <1>8

(* The words of the operations.                                            *)
LEMMA EmitWords ==
  ASSUME BuildInv, NEW o \in Requests, Emit(o) PROVE WordsInv'
<1>1. PICK n \in Nat : n = Len(ops)
  BY DEF BuildInv, Types
<1>2. /\ phase = "build" /\ phase' = "build" /\ UNCHANGED opLabels
      /\ Len(instrs) \in Nat /\ Len(instrs') = Len(instrs) + Len(Words(o)) /\ Len(Words(o)) \in Nat
      /\ Len(ops') = n + 1 /\ at'[n + 1] = Len(instrs) /\ Place(n + 2)' = Len(instrs')
      /\ ops'[n + 1] = o
  BY <1>1, EmitFacts
<1>3. \A i \in 1..Len(instrs) : instrs'[i] = instrs[i]
  BY <1>1, EmitFacts
<1>4. \A i \in 1..Len(Words(o)) : instrs'[Len(instrs) + i] = Words(o)[i]
  BY <1>1, EmitFacts
<1>5. \A k \in 1..n : ops'[k] = ops[k] /\ at'[k] = at[k] /\ at[k] \in Nat
  BY <1>1, EmitFacts
<1>6. \A k \in 1..(n + 1) : Place(k)' = Place(k) /\ Place(k) \in Nat
  BY <1>1, EmitFacts
<1>7. \A k \in 1..n : /\ Code(k)' = Code(k) /\ (Elided(k)' <=> Elided(k))
                      /\ Len(Code(k)) \in 1..4
                      /\ \A j : Word(k, j) = Code(k)[j] /\ Word(k, j)' = Code(k)[j]
  BY <1>1, EmitKeeps
<1>8. ASSUME NEW w \in 1..(2 * Len(Pool)) PROVE instrs'[w] = PoolWords[w]
  <2>1. w \in 1..Len(instrs) /\ instrs[w] = PoolWords[w]
    BY <1>2, PoolFacts DEF BuildInv, PlacesInv, WordsInv
  <2> QED BY <1>3, <2>1
<1>9. ASSUME NEW k \in 1..n, Elided(k) PROVE Skipped(k)'
  <2>1. Skipped(k)
    BY <1>1, <1>9 DEF BuildInv, WordsInv
  <2>2. k - 1 \in 1..n
    BY <2>1 DEF Skipped
  <2>3. /\ ops'[k] = ops[k] /\ ops'[k - 1] = ops[k - 1] /\ at'[k] = at[k]
        /\ (Elided(k - 1)' <=> Elided(k - 1))
    BY <1>5, <1>7, <2>2
  <2>4. at[k] \in Nat /\ at[k] <= Len(instrs)
    <3>1. at[k] \in Nat /\ at[k] <= Place(k + 1) /\ Place(k + 1) <= Len(instrs) /\ Place(k + 1) \in Nat
      BY <1>1, <1>5, <1>6 DEF BuildInv, PlacesInv
    <3> QED BY <1>2, <3>1
  <2>5. at[k] >= 1 /\ instrs[at[k]] = [op |-> "str", rt |-> ops[k].rt, off |-> ops[k].off]
    BY <1>2, <2>1 DEF Skipped
  <2>6. instrs'[at[k]] = instrs[at[k]]
    BY <1>2, <1>3, <2>4, <2>5
  <2>7. /\ ops[k].op = "ldr" /\ k > 1
        /\ ops[k - 1].op = "str" \/ (ops[k - 1].op = "ldr" /\ Elided(k - 1))
        /\ ops[k - 1].rt = ops[k].rt /\ ops[k - 1].off = ops[k].off
        /\ \A m \in DOMAIN opLabels : opLabels[m] # k
    BY <2>1 DEF Skipped
  <2> QED BY <1>2, <2>3, <2>5, <2>6, <2>7 DEF Skipped
<1>10. ASSUME NEW k \in 1..n, ~Elided(k)
       PROVE  /\ Place(k + 1)' = at'[k] + Len(Code(k)')
              /\ \A j \in 1..Len(Code(k)') : instrs'[at'[k] + j] = Word(k, j)'
  <2>1. /\ Place(k + 1) = at[k] + Len(Code(k))
        /\ \A j \in 1..Len(Code(k)) : instrs[at[k] + j] = Word(k, j)
    BY <1>1, <1>10 DEF BuildInv, WordsInv
  <2>2. Place(k + 1)' = Place(k + 1) /\ Place(k + 1) <= Len(instrs)
    BY <1>1, <1>6 DEF BuildInv, PlacesInv
  <2>3. ASSUME NEW j \in 1..Len(Code(k)) PROVE instrs'[at[k] + j] = Word(k, j)'
    <3>1. at[k] + j \in 1..Len(instrs)
      BY <1>2, <1>5, <1>7, <2>1, <2>2
    <3>2. instrs'[at[k] + j] = instrs[at[k] + j]
      BY <1>3, <3>1
    <3> QED BY <1>7, <2>1, <3>2
  <2> QED BY <1>5, <1>7, <2>1, <2>2, <2>3
<1>11. (n + 1) + 1 = n + 2
  OBVIOUS
<1>12. Elided(n + 1)' <=> Len(Words(o)) = 0
  BY <1>2, <1>11 DEF Elided
<1>13. Code(n + 1)' = Instruction(o, Len(instrs)) /\ \A j : Word(n + 1, j)' = Code(n + 1)'[j]
  BY <1>2 DEF Code, Word
<1> DEFINE Right(k) ==
      IF Elided(k)' THEN Skipped(k)'
      ELSE /\ Place(k + 1)' = at'[k] + Len(Code(k)')
           /\ \A j \in 1..Len(Code(k)') : instrs'[at'[k] + j] = Word(k, j)'
<1>14. ASSUME o.op = "ldr" /\ peepholeElim(o) PROVE Right(n + 1)
  <2>1. Len(Words(o)) = 0
    BY <1>14 DEF Words
  <2>2. /\ Len(instrs) >= 1 /\ instrs[Len(instrs)] = [op |-> "str", rt |-> o.rt, off |-> o.off]
        /\ n >= 1
        /\ ops[n].op = "str" \/ (ops[n].op = "ldr" /\ Elided(n))
        /\ ops[n].rt = o.rt /\ ops[n].off = o.off
    BY <1>1, <1>2, <1>14, ElidedBehind
  <2>3. /\ n + 1 > 1 /\ (n + 1) - 1 = n /\ n \in 1..n
        /\ ops'[n] = ops[n] /\ (Elided(n)' <=> Elided(n))
    BY <1>5, <1>7, <2>2
  <2>4. instrs'[Len(instrs)] = instrs[Len(instrs)]
    BY <1>2, <1>3, <2>2
  <2>5. \A m \in DOMAIN opLabels : opLabels[m] # n + 1
    <3>1. ~peepholeBarrier
      BY <1>14 DEF peepholeElim
    <3> QED BY <1>1, <1>2, <3>1 DEF BuildInv, LabelInv
  <2>6. Skipped(n + 1)'
    BY <1>2, <1>14, <2>2, <2>3, <2>4, <2>5 DEF Skipped
  <2>7. IF Elided(n + 1)' THEN Skipped(n + 1)'
        ELSE /\ Place((n + 1) + 1)' = at'[n + 1] + Len(Code(n + 1)')
             /\ \A j \in 1..Len(Code(n + 1)') : instrs'[at'[n + 1] + j] = Word(n + 1, j)'
    BY <1>12, <2>1, <2>6
  <2> QED BY <2>7
<1>15. ASSUME ~(o.op = "ldr" /\ peepholeElim(o)) PROVE Right(n + 1)
  <2>1. Words(o) = Instruction(o, Len(instrs))
    BY <1>15 DEF Words
  <2>2. Len(Words(o)) \in 1..4
    BY <1>2, <2>1, InstructionShape
  <2>3. /\ Place((n + 1) + 1)' = at'[n + 1] + Len(Code(n + 1)')
        /\ \A j \in 1..Len(Code(n + 1)') : instrs'[at'[n + 1] + j] = Word(n + 1, j)'
    BY <1>2, <1>4, <1>11, <1>13, <2>1
  <2>4. ~Elided(n + 1)'
    BY <1>12, <2>2
  <2> QED BY <2>3, <2>4
<1>16. ASSUME NEW k \in 1..n PROVE Right(k)
  BY <1>7, <1>9, <1>10
<1>17. \A k \in 1..Len(ops') : Right(k)
  <2>1. \A k \in 1..Len(ops') : k = n + 1 \/ k \in 1..n
    BY <1>2
  <2> HIDE DEF Right
  <2> QED BY <1>14, <1>15, <1>16, <2>1
<1> QED BY <1>8, <1>17 DEF WordsInv

(* The placeholders.                                                       *)
LEMMA EmitFix ==
  ASSUME BuildInv, NEW o \in Requests, Emit(o) PROVE FixInv'
<1>1. PICK n \in Nat : n = Len(ops)
  BY DEF BuildInv, Types
<1>2. /\ phase' = "build" /\ Len(ops') = n + 1 /\ at'[n + 1] = Len(instrs) /\ ops'[n + 1] = o
  BY <1>1, EmitFacts
<1>3. \A k \in 1..n : ops'[k] = ops[k] /\ Fix(k)' = Fix(k)
  BY <1>1, EmitFacts, EmitKeeps
<1>4. fixups' = fixups \cup Placeholder(o)
  BY DEF Emit
<1>5. Fix(n + 1)' = [at |-> Len(instrs), label |-> o.label, kind |-> o.op]
  BY <1>2 DEF Fix
<1>6. /\ \A fx \in fixups : \E k \in 1..n : ops[k].op \in Branches /\ fx = Fix(k)
      /\ \A k \in 1..n : ops[k].op \in Branches => Fix(k) \in fixups
  BY <1>1 DEF BuildInv, FixInv
<1>7. /\ n + 1 \in 1..(n + 1) /\ 1..n \subseteq 1..(n + 1)
      /\ \A k \in 1..(n + 1) : k = n + 1 \/ k \in 1..n
  OBVIOUS
<1>8. \A fx \in Placeholder(o) : o.op \in Branches /\ fx = Fix(n + 1)'
  BY <1>5 DEF Placeholder
<1>9. o.op \in Branches => Fix(n + 1)' \in Placeholder(o)
  BY <1>5 DEF Placeholder
<1>10. \A fx \in fixups' : \E k \in 1..(n + 1) : ops'[k].op \in Branches /\ fx = Fix(k)'
  <2> SUFFICES ASSUME NEW fx \in fixups'
               PROVE  \E k \in 1..(n + 1) : ops'[k].op \in Branches /\ fx = Fix(k)'
    OBVIOUS
  <2>1. CASE fx \in fixups
    <3>1. PICK k \in 1..n : ops[k].op \in Branches /\ fx = Fix(k)
      BY <1>6, <2>1
    <3>2. k \in 1..(n + 1) /\ ops'[k].op \in Branches /\ fx = Fix(k)'
      BY <1>3, <1>7, <3>1
    <3> QED BY <3>2
  <2>2. CASE fx \in Placeholder(o)
    <3>1. ops'[n + 1].op \in Branches /\ fx = Fix(n + 1)'
      BY <1>2, <1>8, <2>2
    <3> QED BY <1>7, <3>1
  <2> QED BY <1>4, <2>1, <2>2
<1>11. \A k \in 1..(n + 1) : ops'[k].op \in Branches => Fix(k)' \in fixups'
  <2> SUFFICES ASSUME NEW k \in 1..(n + 1), ops'[k].op \in Branches PROVE Fix(k)' \in fixups'
    OBVIOUS
  <2>1. CASE k = n + 1
    <3>1. o.op \in Branches
      BY <1>2, <2>1
    <3> QED BY <1>4, <1>9, <2>1, <3>1
  <2>2. CASE k \in 1..n
    BY <1>3, <1>4, <1>6, <2>2
  <2> QED BY <1>7, <2>1, <2>2
<1> QED BY <1>2, <1>10, <1>11 DEF FixInv

(* The labels.                                                             *)
LEMMA EmitLabel ==
  ASSUME BuildInv, NEW o \in Requests, Emit(o) PROVE LabelInv'
<1>1. PICK n \in Nat : n = Len(ops)
  BY DEF BuildInv, Types
<1>2. /\ phase' = "build" /\ Len(ops') = n + 1 /\ labels' = labels /\ opLabels' = opLabels
  BY <1>1, EmitFacts
<1>3. \A k \in 1..(n + 1) : Place(k)' = Place(k)
  BY <1>1, EmitFacts
<1>4. DOMAIN opLabels = DOMAIN labels
  BY DEF BuildInv, LabelInv
<1>5. ASSUME NEW m \in DOMAIN labels
      PROVE  opLabels[m] \in 1..(n + 2) /\ opLabels[m] # n + 2 /\ labels[m] = Place(opLabels[m])'
  <2>1. opLabels[m] \in 1..(n + 1) /\ labels[m] = Place(opLabels[m])
    BY <1>1 DEF BuildInv, LabelInv
  <2>2. PICK k \in 1..(n + 1) : k = opLabels[m]
    BY <2>1
  <2>3. Place(k)' = Place(k)
    BY <1>3
  <2>4. Place(opLabels[m])' = Place(k)'
    BY <1>2, <2>2 DEF Place
  <2> QED BY <2>1, <2>2, <2>3, <2>4
<1>6. (n + 1) + 1 = n + 2
  OBVIOUS
<1> QED BY <1>2, <1>4, <1>5, <1>6 DEF LabelInv

(* emit.                                                                   *)
LEMMA EmitInv ==
  ASSUME BuildInv, NEW o \in Requests, Emit(o) PROVE BuildInv'
<1>1. PICK n \in Nat : n = Len(ops)
  BY DEF BuildInv, Types
<1>2. Types' /\ IsSeq(instrs)'
  <2>1. /\ phase' = "build" /\ ops' \in Seq(Requests) /\ at' \in Seq(Nat)
        /\ Len(ops') = n + 1 /\ Len(at') = n + 1 /\ IsSeq(instrs')
    BY <1>1, EmitFacts
  <2>2. peepholeBarrier' \in BOOLEAN
    BY Zenon DEF Emit
  <2>3. phase' \in {"build", "run", "error"} /\ Len(at') = Len(ops')
    BY <2>1
  <2> QED BY <2>1, <2>2, <2>3 DEF Types, IsSeq
<1> QED BY <1>2, EmitPlaces, EmitWords, EmitFix, EmitLabel DEF BuildInv

(* What depends on the operations and their places only.                   *)
LEMMA SamePlaces ==
  ASSUME UNCHANGED <<ops, at>>, Len(instrs') = Len(instrs)
  PROVE  \A k : /\ Place(k)' = Place(k) /\ Code(k)' = Code(k) /\ Fix(k)' = Fix(k)
                /\ (Elided(k)' <=> Elided(k))
<1>1. \A k : Place(k)' = Place(k)
  BY DEF Place
<1>2. \A k : Code(k)' = Code(k) /\ Fix(k)' = Fix(k)
  BY DEF Code, Fix
<1>3. \A k : Elided(k)' <=> Elided(k)
  BY <1>1 DEF Elided
<1> QED BY <1>1, <1>2, <1>3

(* defineLabel stands before the next operation.                           *)
LEMMA DefineLabelInv ==
  ASSUME BuildInv, NEW name \in Labels, defineLabel(name) PROVE BuildInv'
<1>1. PICK n \in Nat : n = Len(ops)
  BY DEF BuildInv, Types
<1>2. /\ phase = "build" /\ phase' = "build" /\ name \notin DOMAIN labels
      /\ peepholeBarrier' = TRUE /\ UNCHANGED <<phase, ops, at, instrs, fixups>>
      /\ labels' = [m \in DOMAIN labels \cup {name} |->
                      IF m = name THEN Len(instrs) ELSE labels[m]]
      /\ opLabels' = [m \in DOMAIN opLabels \cup {name} |->
                        IF m = name THEN n + 1 ELSE opLabels[m]]
  BY <1>1 DEF defineLabel
<1>3. \A k : /\ Place(k)' = Place(k) /\ Code(k)' = Code(k) /\ Fix(k)' = Fix(k)
             /\ (Elided(k)' <=> Elided(k))
  BY <1>2, SamePlaces
<1>4. Types' /\ IsSeq(instrs)'
  <2>1. peepholeBarrier' \in BOOLEAN
    BY <1>2, Zenon
  <2> QED BY <1>2, <2>1 DEF BuildInv, Types, IsSeq
<1>5. PlacesInv'
  BY <1>2, <1>3 DEF BuildInv, PlacesInv
<1>6. ASSUME NEW k \in 1..n, Skipped(k) PROVE Skipped(k)'
  <2>1. /\ ops[k].op = "ldr" /\ k > 1
        /\ ops[k - 1].op = "str" \/ (ops[k - 1].op = "ldr" /\ Elided(k - 1))
        /\ ops[k - 1].rt = ops[k].rt /\ ops[k - 1].off = ops[k].off
        /\ \A m \in DOMAIN opLabels : opLabels[m] # k
        /\ at[k] >= 1 /\ instrs[at[k]] = [op |-> "str", rt |-> ops[k].rt, off |-> ops[k].off]
    BY <1>2, <1>6 DEF Skipped
  <2>2. \A m \in DOMAIN opLabels' : opLabels'[m] # k
    BY <1>2, <2>1
  <2> QED BY <1>2, <1>3, <2>1, <2>2 DEF Skipped
<1>7. \A k, j : Word(k, j)' = Word(k, j)
  BY <1>2, <1>3 DEF Word
<1>8. WordsInv'
  <2>1. ASSUME NEW k \in 1..n
        PROVE  IF Elided(k)' THEN Skipped(k)'
               ELSE /\ Place(k + 1)' = at'[k] + Len(Code(k)')
                    /\ \A j \in 1..Len(Code(k)') : instrs'[at'[k] + j] = Word(k, j)'
    <3>1. IF Elided(k) THEN Skipped(k)
          ELSE /\ Place(k + 1) = at[k] + Len(Code(k))
               /\ \A j \in 1..Len(Code(k)) : instrs[at[k] + j] = Word(k, j)
      BY <1>1 DEF BuildInv, WordsInv
    <3>2. Skipped(k) => Skipped(k)'
      BY <1>6
    <3> QED BY <1>2, <1>3, <1>7, <3>1, <3>2
  <2>2. \A w \in 1..(2 * Len(Pool)) : instrs'[w] = PoolWords[w]
    BY <1>2 DEF BuildInv, WordsInv
  <2>3. Len(ops') = n
    BY <1>1, <1>2
  <2> QED BY <2>1, <2>2, <2>3 DEF WordsInv
<1>9. FixInv'
  BY <1>2, <1>3 DEF BuildInv, FixInv
<1>10. LabelInv'
  <2>1. DOMAIN opLabels' = DOMAIN labels'
    BY <1>2 DEF BuildInv, LabelInv
  <2>2. ASSUME NEW m \in DOMAIN labels'
        PROVE  opLabels'[m] \in 1..(n + 1) /\ labels'[m] = Place(opLabels'[m])
    <3>1. CASE m = name
      <4>1. opLabels'[m] = n + 1 /\ labels'[m] = Len(instrs)
        BY <1>2, <3>1 DEF BuildInv, LabelInv
      <4> QED BY <1>1, <4>1 DEF Place
    <3>2. CASE m # name
      <4>1. m \in DOMAIN labels /\ m \in DOMAIN opLabels
        BY <1>2, <3>2 DEF BuildInv, LabelInv
      <4>2. opLabels'[m] = opLabels[m] /\ labels'[m] = labels[m]
        BY <1>2, <3>2, <4>1
      <4> QED BY <1>1, <4>1, <4>2 DEF BuildInv, LabelInv
    <3> QED BY <3>1, <3>2
  <2>3. Len(ops') = n /\ \A k : Place(k)' = Place(k)
    BY <1>1, <1>2, <1>3
  <2>4. ASSUME NEW m \in DOMAIN labels'
        PROVE  labels'[m] = Place(opLabels[m])'
    <3>1. Place(opLabels[m])' = Place(opLabels'[m])
      BY <1>2 DEF Place
    <3> QED BY <2>2, <3>1
  <2> QED BY <1>2, <2>1, <2>2, <2>3, <2>4 DEF LabelInv
<1> QED BY <1>4, <1>5, <1>8, <1>9, <1>10 DEF BuildInv

-----------------------------------------------------------------------------
(* Patching.                                                               *)

(* A placeholder is the only word of its branch.                           *)
LEMMA FixPlace ==
  ASSUME BuildInv, NEW k \in 1..Len(ops), ops[k].op \in Branches
  PROVE  /\ ops[k] \in Requests /\ at[k] \in Nat /\ ~Elided(k) /\ Place(k + 1) = at[k] + 1
         /\ Len(Code(k)) = 1 /\ instrs[at[k] + 1] = Word(k, 1) /\ Code(k)[1].op = ops[k].op
         /\ Len(instrs) \in Nat /\ at[k] < Len(instrs)
<1>1. ops[k] \in Requests /\ at[k] \in Nat
  BY DEF BuildInv, Types
<1>2. ~Elided(k)
  BY DEF BuildInv, WordsInv, Skipped, Branches
<1>3. /\ Place(k + 1) = at[k] + Len(Code(k))
      /\ \A j \in 1..Len(Code(k)) : instrs[at[k] + j] = Word(k, j)
  BY <1>2 DEF BuildInv, WordsInv
<1>4. Len(Code(k)) = 1 /\ Code(k)[1].op = ops[k].op
  BY <1>1, InstructionShape DEF Code, Branches
<1>5. Len(instrs) \in Nat /\ Place(k + 1) <= Len(instrs)
  BY Join DEF BuildInv, PlacesInv
<1>6. 1 \in 1..Len(Code(k))
  BY <1>4
<1> QED BY <1>1, <1>2, <1>3, <1>4, <1>5, <1>6

(* So no two placeholders are at the same word, ...                        *)
LEMMA FixUnique ==
  ASSUME BuildInv, NEW k \in 1..Len(ops), ops[k].op \in Branches,
         NEW m \in 1..Len(ops), ops[m].op \in Branches, at[k] = at[m]
  PROVE  k = m
<1>1. at[k] \in Nat /\ Place(k + 1) = at[k] + 1 /\ Place(m + 1) = at[m] + 1 /\ Len(ops) \in Nat
  BY FixPlace DEF BuildInv, Types
<1>2. k < m => Place(k + 1) <= at[m]
  BY DEF BuildInv, PlacesInv
<1>3. m < k => Place(m + 1) <= at[k]
  BY DEF BuildInv, PlacesInv
<1> QED BY <1>1, <1>2, <1>3

(* ... and none is in the words of another operation or in the pool.       *)
LEMMA FixApart ==
  ASSUME BuildInv, NEW k \in 1..Len(ops), ops[k].op \notin Branches, ~Elided(k),
         NEW j \in 1..Len(Code(k)), NEW m \in 1..Len(ops), ops[m].op \in Branches
  PROVE  at[m] # at[k] + j - 1
<1>1. at[m] \in Nat /\ Place(m + 1) = at[m] + 1 /\ Len(ops) \in Nat
  BY FixPlace DEF BuildInv, Types
<1>2. at[k] \in Nat /\ Place(k + 1) = at[k] + Len(Code(k)) /\ Len(Code(k)) \in 1..4
  <2>1. ops[k] \in Requests /\ at[k] \in Nat
    BY DEF BuildInv, Types
  <2> QED BY <2>1, InstructionShape DEF BuildInv, WordsInv, Code
<1>3. k < m => Place(k + 1) <= at[m]
  BY DEF BuildInv, PlacesInv
<1>4. m < k => Place(m + 1) <= at[k]
  BY DEF BuildInv, PlacesInv
<1>5. k # m
  OBVIOUS
<1> QED BY <1>1, <1>2, <1>3, <1>4, <1>5

(* applyFixups patches the placeholders and nothing else.                  *)
LEMMA PatchedWords ==
  ASSUME BuildInv, applyFixups
  PROVE  /\ phase = "build" /\ phase' = "run" /\ UNCHANGED <<ops, at, labels, opLabels, fixups>>
         /\ IsSeq(instrs') /\ Len(instrs') = Len(instrs)
         /\ \A k \in 1..Len(ops) : ~Elided(k) =>
              \A j \in 1..Len(Code(k)) : instrs'[at[k] + j] = Word(k, j)'
         /\ \A w \in 1..(2 * Len(Pool)) : instrs'[w] = instrs[w]
<1> DEFINE P(i) == IF \E fx \in fixups : fx.at = i - 1
                     THEN LET fx == CHOOSE fx \in fixups : fx.at = i - 1
                          IN  [instrs[i] EXCEPT !.imm = Encode(Offset(fx), Reach(fx.kind))]
                     ELSE instrs[i]
<1>1. /\ phase = "build" /\ phase' = "run" /\ UNCHANGED <<ops, at, labels, opLabels, fixups>>
      /\ instrs' = [i \in DOMAIN instrs |-> P(i)]
  BY DEF applyFixups
<1>2. Len(instrs) \in Nat /\ DOMAIN instrs = 1..Len(instrs)
  <2>1. PICK S : instrs \in Seq(S)
    BY DEF BuildInv, IsSeq
  <2> QED BY <2>1
<1> HIDE DEF P
<1>3. PICK n \in Nat : n = Len(instrs)
  BY <1>2
<1>4. instrs' = [i \in 1..n |-> P(i)]
  BY <1>1, <1>2, <1>3
<1>5. IsSeq(instrs') /\ Len(instrs') = n
  <2>1. PICK S : S = {P(i) : i \in 1..n}
    OBVIOUS
  <2>2. instrs' \in [1..n -> S]
    BY <1>4, <2>1
  <2>3. instrs' \in Seq(S) /\ Len(instrs') = n
    BY <2>2
  <2> QED BY <2>3 DEF IsSeq
<1>6. \A k : Code(k)' = Code(k) /\ Fix(k)' = Fix(k)
  BY <1>1, <1>3, <1>5, SamePlaces
<1>7. \A fx \in fixups : \E m \in 1..Len(ops) : ops[m].op \in Branches /\ fx = Fix(m) /\ fx.at = at[m]
  BY DEF BuildInv, FixInv, Fix
<1>8. ASSUME NEW k \in 1..Len(ops), ~Elided(k), NEW j \in 1..Len(Code(k))
      PROVE  instrs'[at[k] + j] = Word(k, j)'
  <2>1. ops[k] \in Requests /\ at[k] \in Nat /\ Len(Code(k)) \in 1..4
    <3>1. ops[k] \in Requests /\ at[k] \in Nat
      BY DEF BuildInv, Types
    <3> QED BY <3>1, InstructionShape DEF Code
  <2>2. Place(k + 1) = at[k] + Len(Code(k)) /\ instrs[at[k] + j] = Word(k, j)
    BY <1>8 DEF BuildInv, WordsInv
  <2>3. PICK i \in 1..n : i = at[k] + j
    <3>1. Place(k + 1) <= n
      BY <1>3 DEF BuildInv, PlacesInv
    <3> QED BY <2>1, <2>2, <3>1
  <2>4. instrs'[at[k] + j] = P(i) /\ i - 1 = at[k] + j - 1
    BY <1>4, <2>1, <2>3
  <2>5. instrs[i] = Code(k)[j]
    BY <1>1, <2>2, <2>3 DEF Word
  <2>6. CASE ops[k].op \in Branches
    <3>1. j = 1 /\ Fix(k) \in fixups /\ Fix(k).at = i - 1
      <4>1. Len(Code(k)) = 1
        BY <2>6, FixPlace
      <4>2. Fix(k).at = at[k]
        BY DEF Fix
      <4>3. Fix(k) \in fixups
        BY <2>6 DEF BuildInv, FixInv
      <4> QED BY <2>1, <2>4, <4>1, <4>2, <4>3
    <3>2. ASSUME NEW fx \in fixups, fx.at = i - 1 PROVE fx = Fix(k)
      <4>1. PICK m \in 1..Len(ops) : ops[m].op \in Branches /\ fx = Fix(m) /\ fx.at = at[m]
        BY <1>7
      <4>2. at[k] = at[m]
        BY <2>1, <2>4, <3>1, <3>2, <4>1
      <4>3. k = m
        BY <2>6, <4>1, <4>2, FixUnique
      <4> QED BY <4>1, <4>3
    <3>3. (CHOOSE fx \in fixups : fx.at = i - 1) = Fix(k)
      BY <3>1, <3>2
    <3>4. P(i) = [instrs[i] EXCEPT !.imm = Encode(Offset(Fix(k)), Reach(Fix(k).kind))]
      BY <3>1, <3>3 DEF P
    <3>5. Fix(k).kind = ops[k].op
      BY DEF Fix
    <3>6. Word(k, j)' = [Code(k)[j] EXCEPT !.imm = Encode(Offset(Fix(k)), Reach(ops[k].op))]
      <4>1. Offset(Fix(k))' = Offset(Fix(k))
        BY <1>1, <1>6 DEF Offset
      <4> QED BY <1>1, <1>6, <2>6, <4>1 DEF Word
    <3> QED BY <2>4, <2>5, <3>4, <3>5, <3>6
  <2>7. CASE ops[k].op \notin Branches
    <3>1. ~\E fx \in fixups : fx.at = i - 1
      BY <1>7, <1>8, <2>4, <2>7, FixApart
    <3>2. P(i) = instrs[i]
      BY <3>1 DEF P
    <3>3. Word(k, j)' = Code(k)[j]
      BY <1>1, <1>6, <2>7 DEF Word
    <3> QED BY <2>4, <2>5, <3>2, <3>3
  <2> QED BY <2>6, <2>7
<1>9. ASSUME NEW w \in 1..(2 * Len(Pool)) PROVE instrs'[w] = instrs[w]
  <2>1. 2 * Len(Pool) \in Nat /\ 2 * Len(Pool) <= n
    BY <1>3, PoolFacts DEF BuildInv, PlacesInv
  <2>2. w \in 1..n
    BY <2>1
  <2>3. ASSUME NEW fx \in fixups PROVE fx.at # w - 1
    <3>1. PICK m \in 1..Len(ops) : fx.at = at[m]
      BY <1>7
    <3>2. at[m] \in Nat /\ 2 * Len(Pool) <= at[m]
      BY DEF BuildInv, PlacesInv, Types
    <3> QED BY <2>1, <3>1, <3>2
  <2> QED BY <1>4, <2>2, <2>3 DEF P
<1> QED BY <1>1, <1>3, <1>5, <1>8, <1>9

(* applyFixups succeeds.                                                   *)
LEMMA ApplyFixupsInv ==
  ASSUME BuildInv, applyFixups PROVE BuildInv'
<1>1. /\ phase = "build" /\ phase' = "run" /\ UNCHANGED <<ops, at, labels, opLabels, fixups>>
      /\ IsSeq(instrs') /\ Len(instrs') = Len(instrs)
  BY PatchedWords
<1>2. \A k : /\ Place(k)' = Place(k) /\ Code(k)' = Code(k) /\ Fix(k)' = Fix(k)
             /\ (Elided(k)' <=> Elided(k))
  BY <1>1, SamePlaces
<1>3. Types' /\ IsSeq(instrs)'
  <2>1. peepholeBarrier' = peepholeBarrier
    BY DEF applyFixups
  <2> QED BY <1>1, <2>1 DEF BuildInv, Types, IsSeq
<1>4. PlacesInv'
  BY <1>1, <1>2 DEF BuildInv, PlacesInv
<1>5. WordsInv'
  <2>1. ASSUME NEW k \in 1..Len(ops), Elided(k) PROVE Skipped(k)'
    <3>1. Skipped(k)
      BY <2>1 DEF BuildInv, WordsInv
    <3> QED BY <1>1, <1>2, <3>1 DEF Skipped
  <2>2. ASSUME NEW k \in 1..Len(ops), ~Elided(k)
        PROVE  /\ Place(k + 1)' = at'[k] + Len(Code(k)')
               /\ \A j \in 1..Len(Code(k)') : instrs'[at'[k] + j] = Word(k, j)'
    <3>1. Place(k + 1) = at[k] + Len(Code(k))
      BY <2>2 DEF BuildInv, WordsInv
    <3>2. \A j \in 1..Len(Code(k)) : instrs'[at[k] + j] = Word(k, j)'
      BY <2>2, PatchedWords
    <3> QED BY <1>1, <1>2, <3>1, <3>2
  <2>3. \A w \in 1..(2 * Len(Pool)) : instrs'[w] = PoolWords[w]
    BY PatchedWords DEF BuildInv, WordsInv
  <2> QED BY <1>1, <1>2, <2>1, <2>2, <2>3 DEF WordsInv
<1>6. FixInv'
  <2>1. \A fx \in fixups : Fixable(fx)
    BY DEF applyFixups
  <2>2. \A fx : Fixable(fx)' <=> Fixable(fx)
    BY <1>1 DEF Fixable, Offset
  <2> QED BY <1>1, <1>2, <2>1, <2>2 DEF BuildInv, FixInv
<1>7. LabelInv'
  <2>1. \A m : Place(opLabels[m])' = Place(opLabels[m])
    BY <1>1 DEF Place
  <2> QED BY <1>1, <2>1 DEF BuildInv, LabelInv
<1> QED BY <1>3, <1>4, <1>5, <1>6, <1>7 DEF BuildInv

(* applyFixups fails.                                                      *)
LEMMA FixupErrorInv ==
  ASSUME BuildInv, FixupError PROVE BuildInv'
<1>1. /\ phase = "build" /\ phase' = "error"
      /\ UNCHANGED <<ops, at, instrs, labels, opLabels, fixups, peepholeBarrier>>
      /\ \E fx \in fixups : ~Fixable(fx)
  BY DEF FixupError
<1>2. \A k : /\ Place(k)' = Place(k) /\ Code(k)' = Code(k) /\ Fix(k)' = Fix(k)
             /\ (Elided(k)' <=> Elided(k))
  BY <1>1, SamePlaces
<1>3. Types' /\ IsSeq(instrs)' /\ PlacesInv'
  BY <1>1, <1>2 DEF BuildInv, Types, IsSeq, PlacesInv
<1>4. WordsInv'
  <2>1. \A k : Skipped(k) => Skipped(k)'
    BY <1>1, <1>2 DEF Skipped
  <2>2. \A k, j : Word(k, j)' = Word(k, j)
    BY <1>1, <1>2 DEF Word
  <2> QED BY <1>1, <1>2, <2>1, <2>2 DEF BuildInv, WordsInv
<1>5. FixInv'
  <2>1. \A fx : Fixable(fx)' <=> Fixable(fx)
    BY <1>1 DEF Fixable, Offset
  <2> QED BY <1>1, <1>2, <2>1 DEF BuildInv, FixInv
<1>6. LabelInv'
  <2>1. \A m : Place(opLabels[m])' = Place(opLabels[m])
    BY <1>1 DEF Place
  <2> QED BY <1>1, <2>1 DEF BuildInv, LabelInv
<1> QED BY <1>3, <1>4, <1>5, <1>6 DEF BuildInv

-----------------------------------------------------------------------------
(* Running.                                                                *)

staticVars == <<phase, ops, at, instrs, labels, fixups, peepholeBarrier, opLabels>>

(* Running changes nothing that was built.                                 *)
LEMMA SameBuild ==
  ASSUME UNCHANGED staticVars, BuildInv PROVE BuildInv'
<1>1. UNCHANGED <<phase, ops, at, instrs, labels, fixups, peepholeBarrier, opLabels>>
  BY DEF staticVars
<1>2. \A k : /\ Place(k)' = Place(k) /\ Code(k)' = Code(k) /\ Fix(k)' = Fix(k)
             /\ (Elided(k)' <=> Elided(k))
  BY <1>1, SamePlaces
<1>3. Types' /\ IsSeq(instrs)' /\ PlacesInv'
  BY <1>1, <1>2 DEF BuildInv, Types, IsSeq, PlacesInv
<1>4. WordsInv'
  <2>1. \A k : Skipped(k) => Skipped(k)'
    BY <1>1, <1>2 DEF Skipped
  <2>2. \A k, j : Word(k, j)' = Word(k, j)
    <3>1. \A k : Offset(Fix(k))' = Offset(Fix(k))
      BY <1>1, <1>2 DEF Offset
    <3> QED BY <1>1, <1>2, <3>1 DEF Word
  <2> QED BY <1>1, <1>2, <2>1, <2>2 DEF BuildInv, WordsInv
<1>5. FixInv'
  <2>1. \A fx : Fixable(fx)' <=> Fixable(fx)
    BY <1>1 DEF Fixable, Offset
  <2> QED BY <1>1, <1>2, <2>1 DEF BuildInv, FixInv
<1>6. LabelInv'
  <2>1. \A m : Place(opLabels[m])' = Place(opLabels[m])
    BY <1>1 DEF Place
  <2> QED BY <1>1, <2>1 DEF BuildInv, LabelInv
<1> QED BY <1>3, <1>4, <1>5, <1>6 DEF BuildInv

(* A machine moves by setting a register, ...                              *)
LEMMA SetRegFacts ==
  ASSUME NEW m, Machine(m), NEW r \in Registers, NEW v
  PROVE  /\ Machine(SetReg(m, r, v)) /\ SetReg(m, r, v).pc = m.pc + 1
         /\ SetReg(m, r, v).mem = m.mem
         /\ SetReg(m, r, v).reg = [m.reg EXCEPT ![r] = v]
<1>1. PICK p, R, M : p = m.pc /\ R = m.reg /\ M = m.mem
  OBVIOUS
<1>2. /\ m = [pc |-> p, reg |-> R, mem |-> M]
      /\ R = [q \in Registers |-> R[q]] /\ M = [s \in Slots |-> M[s]]
  BY <1>1 DEF Machine
<1>3. SetReg(m, r, v) = [pc |-> p + 1, reg |-> [R EXCEPT ![r] = v], mem |-> M]
  BY <1>1 DEF SetReg
<1>4. PICK T : T = [R EXCEPT ![r] = v]
  OBVIOUS
<1>5. T = [q \in Registers |-> T[q]]
  BY <1>2, <1>4
<1>6. SetReg(m, r, v) = [pc |-> p + 1, reg |-> T, mem |-> M]
  BY <1>3, <1>4
<1> QED BY <1>1, <1>2, <1>4, <1>5, <1>6 DEF Machine

(* ... by jumping or not, ...                                             *)
LEMMA JumpFacts ==
  ASSUME NEW m, Machine(m), NEW taken \in BOOLEAN, NEW t
  PROVE  /\ Machine(Jump(m, taken, t)) /\ Jump(m, taken, t).pc = IF taken THEN t ELSE m.pc + 1
         /\ Jump(m, taken, t).mem = m.mem /\ Jump(m, taken, t).reg = m.reg
<1>1. PICK p, R, M : p = m.pc /\ R = m.reg /\ M = m.mem
  OBVIOUS
<1>2. /\ m = [pc |-> p, reg |-> R, mem |-> M]
      /\ R = [q \in Registers |-> R[q]] /\ M = [s \in Slots |-> M[s]]
  BY <1>1 DEF Machine
<1>3. PICK z : z = IF taken THEN t ELSE p + 1
  OBVIOUS
<1>4. Jump(m, taken, t) = [m EXCEPT !.pc = z]
  <2>1. CASE taken
    <3>1. z = t
      BY <1>3, <2>1
    <3> QED BY <2>1, <3>1 DEF Jump
  <2>2. CASE ~taken
    <3>1. z = p + 1
      BY <1>3, <2>2
    <3> QED BY <1>1, <2>2, <3>1 DEF Jump
  <2> QED BY <2>1, <2>2
<1>5. Jump(m, taken, t) = [pc |-> z, reg |-> R, mem |-> M]
  BY <1>2, <1>4
<1>6. /\ Machine(Jump(m, taken, t)) /\ Jump(m, taken, t).pc = z
      /\ Jump(m, taken, t).mem = m.mem /\ Jump(m, taken, t).reg = m.reg
  BY <1>1, <1>2, <1>5 DEF Machine
<1>7. z = IF taken THEN t ELSE m.pc + 1
  BY <1>1, <1>3
<1> QED BY <1>6, <1>7

(* ... or by storing a register.                                          *)
LEMMA StoreFacts ==
  ASSUME NEW m, Machine(m), NEW r \in Registers, NEW s \in Slots
  PROVE  /\ Machine(Store(m, s, r)) /\ Store(m, s, r).pc = m.pc + 1
         /\ Store(m, s, r).reg = m.reg
         /\ Store(m, s, r).mem = [m.mem EXCEPT ![s] = m.reg[r]]
<1>1. PICK p, R, M : p = m.pc /\ R = m.reg /\ M = m.mem
  OBVIOUS
<1>2. /\ m = [pc |-> p, reg |-> R, mem |-> M]
      /\ R = [q \in Registers |-> R[q]] /\ M = [q \in Slots |-> M[q]]
  BY <1>1 DEF Machine
<1>3. PICK v : v = R[r]
  OBVIOUS
<1>4. Store(m, s, r) = [pc |-> p + 1, reg |-> R, mem |-> [M EXCEPT ![s] = v]]
  BY <1>1, <1>3 DEF Store
<1>5. PICK T : T = [M EXCEPT ![s] = v]
  OBVIOUS
<1>6. T = [q \in Slots |-> T[q]]
  BY <1>2, <1>5
<1>7. Store(m, s, r) = [pc |-> p + 1, reg |-> R, mem |-> T]
  BY <1>4, <1>5
<1> QED BY <1>1, <1>2, <1>3, <1>5, <1>6, <1>7 DEF Machine

(* Execution starts behind the pool, at the first operation.               *)
LEMMA ApplyFixupsRun ==
  ASSUME BuildInv, applyFixups PROVE RunInv'
<1>1. /\ UNCHANGED <<ops, at>> /\ Len(instrs') = Len(instrs)
  BY PatchedWords
<1>2. \A k : Place(k)' = Place(k) /\ (Elided(k)' <=> Elided(k))
  BY <1>1, SamePlaces
<1>3. mach' = Start(2 * Len(Pool)) /\ model' = Start(1)
  BY DEF applyFixups
<1>4. \A p : Machine(Start(p)) /\ Start(p).pc = p
  <2> SUFFICES ASSUME NEW p PROVE Machine(Start(p)) /\ Start(p).pc = p
    OBVIOUS
  <2>1. PICK R, M : R = [r \in Registers |-> <<"reg", r>>] /\ M = [s \in Slots |-> <<"slot", s>>]
    OBVIOUS
  <2>2. Start(p) = [pc |-> p, reg |-> R, mem |-> M]
    BY <2>1 DEF Start
  <2>3. R = [r \in Registers |-> R[r]] /\ M = [s \in Slots |-> M[s]]
    BY <2>1
  <2> QED BY <2>2, <2>3 DEF Machine
<1>5. mach'.reg = model'.reg /\ mach'.mem = model'.mem
  BY <1>3 DEF Start
<1>6. Len(ops) \in Nat /\ Place(1) = 2 * Len(Pool)
  BY DEF BuildInv, Types, PlacesInv
<1>7. 1 <= Len(ops) => ~Elided(1)
  <2>1. 1 <= Len(ops) /\ Elided(1) => Skipped(1)
    BY <1>6 DEF BuildInv, WordsInv
  <2> QED BY <2>1 DEF Skipped
<1>8. model'.pc = 1 /\ mach'.pc = 2 * Len(Pool)
  BY <1>3, <1>4
<1>9. AtStart'
  <2>1. Place(model.pc)' = Place(1)' /\ (Elided(model.pc)' <=> Elided(1)')
    BY <1>8 DEF Place, Elided
  <2> QED BY <1>1, <1>2, <1>5, <1>6, <1>7, <1>8, <2>1 DEF AtStart
<1>10. Machine(mach)' /\ Machine(model)'
  BY <1>3, <1>4 DEF Machine
<1> QED BY <1>1, <1>5, <1>6, <1>8, <1>9, <1>10 DEF RunInv

(* The operation at hand while the program runs.                           *)
Running(k) ==
  /\ BuilderInv /\ phase = "run" /\ Len(instrs) <= LitReach
  /\ k \in 1..Len(ops) /\ model.pc = k

(* The machines and the operation.                                         *)
LEMMA RunningFacts ==
  ASSUME NEW k, Running(k)
  PROVE  /\ BuildInv /\ Machine(mach) /\ Machine(model) /\ mach.mem = model.mem
         /\ AtStart \/ Amid
         /\ Len(ops) \in Nat /\ k \in 1..Len(ops) /\ k + 1 \in 1..(Len(ops) + 1)
         /\ ops[k] \in Requests /\ at[k] \in Nat /\ Place(k) = at[k] /\ Place(k + 1) \in Nat
<1>1. BuildInv /\ Machine(mach) /\ Machine(model) /\ mach.mem = model.mem /\ (AtStart \/ Amid)
  BY DEF Running, BuilderInv, RunInv
<1>2. Len(ops) \in Nat /\ k \in 1..Len(ops) /\ ops[k] \in Requests /\ at[k] \in Nat
  BY <1>1 DEF Running, BuildInv, Types
<1>3. Place(k) = at[k]
  BY <1>2 DEF Place
<1>4. Place(k + 1) \in Nat
  <2>1. CASE k + 1 > Len(ops)
    <3>1. Len(instrs) \in Nat
      BY <1>1, Join DEF BuildInv
    <3> QED BY <2>1, <3>1 DEF Place
  <2>2. CASE ~(k + 1 > Len(ops))
    <3>1. k + 1 \in 1..Len(ops)
      BY <1>2, <2>2
    <3>2. at[k + 1] \in Nat
      BY <1>1, <3>1 DEF BuildInv, Types
    <3> QED BY <2>2, <3>2 DEF Place
  <2> QED BY <2>1, <2>2
<1> QED BY <1>1, <1>2, <1>3, <1>4

(* The machines arrive at the start of an operation.                       *)
LEMMA Arrive ==
  ASSUME NEW k, Running(k), UNCHANGED staticVars, Machine(mach'), Machine(model'),
         mach'.mem = model'.mem, mach'.reg = model'.reg,
         NEW q \in 1..(Len(ops) + 1), model'.pc = q, mach'.pc = Place(q),
         q <= Len(ops) /\ Elided(q) => model'.mem[ops[q].off] = model'.reg[ops[q].rt]
  PROVE  RunInv'
<1>1. UNCHANGED <<ops, at, instrs>>
  BY DEF staticVars
<1>2. \A j : Place(j)' = Place(j) /\ (Elided(j)' <=> Elided(j))
  BY <1>1, SamePlaces
<1>3. Place(model.pc)' = Place(q) /\ (Elided(model.pc)' <=> Elided(q)) /\ Due' = ops[q]
  <2>1. Place(model.pc)' = Place(q)' /\ Due' = ops'[q]
    BY DEF Place, Due
  <2>2. Elided(model.pc)' <=> (Place(q + 1)' = at'[q])
    BY DEF Place, Elided
  <2>3. Elided(q)' <=> (Place(q + 1)' = at'[q])
    BY DEF Place, Elided
  <2> QED BY <1>1, <1>2, <2>1, <2>2, <2>3
<1>4. AtStart'
  BY <1>1, <1>3 DEF AtStart
<1>5. Machine(mach)' /\ Machine(model)'
  BY DEF Machine
<1> QED BY <1>1, <1>4, <1>5 DEF RunInv

(* What an elided operation follows.                                       *)
LEMMA NextElided ==
  ASSUME BuildInv, NEW k \in 1..Len(ops), k + 1 <= Len(ops), Elided(k + 1)
  PROVE  /\ ops[k].op = "str" \/ (ops[k].op = "ldr" /\ Elided(k))
         /\ ops[k].rt = ops[k + 1].rt /\ ops[k].off = ops[k + 1].off
<1>1. k + 1 \in 1..Len(ops) /\ (k + 1) - 1 = k
  BY DEF BuildInv, Types
<1>2. Skipped(k + 1)
  BY <1>1 DEF BuildInv, WordsInv
<1> QED BY <1>1, <1>2 DEF Skipped

(* A jump goes to an operation that is not elided.                         *)
LEMMA LabelTarget ==
  ASSUME BuildInv, NEW n \in DOMAIN labels
  PROVE  /\ opLabels[n] \in 1..(Len(ops) + 1) /\ labels[n] = Place(opLabels[n])
         /\ opLabels[n] <= Len(ops) => ~Elided(opLabels[n])
<1>1. opLabels[n] \in 1..(Len(ops) + 1) /\ labels[n] = Place(opLabels[n]) /\ n \in DOMAIN opLabels
  BY DEF BuildInv, LabelInv
<1>2. ASSUME opLabels[n] <= Len(ops), Elided(opLabels[n]) PROVE FALSE
  <2>1. opLabels[n] \in 1..Len(ops)
    BY <1>1, <1>2 DEF BuildInv, Types
  <2>2. Skipped(opLabels[n])
    BY <1>2, <2>1 DEF BuildInv, WordsInv
  <2> QED BY <1>1, <2>2 DEF Skipped
<1> QED BY <1>1, <1>2

(* The first word of an operation.                                         *)
LEMMA FirstWord ==
  ASSUME NEW k, Running(k), AtStart, mach.pc < Place(k + 1)
  PROVE  /\ mach.pc = at[k] /\ mach.reg = model.reg /\ ~Elided(k)
         /\ WordAt(mach.pc) = Word(k, 1)
         /\ Len(Code(k)) \in 1..4 /\ Place(k + 1) = at[k] + Len(Code(k))
         /\ ops[k].op # "movimm" => mach.pc + 1 = Place(k + 1)
<1>1. /\ BuildInv /\ k \in 1..Len(ops) /\ ops[k] \in Requests /\ at[k] \in Nat
      /\ Place(k) = at[k] /\ Place(k + 1) \in Nat /\ model.pc = k
  BY RunningFacts DEF Running
<1>2. mach.pc = at[k] /\ mach.reg = model.reg
  BY <1>1 DEF AtStart
<1>3. ~Elided(k)
  BY <1>1, <1>2 DEF Elided
<1>4. /\ Place(k + 1) = at[k] + Len(Code(k))
      /\ \A j \in 1..Len(Code(k)) : instrs[at[k] + j] = Word(k, j)
  BY <1>1, <1>3 DEF BuildInv, WordsInv
<1>5. Len(Code(k)) \in 1..4 /\ (ops[k].op # "movimm" => Len(Code(k)) = 1)
  BY <1>1, InstructionShape DEF Code
<1>6. instrs[at[k] + 1] = Word(k, 1)
  <2>1. PICK m \in 1..4 : m = Len(Code(k))
    BY <1>5
  <2>2. 1 \in 1..m
    OBVIOUS
  <2> QED BY <1>4, <2>1, <2>2
<1> QED BY <1>1, <1>2, <1>3, <1>4, <1>5, <1>6 DEF WordAt

(* One word does an operation and the next one follows.                    *)
LEMMA OneWord ==
  ASSUME NEW k, Running(k), AtStart, NEW taken \in BOOLEAN, Step(taken), ops[k].op # "movimm"
  PROVE  /\ UNCHANGED staticVars
         /\ mach' = ExecWord(mach, Word(k, 1), taken) /\ model' = ExecOp(model, ops[k], taken)
         /\ mach.pc = at[k] /\ mach.reg = model.reg /\ mach.mem = model.mem /\ ~Elided(k)
         /\ Machine(mach) /\ Machine(model) /\ model.pc = k /\ at[k] + 1 = Place(k + 1)
         /\ BuildInv /\ ops[k] \in Requests /\ at[k] \in Nat /\ k \in Nat
         /\ k + 1 \in 1..(Len(ops) + 1) /\ k \in 1..Len(ops)
<1>1. /\ BuildInv /\ Machine(mach) /\ Machine(model) /\ mach.mem = model.mem /\ model.pc = k
      /\ ops[k] \in Requests /\ at[k] \in Nat /\ k + 1 \in 1..(Len(ops) + 1)
      /\ k \in 1..Len(ops) /\ k \in Nat
  BY RunningFacts DEF Running
<1>2. /\ mach.pc < Place(k + 1) /\ UNCHANGED staticVars
      /\ mach' = ExecWord(mach, WordAt(mach.pc), taken)
      /\ model' = IF mach.pc + 1 = Place(k + 1) THEN ExecOp(model, ops[k], taken) ELSE model
  BY <1>1 DEF Step, staticVars
<1>3. /\ mach.pc = at[k] /\ mach.reg = model.reg /\ ~Elided(k)
      /\ WordAt(mach.pc) = Word(k, 1) /\ mach.pc + 1 = Place(k + 1)
  BY <1>2, FirstWord
<1> QED BY <1>1, <1>2, <1>3

(* Both machines set the same register to the same value and go on.        *)
LEMMA SameSet ==
  ASSUME NEW k, Running(k), AtStart, NEW taken \in BOOLEAN, Step(taken),
         ops[k].op \in {"ldr", "ldrglobal", "adr"}, NEW r \in Registers, NEW v,
         mach' = SetReg(mach, r, v), model' = SetReg(model, r, v)
  PROVE  RunInv'
<1>1. /\ UNCHANGED staticVars /\ mach.pc = at[k] /\ mach.reg = model.reg /\ mach.mem = model.mem
      /\ ~Elided(k) /\ Machine(mach) /\ Machine(model) /\ model.pc = k
      /\ at[k] + 1 = Place(k + 1) /\ BuildInv /\ k \in 1..Len(ops) /\ k + 1 \in 1..(Len(ops) + 1)
  BY OneWord
<1>2. /\ Machine(mach') /\ mach'.pc = Place(k + 1) /\ mach'.mem = mach.mem
      /\ mach'.reg = [mach.reg EXCEPT ![r] = v]
  BY <1>1, SetRegFacts
<1>3. /\ Machine(model') /\ model'.pc = k + 1 /\ model'.mem = model.mem
      /\ model'.reg = [model.reg EXCEPT ![r] = v]
  BY <1>1, SetRegFacts
<1>4. k + 1 <= Len(ops) => ~Elided(k + 1)
  BY <1>1, NextElided
<1>5. mach'.mem = model'.mem /\ mach'.reg = model'.reg
  BY <1>1, <1>2, <1>3
<1> QED BY <1>1, <1>2, <1>3, <1>4, <1>5, Arrive

(* What each word does.                                                    *)
LEMMA WordRuns ==
  ASSUME NEW m, NEW w, NEW taken
  PROVE  /\ w.op = "str" => ExecWord(m, w, taken) = Store(m, w.off, w.rt)
         /\ w.op = "ldr" => ExecWord(m, w, taken) = SetReg(m, w.rt, m.mem[w.off])
         /\ w.op = "movz" => ExecWord(m, w, taken) = SetReg(m, w.rt, <<"int", w.chunk>>)
         /\ w.op = "movk" => ExecWord(m, w, taken) =
              SetReg(m, w.rt, <<"int", m.reg[w.rt][2] + w.chunk * Weight(w.sh)>>)
         /\ w.op = "ldrlit" => ExecWord(m, w, taken) =
              SetReg(m, w.rt, Literal(m.pc + Decode(w.imm, LitReach)))
         /\ w.op = "adr" => ExecWord(m, w, taken) =
              SetReg(m, w.rt, <<"code", m.pc + Decode(w.imm, AdrReach) \div 4>>)
         /\ w.op = "b" => ExecWord(m, w, taken) = Jump(m, TRUE, m.pc + Decode(w.imm, BranchReach))
         /\ w.op = "bcond" => ExecWord(m, w, taken) =
              Jump(m, taken, m.pc + Decode(w.imm, CondReach))
<1>1. CASE w.op = "str"
  BY <1>1 DEF ExecWord
<1>2. CASE w.op = "ldr"
  BY <1>2 DEF ExecWord
<1>3. CASE w.op = "movz"
  BY <1>3 DEF ExecWord
<1>4. CASE w.op = "movk"
  BY <1>4 DEF ExecWord
<1>5. CASE w.op = "ldrlit"
  BY <1>5 DEF ExecWord
<1>6. CASE w.op = "adr"
  BY <1>6 DEF ExecWord
<1>7. CASE w.op = "b"
  BY <1>7 DEF ExecWord
<1>8. CASE w.op = "bcond"
  BY <1>8 DEF ExecWord
<1> QED BY <1>1, <1>2, <1>3, <1>4, <1>5, <1>6, <1>7, <1>8

(* What each operation means.                                              *)
LEMMA OpRuns ==
  ASSUME NEW m, NEW o, NEW taken
  PROVE  /\ o.op = "movimm" => ExecOp(m, o, taken) = SetReg(m, o.rt, <<"int", o.val>>)
         /\ o.op = "b" => ExecOp(m, o, taken) = Jump(m, TRUE, opLabels[o.label])
         /\ o.op = "bcond" => ExecOp(m, o, taken) = Jump(m, taken, opLabels[o.label])
         /\ o.op = "ldr" => ExecOp(m, o, taken) = SetReg(m, o.rt, m.mem[o.off])
<1>1. CASE o.op = "movimm"
  BY <1>1 DEF ExecOp
<1>2. CASE o.op = "b"
  BY <1>2 DEF ExecOp
<1>3. CASE o.op = "bcond"
  BY <1>3 DEF ExecOp
<1>4. CASE o.op = "ldr"
  BY <1>4 DEF ExecOp
<1> QED BY <1>1, <1>2, <1>3, <1>4

(* A store.                                                                *)
LEMMA StrRun ==
  ASSUME NEW k, Running(k), AtStart, NEW taken \in BOOLEAN, Step(taken), ops[k].op = "str"
  PROVE  RunInv'
<1>1. /\ UNCHANGED staticVars
      /\ mach' = ExecWord(mach, Word(k, 1), taken) /\ model' = ExecOp(model, ops[k], taken)
      /\ mach.pc = at[k] /\ mach.reg = model.reg /\ mach.mem = model.mem /\ ~Elided(k)
      /\ Machine(mach) /\ Machine(model) /\ model.pc = k /\ at[k] + 1 = Place(k + 1)
      /\ BuildInv /\ ops[k] \in Requests /\ k \in 1..Len(ops) /\ k + 1 \in 1..(Len(ops) + 1)
  BY OneWord
<1>2. PICK r \in Registers, s \in Slots : r = ops[k].rt /\ s = ops[k].off
  BY <1>1, RequestKinds
<1>3. Word(k, 1) = [op |-> "str", rt |-> r, off |-> s]
  <2>1. Code(k) = <<[op |-> "str", rt |-> r, off |-> s]>>
    BY <1>2 DEF Code, Instruction
  <2>2. Word(k, 1) = Code(k)[1]
    BY DEF Word, Branches
  <2> QED BY <2>1, <2>2, Single
<1>4. mach' = Store(mach, s, r) /\ model' = Store(model, s, r)
  <2>1. mach' = Store(mach, s, r)
    <3>1. Word(k, 1).op = "str" /\ Word(k, 1).rt = r /\ Word(k, 1).off = s
      BY <1>3
    <3> QED BY <1>1, <3>1, WordRuns
  <2>2. model' = Store(model, s, r)
    BY <1>1, <1>2 DEF ExecOp
  <2> QED BY <2>1, <2>2
<1>5. /\ Machine(mach') /\ mach'.pc = Place(k + 1) /\ mach'.reg = mach.reg
      /\ mach'.mem = [mach.mem EXCEPT ![s] = mach.reg[r]]
  <2>1. mach' = Store(mach, s, r) /\ Machine(mach)
    BY <1>1, <1>4
  <2> QED BY <1>1, <2>1, StoreFacts
<1>6. /\ Machine(model') /\ model'.pc = k + 1 /\ model'.reg = model.reg
      /\ model'.mem = [model.mem EXCEPT ![s] = model.reg[r]]
  <2>1. model' = Store(model, s, r) /\ Machine(model)
    BY <1>1, <1>4
  <2> QED BY <1>1, <2>1, StoreFacts
<1>7. mach'.mem = model'.mem /\ mach'.reg = model'.reg
  BY <1>1, <1>5, <1>6
<1>8. model'.mem[s] = model'.reg[r]
  BY <1>1, <1>6 DEF Machine
<1>9. k + 1 <= Len(ops) /\ Elided(k + 1) => ops[k + 1].rt = r /\ ops[k + 1].off = s
  BY <1>1, <1>2, NextElided
<1> QED BY <1>1, <1>5, <1>6, <1>7, <1>8, <1>9, Arrive

(* A load that is not elided.                                              *)
LEMMA LdrRun ==
  ASSUME NEW k, Running(k), AtStart, NEW taken \in BOOLEAN, Step(taken), ops[k].op = "ldr"
  PROVE  RunInv'
<1>1. /\ mach' = ExecWord(mach, Word(k, 1), taken) /\ model' = ExecOp(model, ops[k], taken)
      /\ mach.mem = model.mem /\ ops[k] \in Requests
  BY OneWord
<1>2. PICK r \in Registers, s \in Slots : r = ops[k].rt /\ s = ops[k].off
  BY <1>1, RequestKinds
<1>3. Word(k, 1) = [op |-> "ldr", rt |-> r, off |-> s]
  <2>1. Code(k) = <<[op |-> "ldr", rt |-> r, off |-> s]>>
    BY <1>2 DEF Code, Instruction
  <2>2. Word(k, 1) = Code(k)[1]
    BY DEF Word, Branches
  <2> QED BY <2>1, <2>2, Single
<1>4. mach' = SetReg(mach, r, mach.mem[s])
  <2>1. Word(k, 1).op = "ldr" /\ Word(k, 1).rt = r /\ Word(k, 1).off = s
    BY <1>3
  <2> QED BY <1>1, <2>1, WordRuns
<1>5. model' = SetReg(model, r, mach.mem[s])
  BY <1>1, <1>2 DEF ExecOp
<1> QED BY <1>4, <1>5, SameSet

(* The literal at a pool offset is the entry.                              *)
LEMMA PoolLiteral ==
  ASSUME BuildInv, NEW i \in 1..Len(Pool)
  PROVE  Literal(2 * (i - 1)) = <<"addr", Pool[i]>>
<1>1. PICK z \in Nat : z = 2 * (i - 1)
  BY PoolFacts
<1>2. z + 1 \in 1..(2 * Len(Pool)) /\ (z + 1) % 2 = 1 /\ ((z + 1) + 1) \div 2 = i
  BY <1>1, PoolFacts
<1>3. instrs[z + 1] = [op |-> "pool", name |-> Pool[i], half |-> 1]
  <2>1. instrs[z + 1] = PoolWords[z + 1]
    BY <1>2 DEF BuildInv, WordsInv
  <2>2. PoolWords[z + 1] = [op |-> "pool", name |-> Pool[((z + 1) + 1) \div 2], half |-> (z + 1) % 2]
    BY <1>2, PoolFacts
  <2> QED BY <1>2, <2>1, <2>2
<1>4. z \in 0..(Len(instrs) - 1)
  <2>1. Len(instrs) \in Nat /\ 2 * Len(Pool) <= Len(instrs)
    BY Join DEF BuildInv, PlacesInv
  <2> QED BY <1>2, <2>1, PoolFacts
<1>5. WordAt(z).op = "pool" /\ WordAt(z).half = 1 /\ WordAt(z).name = Pool[i]
  BY <1>3 DEF WordAt
<1>6. Literal(z) = <<"addr", Pool[i]>>
  BY <1>4, <1>5 DEF Literal
<1> QED BY <1>1, <1>6

(* The address of a global.                                                *)
LEMMA GlobalRun ==
  ASSUME NEW k, Running(k), AtStart, NEW taken \in BOOLEAN, Step(taken), ops[k].op = "ldrglobal"
  PROVE  RunInv'
<1>1. /\ mach' = ExecWord(mach, Word(k, 1), taken) /\ model' = ExecOp(model, ops[k], taken)
      /\ ops[k] \in Requests /\ mach.pc = at[k] /\ at[k] + 1 = Place(k + 1) /\ BuildInv
      /\ at[k] \in Nat /\ k \in 1..Len(ops)
  BY OneWord
<1>2. PICK i \in 1..Len(Pool) : i = poolIdx(ops[k].name) /\ Pool[i] = ops[k].name
  <2>1. \E j \in 1..Len(Pool) : Pool[j] = ops[k].name
    BY <1>1, RequestKinds, PoolFacts
  <2> QED BY <2>1 DEF poolIdx
<1>3. PICK v \in Int : v = 2 * (i - 1) - at[k]
  BY <1>1, PoolFacts
<1>4. PICK e : e = Encode(v, LitReach)
  OBVIOUS
<1>5. Word(k, 1) = [op |-> "ldrlit", rt |-> X9, imm |-> e]
  <2>1. Code(k) = <<[op |-> "ldrlit", rt |-> X9, imm |-> e]>>
    BY <1>2, <1>3, <1>4 DEF Code, Instruction
  <2>2. Word(k, 1) = Code(k)[1]
    BY DEF Word, Branches
  <2> QED BY <2>1, <2>2, Single
<1>6. Decode(e, LitReach) = v
  <2>1. LitReach \in Nat \ {0} /\ Len(Pool) \in Nat
    BY BuilderAssumption, PoolFacts
  <2>2. 2 * Len(Pool) <= at[k] /\ Place(k + 1) <= Len(instrs)
    BY <1>1 DEF BuildInv, PlacesInv
  <2>3. Len(instrs) \in Nat /\ Len(instrs) <= LitReach
    BY <1>1, Join DEF BuildInv, Running
  <2>4. InRange(v, LitReach)
    BY <1>1, <1>3, <2>1, <2>2, <2>3 DEF InRange
  <2> QED BY <1>4, <2>1, <2>4, FieldRange
<1>7. Literal(mach.pc + Decode(e, LitReach)) = <<"addr", ops[k].name>>
  <2>1. mach.pc + v = 2 * (i - 1)
    BY <1>1, <1>3, PoolFacts
  <2> QED BY <1>1, <1>2, <1>6, <2>1, PoolLiteral
<1>8. mach' = SetReg(mach, X9, <<"addr", ops[k].name>>)
  <2>1. Word(k, 1).op = "ldrlit" /\ Word(k, 1).rt = X9 /\ Word(k, 1).imm = e
    BY <1>5
  <2> QED BY <1>1, <1>7, <2>1, WordRuns
<1>9. model' = SetReg(model, X9, <<"addr", ops[k].name>>)
  BY <1>1 DEF ExecOp
<1>10. X9 \in Registers
  BY BuilderAssumption
<1> QED BY <1>8, <1>9, <1>10, SameSet

(* After applyFixups a placeholder leads to its label.                     *)
LEMMA FixDecodes ==
  ASSUME BuildInv, phase = "run", NEW k \in 1..Len(ops), ops[k].op \in Branches
  PROVE  /\ ops[k].label \in DOMAIN labels /\ labels[ops[k].label] \in Nat
         /\ Word(k, 1) = [Code(k)[1] EXCEPT !.imm = Encode(Offset(Fix(k)), Reach(ops[k].op))]
         /\ Decode(Encode(Offset(Fix(k)), Reach(ops[k].op)), Reach(ops[k].op)) = Offset(Fix(k))
         /\ Offset(Fix(k)) = Unit(ops[k].op) * (labels[ops[k].label] - at[k])
<1>1. Fix(k).at = at[k] /\ Fix(k).label = ops[k].label /\ Fix(k).kind = ops[k].op
  BY DEF Fix
<1>2. Fix(k) \in fixups /\ Fixable(Fix(k))
  BY DEF BuildInv, FixInv
<1>3. ops[k].label \in DOMAIN labels /\ InRange(Offset(Fix(k)), Reach(ops[k].op))
  BY <1>1, <1>2 DEF Fixable
<1>4. labels[ops[k].label] \in Nat /\ at[k] \in Nat
  <2>1. PICK q \in 1..(Len(ops) + 1) : q = opLabels[ops[k].label]
    BY <1>3, LabelTarget
  <2>2. labels[ops[k].label] = Place(q)
    BY <1>3, <2>1, LabelTarget
  <2>3. Len(instrs) \in Nat /\ Len(ops) \in Nat /\ \A j \in 1..Len(ops) : at[j] \in Nat
    BY Join DEF BuildInv, Types
  <2>4. q > Len(ops) \/ q \in 1..Len(ops)
    BY <2>3
  <2>5. Place(q) \in Nat
    BY <2>3, <2>4 DEF Place
  <2> QED BY <2>2, <2>3, <2>5
<1>5. Offset(Fix(k)) = Unit(ops[k].op) * (labels[ops[k].label] - at[k])
  BY <1>1 DEF Offset
<1>6. Offset(Fix(k)) \in Int
  <2>1. Unit(ops[k].op) \in Nat
    BY DEF Unit
  <2> QED BY <1>4, <1>5, <2>1
<1>7. Reach(ops[k].op) \in Nat \ {0}
  BY BuilderAssumption DEF Reach, Branches
<1>8. Decode(Encode(Offset(Fix(k)), Reach(ops[k].op)), Reach(ops[k].op)) = Offset(Fix(k))
  BY <1>3, <1>6, <1>7, FieldRange
<1>9. Word(k, 1) = [Code(k)[1] EXCEPT !.imm = Encode(Offset(Fix(k)), Reach(ops[k].op))]
  BY DEF Word
<1> QED BY <1>3, <1>4, <1>5, <1>8, <1>9

(* The address of a label.                                                 *)
LEMMA AdrRun ==
  ASSUME NEW k, Running(k), AtStart, NEW taken \in BOOLEAN, Step(taken), ops[k].op = "adr"
  PROVE  RunInv'
<1>1. /\ mach' = ExecWord(mach, Word(k, 1), taken) /\ model' = ExecOp(model, ops[k], taken)
      /\ ops[k] \in Requests /\ mach.pc = at[k] /\ BuildInv /\ at[k] \in Nat /\ k \in 1..Len(ops)
      /\ phase = "run"
  BY OneWord DEF Running
<1>2. PICK r \in Registers : r = ops[k].rt
  BY <1>1, RequestKinds
<1>3. PICK l : l = ops[k].label
  OBVIOUS
<1>4. PICK e : e = Encode(Offset(Fix(k)), AdrReach)
  OBVIOUS
<1>5. "adr" \in Branches /\ Reach("adr") = AdrReach /\ Unit("adr") = 4
  BY DEF Branches, Reach, Unit
<1>6. /\ l \in DOMAIN labels /\ labels[l] \in Nat
      /\ Word(k, 1) = [Code(k)[1] EXCEPT !.imm = e]
      /\ Decode(e, AdrReach) = 4 * (labels[l] - at[k])
  BY <1>1, <1>3, <1>4, <1>5, FixDecodes
<1>7. Word(k, 1) = [op |-> "adr", rt |-> r, imm |-> e]
  <2>1. Code(k) = <<[op |-> "adr", rt |-> r, imm |-> 0]>>
    BY <1>2 DEF Code, Instruction
  <2>2. Code(k)[1] = [op |-> "adr", rt |-> r, imm |-> 0]
    BY <2>1, Single
  <2> QED BY <1>6, <2>2
<1>8. mach.pc + Decode(e, AdrReach) \div 4 = labels[l]
  <2>1. PICK d \in Int : d = labels[l] - at[k]
    BY <1>1, <1>6
  <2>2. (4 * d) \div 4 = d
    OBVIOUS
  <2> QED BY <1>1, <1>6, <2>1, <2>2
<1>9. Place(opLabels[l]) = labels[l]
  BY <1>1, <1>6, LabelTarget
<1>10. mach' = SetReg(mach, r, <<"code", labels[l]>>)
  <2>1. Word(k, 1).op = "adr" /\ Word(k, 1).rt = r /\ Word(k, 1).imm = e
    BY <1>7
  <2> QED BY <1>1, <1>8, <2>1, WordRuns
<1>11. model' = SetReg(model, r, <<"code", labels[l]>>)
  BY <1>1, <1>2, <1>3, <1>9 DEF ExecOp
<1> QED BY <1>10, <1>11, SameSet

(* A branch.                                                               *)
LEMMA BranchRun ==
  ASSUME NEW k, Running(k), AtStart, NEW taken \in BOOLEAN, Step(taken), ops[k].op \in {"b", "bcond"}
  PROVE  RunInv'
<1>1. /\ UNCHANGED staticVars
      /\ mach' = ExecWord(mach, Word(k, 1), taken) /\ model' = ExecOp(model, ops[k], taken)
      /\ mach.pc = at[k] /\ mach.reg = model.reg /\ mach.mem = model.mem /\ ~Elided(k)
      /\ Machine(mach) /\ Machine(model) /\ model.pc = k /\ at[k] + 1 = Place(k + 1)
      /\ BuildInv /\ ops[k] \in Requests /\ at[k] \in Nat
      /\ k \in 1..Len(ops) /\ k + 1 \in 1..(Len(ops) + 1)
      /\ phase = "run"
  BY OneWord DEF Running
<1>2. PICK l : l = ops[k].label
  OBVIOUS
<1>3. PICK c : c = ops[k].op
  OBVIOUS
<1>4. PICK e : e = Encode(Offset(Fix(k)), Reach(c))
  OBVIOUS
<1>5. c \in Branches /\ Unit(c) = 1
  BY <1>3 DEF Branches, Unit
<1>6. /\ l \in DOMAIN labels /\ labels[l] \in Nat
      /\ Word(k, 1) = [Code(k)[1] EXCEPT !.imm = e]
      /\ Decode(e, Reach(c)) = 1 * (labels[l] - at[k])
  BY <1>1, <1>2, <1>3, <1>4, <1>5, FixDecodes
<1>7. Word(k, 1).op = c /\ Word(k, 1).imm = e
  <2>1. Code(k) = <<[op |-> c, imm |-> 0]>>
    BY <1>3 DEF Code, Instruction
  <2>2. Code(k)[1] = [op |-> c, imm |-> 0]
    BY <2>1, Single
  <2> QED BY <1>6, <2>2
<1>8. mach.pc + Decode(e, Reach(c)) = labels[l]
  BY <1>1, <1>6
<1>9. PICK q : q = opLabels[l]
  OBVIOUS
<1>10. q \in 1..(Len(ops) + 1) /\ labels[l] = Place(q) /\ (q <= Len(ops) => ~Elided(q))
  BY <1>1, <1>6, <1>9, LabelTarget
<1>11. k + 1 <= Len(ops) => ~Elided(k + 1)
  BY <1>1, NextElided
<1>12. PICK t \in BOOLEAN : /\ mach' = Jump(mach, t, Place(q)) /\ model' = Jump(model, t, q)
  <2>1. CASE c = "b"
    <3>1. Reach(c) = BranchReach
      BY <2>1 DEF Reach
    <3>2. mach' = Jump(mach, TRUE, Place(q))
      <4>1. Word(k, 1).op = "b" /\ mach.pc + Decode(Word(k, 1).imm, BranchReach) = Place(q)
        BY <1>7, <1>8, <1>10, <2>1, <3>1
      <4>2. ExecWord(mach, Word(k, 1), taken) = Jump(mach, TRUE, mach.pc + Decode(Word(k, 1).imm, BranchReach))
        BY <4>1, WordRuns, Zenon
      <4> QED BY <1>1, <4>1, <4>2, Zenon
    <3>3. model' = Jump(model, TRUE, q)
      <4>1. ops[k].op = "b" /\ opLabels[ops[k].label] = q
        BY <1>2, <1>3, <1>9, <2>1
      <4>2. ExecOp(model, ops[k], taken) = Jump(model, TRUE, opLabels[ops[k].label])
        BY <4>1, OpRuns, Zenon
      <4> QED BY <1>1, <4>1, <4>2, Zenon
    <3> QED BY <3>2, <3>3
  <2>2. CASE c = "bcond"
    <3>1. Reach(c) = CondReach
      BY <2>2 DEF Reach
    <3>2. mach' = Jump(mach, taken, Place(q))
      <4>1. Word(k, 1).op = "bcond" /\ mach.pc + Decode(Word(k, 1).imm, CondReach) = Place(q)
        BY <1>7, <1>8, <1>10, <2>2, <3>1
      <4>2. ExecWord(mach, Word(k, 1), taken) = Jump(mach, taken, mach.pc + Decode(Word(k, 1).imm, CondReach))
        BY <4>1, WordRuns, Zenon
      <4> QED BY <1>1, <4>1, <4>2, Zenon
    <3>3. model' = Jump(model, taken, q)
      <4>1. ops[k].op = "bcond" /\ opLabels[ops[k].label] = q
        BY <1>2, <1>3, <1>9, <2>2
      <4>2. ExecOp(model, ops[k], taken) = Jump(model, taken, opLabels[ops[k].label])
        BY <4>1, OpRuns, Zenon
      <4> QED BY <1>1, <4>1, <4>2, Zenon
    <3> QED BY <3>2, <3>3
  <2> QED BY <1>3, <2>1, <2>2
<1>13. /\ Machine(mach') /\ mach'.pc = (IF t THEN Place(q) ELSE mach.pc + 1)
       /\ mach'.mem = mach.mem /\ mach'.reg = mach.reg
  <2>1. mach' = Jump(mach, t, Place(q)) /\ Machine(mach)
    BY <1>1, <1>12
  <2> QED BY <2>1, JumpFacts
<1>14. /\ Machine(model') /\ model'.pc = (IF t THEN q ELSE model.pc + 1)
       /\ model'.mem = model.mem /\ model'.reg = model.reg
  <2>1. model' = Jump(model, t, q) /\ Machine(model)
    BY <1>1, <1>12
  <2> QED BY <2>1, JumpFacts
<1>15. mach'.mem = model'.mem /\ mach'.reg = model'.reg
  BY <1>1, <1>13, <1>14
<1>16. CASE t
  <2>1. mach'.pc = Place(q) /\ model'.pc = q
    BY <1>13, <1>14, <1>16
  <2> QED BY <1>1, <1>10, <1>13, <1>14, <1>15, <2>1, Arrive
<1>17. CASE ~t
  <2>1. mach'.pc = Place(k + 1) /\ model'.pc = k + 1
    BY <1>1, <1>13, <1>14, <1>17
  <2> QED BY <1>1, <1>11, <1>13, <1>14, <1>15, <2>1, Arrive
<1> QED BY <1>16, <1>17

(* One word of an immediate: its chunks up to that word are in place.      *)
LEMMA MovWordRun ==
  ASSUME NEW k, Running(k), NEW taken, Step(taken), ops[k].op = "movimm",
         NEW j \in 1..Len(Code(k)), mach.pc + 1 = at[k] + j, mach.pc + 1 \in Nat,
         Place(k + 1) = at[k] + Len(Code(k)),
         \A r \in Registers : r # ops[k].rt => mach.reg[r] = model.reg[r],
         mach' = SetReg(mach, ops[k].rt, <<"int", Partial(ops[k].val, Code(k)[j].sh)>>)
  PROVE  RunInv'
<1>1. /\ BuildInv /\ Machine(mach) /\ Machine(model) /\ mach.mem = model.mem /\ Len(ops) \in Nat
      /\ k \in 1..Len(ops) /\ k + 1 \in 1..(Len(ops) + 1) /\ ops[k] \in Requests /\ at[k] \in Nat
      /\ model.pc = k /\ phase = "run" /\ Len(instrs) <= LitReach
  BY RunningFacts DEF Running
<1>2. PICK rd \in Registers, v \in 0..(Weight(3) * ChunkBase - 1) : rd = ops[k].rt /\ v = ops[k].val
  BY <1>1, RequestKinds
<1>3. MovWords(Code(k), rd, v, 3)
  BY <1>1, <1>2, InstructionShape DEF Code
<1>4. PICK n \in 1..4 : n = Len(Code(k))
  BY <1>3 DEF MovWords
<1>5. PICK x : x = <<"int", Partial(v, Code(k)[j].sh)>>
  OBVIOUS
<1>6. mach' = SetReg(mach, rd, x)
  BY <1>2, <1>5
<1>7. /\ Machine(mach') /\ mach'.pc = at[k] + j /\ mach'.mem = mach.mem
      /\ mach'.reg = [mach.reg EXCEPT ![rd] = x]
  BY <1>1, <1>6, SetRegFacts
<1>8. mach'.reg = [model.reg EXCEPT ![rd] = x]
  <2>1. PICK R, M : R = mach.reg /\ M = model.reg
    OBVIOUS
  <2>2. R = [r \in Registers |-> R[r]] /\ M = [r \in Registers |-> M[r]]
    BY <1>1, <2>1 DEF Machine
  <2>3. \A r \in Registers : r # rd => R[r] = M[r]
    BY <1>2, <2>1
  <2>4. [R EXCEPT ![rd] = x] = [r \in Registers |-> IF r = rd THEN x ELSE R[r]]
    BY <2>2
  <2>5. [M EXCEPT ![rd] = x] = [r \in Registers |-> IF r = rd THEN x ELSE M[r]]
    BY <2>2
  <2>6. [R EXCEPT ![rd] = x] = [M EXCEPT ![rd] = x]
    BY <2>3, <2>4, <2>5
  <2> QED BY <1>7, <2>1, <2>6
<1>9. UNCHANGED staticVars /\ model' = IF j = n THEN ExecOp(model, ops[k], taken) ELSE model
  <2>1. mach.pc + 1 = Place(k + 1) <=> j = n
    BY <1>1, <1>4
  <2> QED BY <1>1, <2>1 DEF Step, staticVars
<1>10. CASE j = n
  <2>1. x = <<"int", v>>
    <3>1. PICK s \in 0..3 : Code(k)[j].sh = s /\ Partial(v, s) = Partial(v, 3)
      BY <1>3, <1>4, <1>10 DEF MovWords
    <3>2. Partial(v, 3) = v
      BY AllChunks
    <3> QED BY <1>5, <3>1, <3>2
  <2>2. model' = SetReg(model, rd, x)
    BY <1>2, <1>9, <1>10, <2>1 DEF ExecOp
  <2>3. /\ Machine(model') /\ model'.pc = k + 1 /\ model'.mem = model.mem
        /\ model'.reg = [model.reg EXCEPT ![rd] = x]
    <3>1. Machine(model) /\ model.pc = k
      BY <1>1
    <3> QED BY <2>2, <3>1, SetRegFacts
  <2>4. mach'.pc = Place(k + 1)
    BY <1>4, <1>7, <1>10
  <2>5. k + 1 <= Len(ops) => ~Elided(k + 1)
    BY <1>1, NextElided
  <2>6. mach'.mem = model'.mem /\ mach'.reg = model'.reg
    BY <1>1, <1>7, <1>8, <2>3
  <2> QED BY <1>1, <1>7, <1>9, <2>3, <2>4, <2>5, <2>6, Arrive
<1>11. CASE j # n
  <2>1. model' = model
    BY <1>9, <1>11
  <2>2. UNCHANGED <<phase, ops, at, instrs>>
    BY <1>9 DEF staticVars
  <2>3. Code(k)' = Code(k) /\ Code(model.pc)' = Code(k) /\ Due' = ops[k]
    BY <1>1, <2>1, <2>2 DEF Code, Due
  <2>4. j \in 1..(Len(Code(k)) - 1) /\ mach'.pc - at[k] = j /\ mach'.pc \in Nat
    BY <1>1, <1>4, <1>7, <1>11
  <2>5. Amid'
    <3>1. mach'.reg = [model'.reg EXCEPT ![Due'.rt] = <<"int", Partial(Due'.val, Code(model.pc)'[j].sh)>>]
      BY <1>2, <1>5, <1>8, <2>1, <2>3
    <3>2. /\ j \in 1..(Len(Code(model.pc)') - 1) /\ model'.pc <= Len(ops')
          /\ Due'.op = "movimm" /\ mach'.pc = at'[model'.pc] + j
      BY <1>1, <1>7, <2>1, <2>2, <2>3, <2>4
    <3> QED BY <3>1, <3>2 DEF Amid
  <2>6. Machine(mach)' /\ Machine(model)'
    BY <1>1, <1>7, <2>1 DEF Machine
  <2> QED BY <1>1, <1>7, <2>1, <2>2, <2>5, <2>6 DEF RunInv
<1> QED BY <1>10, <1>11

(* The words of an immediate.                                              *)
LEMMA MovFacts ==
  ASSUME NEW k, Running(k), ops[k].op = "movimm"
  PROVE  \E rd \in Registers, v \in 0..(Weight(3) * ChunkBase - 1), n \in 1..4 :
           /\ rd = ops[k].rt /\ v = ops[k].val /\ n = Len(Code(k))
           /\ MovWords(Code(k), rd, v, 3) /\ Place(k + 1) = at[k] + n
           /\ \A j \in 1..n : instrs[at[k] + j] = Code(k)[j]
<1>1. /\ BuildInv /\ k \in 1..Len(ops) /\ ops[k] \in Requests /\ at[k] \in Nat
  BY RunningFacts
<1>2. PICK rd \in Registers, v \in 0..(Weight(3) * ChunkBase - 1) : rd = ops[k].rt /\ v = ops[k].val
  BY <1>1, RequestKinds
<1>3. MovWords(Code(k), rd, v, 3)
  BY <1>1, <1>2, InstructionShape DEF Code
<1>4. PICK n \in 1..4 : n = Len(Code(k))
  BY <1>3 DEF MovWords
<1>5. ~Elided(k)
  <2>1. Elided(k) => Skipped(k)
    BY <1>1 DEF BuildInv, WordsInv
  <2> QED BY <2>1 DEF Skipped
<1>6. /\ Place(k + 1) = at[k] + Len(Code(k))
      /\ \A j \in 1..Len(Code(k)) : instrs[at[k] + j] = Word(k, j)
  BY <1>1, <1>5 DEF BuildInv, WordsInv
<1>7. \A j : Word(k, j) = Code(k)[j]
  BY DEF Word, Branches
<1> QED BY <1>2, <1>3, <1>4, <1>6, <1>7

(* MOVZ.                                                                   *)
LEMMA MovStart ==
  ASSUME NEW k, Running(k), AtStart, NEW taken, Step(taken), ops[k].op = "movimm"
  PROVE  RunInv'
<1>1. PICK rd \in Registers, v \in 0..(Weight(3) * ChunkBase - 1), n \in 1..4 :
           /\ rd = ops[k].rt /\ v = ops[k].val /\ n = Len(Code(k))
           /\ MovWords(Code(k), rd, v, 3) /\ Place(k + 1) = at[k] + n
           /\ \A j \in 1..n : instrs[at[k] + j] = Code(k)[j]
  BY MovFacts
<1>2. /\ mach.pc = at[k] /\ mach.reg = model.reg /\ at[k] \in Nat
  BY RunningFacts DEF AtStart, Running
<1>3. 1 \in 1..n
  OBVIOUS
<1>4. Code(k)[1] = MovWord("movz", rd, v, 0)
  BY <1>1 DEF MovWords
<1>5. /\ WordAt(mach.pc).op = "movz" /\ WordAt(mach.pc).rt = rd
      /\ WordAt(mach.pc).chunk = Chunk(v, 0) /\ Code(k)[1].sh = 0
  <2>1. WordAt(mach.pc) = MovWord("movz", rd, v, 0)
    BY <1>1, <1>2, <1>3, <1>4 DEF WordAt
  <2> QED BY <1>4, <2>1 DEF MovWord
<1>6. Partial(v, Code(k)[1].sh) = Chunk(v, 0)
  BY <1>5 DEF Partial
<1>7. mach' = ExecWord(mach, WordAt(mach.pc), taken)
  BY DEF Step
<1>8. mach' = SetReg(mach, rd, <<"int", Chunk(v, 0)>>)
  BY <1>5, <1>7, WordRuns
<1>9. 1 \in 1..Len(Code(k)) /\ mach.pc + 1 = at[k] + 1 /\ mach.pc + 1 \in Nat
  BY <1>1, <1>2, <1>3
<1> QED BY <1>1, <1>2, <1>6, <1>8, <1>9, MovWordRun

(* MOVK.                                                                   *)
LEMMA MovMid ==
  ASSUME NEW k, Running(k), Amid, NEW taken, Step(taken)
  PROVE  RunInv'
<1>1. /\ model.pc = k /\ Machine(mach) /\ Machine(model) /\ at[k] \in Nat /\ Due = ops[k]
  BY RunningFacts DEF Running, Due
<1>2. PICK i \in 1..(Len(Code(k)) - 1) :
         /\ ops[k].op = "movimm" /\ mach.pc = at[k] + i
         /\ mach.reg = [model.reg EXCEPT ![ops[k].rt] =
                          <<"int", Partial(ops[k].val, Code(k)[i].sh)>>]
  BY <1>1 DEF Amid
<1>3. PICK rd \in Registers, v \in 0..(Weight(3) * ChunkBase - 1), n \in 1..4 :
           /\ rd = ops[k].rt /\ v = ops[k].val /\ n = Len(Code(k))
           /\ MovWords(Code(k), rd, v, 3) /\ Place(k + 1) = at[k] + n
           /\ \A j \in 1..n : instrs[at[k] + j] = Code(k)[j]
  BY <1>2, MovFacts
<1>4. PICK s \in 0..3, t \in 1..3 :
         /\ Code(k)[i].sh = s /\ Code(k)[i + 1] = MovWord("movk", rd, v, t)
         /\ Partial(v, t) = Partial(v, s) + Chunk(v, t) * Weight(t)
  BY <1>2, <1>3 DEF MovWords
<1>5. PICK j \in 1..n : j = i + 1
  BY <1>2, <1>3
<1>6. /\ WordAt(mach.pc).op = "movk" /\ WordAt(mach.pc).rt = rd /\ WordAt(mach.pc).sh = t
      /\ WordAt(mach.pc).chunk = Chunk(v, t) /\ Code(k)[j].sh = t
  <2>1. mach.pc + 1 = at[k] + j
    BY <1>1, <1>2, <1>5
  <2>2. WordAt(mach.pc) = MovWord("movk", rd, v, t)
    BY <1>3, <1>4, <1>5, <2>1 DEF WordAt
  <2> QED BY <1>4, <1>5, <2>2 DEF MovWord
<1>7. PICK R, M : R = mach.reg /\ M = model.reg
  OBVIOUS
<1>8. R = [M EXCEPT ![rd] = <<"int", Partial(v, s)>>] /\ M = [r \in Registers |-> M[r]]
  BY <1>1, <1>2, <1>3, <1>4, <1>7 DEF Machine
<1>9. R[rd] = <<"int", Partial(v, s)>> /\ \A r \in Registers : r # rd => R[r] = M[r]
  BY <1>8
<1>10. mach.reg[rd][2] = Partial(v, s)
  BY <1>7, <1>9
<1>11. mach' = ExecWord(mach, WordAt(mach.pc), taken)
  BY DEF Step
<1>12. mach' = SetReg(mach, rd, <<"int", Partial(v, t)>>)
  <2>1. mach' = SetReg(mach, rd, <<"int", mach.reg[rd][2] + Chunk(v, t) * Weight(t)>>)
    <3>1. PICK w : w = WordAt(mach.pc)
      OBVIOUS
    <3>2. mach' = SetReg(mach, w.rt, <<"int", mach.reg[w.rt][2] + w.chunk * Weight(w.sh)>>)
      BY <1>6, <1>11, <3>1, WordRuns, Zenon
    <3> QED BY <1>6, <3>1, <3>2, Zenon
  <2> QED BY <1>4, <1>10, <2>1, Zenon
<1>13. j \in 1..Len(Code(k)) /\ mach.pc + 1 = at[k] + j /\ mach.pc + 1 \in Nat
  <2>1. Len(Code(k)) = n /\ mach.pc = at[k] + i
    BY <1>2, <1>3, Zenon
  <2>2. i \in Nat
    BY <1>2
  <2> QED BY <1>1, <1>5, <2>1, <2>2
<1>14. mach' = SetReg(mach, ops[k].rt, <<"int", Partial(ops[k].val, Code(k)[j].sh)>>)
  BY <1>3, <1>6, <1>12, Zenon
<1>15. /\ Place(k + 1) = at[k] + Len(Code(k)) /\ ops[k].op = "movimm"
       /\ \A r \in Registers : r # ops[k].rt => mach.reg[r] = model.reg[r]
  BY <1>2, <1>3, <1>7, <1>9
<1> QED BY <1>13, <1>14, <1>15, MovWordRun

(* An elided load finds its value in its register.                         *)
LEMMA ElidedRun ==
  ASSUME NEW k, Running(k), StepElided
  PROVE  RunInv'
<1>1. /\ BuildInv /\ Machine(mach) /\ Machine(model) /\ mach.mem = model.mem /\ (AtStart \/ Amid)
      /\ Len(ops) \in Nat /\ k \in 1..Len(ops) /\ k + 1 \in 1..(Len(ops) + 1)
      /\ ops[k] \in Requests /\ at[k] \in Nat /\ Place(k) = at[k] /\ model.pc = k
  BY RunningFacts DEF Running
<1>2. /\ mach.pc = Place(k + 1) /\ UNCHANGED staticVars /\ mach' = mach
      /\ model' = ExecOp(model, ops[k], FALSE)
  BY <1>1 DEF StepElided, staticVars
<1>3. AtStart
  <2> SUFFICES ASSUME Amid PROVE FALSE
    BY <1>1
  <2>1. PICK i \in 1..(Len(Code(k)) - 1) : ops[k].op = "movimm" /\ mach.pc = at[k] + i
    BY <1>1 DEF Amid, Due
  <2>2. PICK n \in 1..4 : n = Len(Code(k)) /\ Place(k + 1) = at[k] + n
    BY <2>1, MovFacts
  <2> QED BY <1>1, <1>2, <2>1, <2>2
<1>4. mach.pc = at[k] /\ mach.reg = model.reg
  BY <1>1, <1>3 DEF AtStart
<1>5. Elided(k)
  BY <1>2, <1>4 DEF Elided
<1>6. ops[k].op = "ldr"
  BY <1>1, <1>5 DEF BuildInv, WordsInv, Skipped
<1>7. PICK r \in Registers, s \in Slots : r = ops[k].rt /\ s = ops[k].off
  BY <1>1, <1>6, RequestKinds
<1>8. model.mem[s] = model.reg[r]
  BY <1>1, <1>3, <1>5, <1>7 DEF AtStart, Due
<1>9. model' = SetReg(model, r, model.mem[s])
  <2>1. ExecOp(model, ops[k], FALSE) = SetReg(model, ops[k].rt, model.mem[ops[k].off])
    BY <1>6, OpRuns, Zenon
  <2> QED BY <1>2, <1>7, <2>1
<1>10. /\ Machine(model') /\ model'.pc = k + 1 /\ model'.mem = model.mem
       /\ model'.reg = [model.reg EXCEPT ![r] = model.mem[s]]
  BY <1>1, <1>9, SetRegFacts
<1>11. model'.reg = model.reg
  <2>1. PICK M : M = model.reg
    OBVIOUS
  <2>2. M = [q \in Registers |-> M[q]]
    BY <1>1, <2>1 DEF Machine
  <2>3. [M EXCEPT ![r] = M[r]] = M
    BY <2>2
  <2> QED BY <1>8, <1>10, <2>1, <2>3
<1>12. k + 1 <= Len(ops) /\ Elided(k + 1) => ops[k + 1].rt = r /\ ops[k + 1].off = s
  BY <1>1, <1>7, NextElided
<1>13. /\ Machine(mach') /\ mach'.mem = model'.mem /\ mach'.reg = model'.reg
       /\ mach'.pc = Place(k + 1)
  BY <1>1, <1>2, <1>4, <1>10, <1>11
<1>14. model'.mem[s] = model'.reg[r]
  BY <1>8, <1>10, <1>11
<1> QED BY <1>1, <1>2, <1>10, <1>12, <1>13, <1>14, Arrive

(* A step of the processor.                                                *)
LEMMA StepRun ==
  ASSUME NEW k, Running(k), NEW taken \in BOOLEAN, Step(taken)
  PROVE  RunInv'
<1>1. ops[k] \in Requests /\ (AtStart \/ Amid)
  BY RunningFacts
<1>2. CASE Amid
  BY <1>2, MovMid
<1>3. CASE AtStart
  <2>1. ops[k].op \in {"str", "ldr", "movimm", "ldrglobal", "b", "bcond", "adr"}
    BY <1>1, RequestKinds
  <2> QED BY <1>3, <2>1, StrRun, LdrRun, MovStart, GlobalRun, BranchRun, AdrRun
<1> QED BY <1>1, <1>2, <1>3

(* Every action keeps the invariant.                                       *)
LEMMA NextInv ==
  ASSUME BuilderInv, [Next]_vars PROVE BuilderInv'
<1>1. BuildInv /\ RunInv
  BY DEF BuilderInv
<1>2. ASSUME NEW o \in Requests, Emit(o) PROVE BuilderInv'
  <2>1. phase' = "build"
    BY <1>2 DEF Emit
  <2> QED BY <1>1, <1>2, <2>1, EmitInv DEF BuilderInv, RunInv
<1>3. ASSUME NEW name \in Labels, defineLabel(name) PROVE BuilderInv'
  <2>1. phase' = "build"
    BY <1>3 DEF defineLabel
  <2> QED BY <1>1, <1>3, <2>1, DefineLabelInv DEF BuilderInv, RunInv
<1>4. CASE applyFixups
  BY <1>1, <1>4, ApplyFixupsInv, ApplyFixupsRun DEF BuilderInv
<1>5. CASE FixupError
  <2>1. phase' = "error"
    BY <1>5 DEF FixupError
  <2> QED BY <1>1, <1>5, <2>1, FixupErrorInv DEF BuilderInv, RunInv
<1>6. ASSUME UNCHANGED staticVars, phase = "run",
             \A k : Running(k) => RunInv', model.pc <= Len(ops)
      PROVE  BuilderInv'
  <2>1. BuildInv'
    BY <1>1, <1>6, SameBuild
  <2>2. CASE Len(instrs) <= LitReach
    <3>1. Len(ops) \in Nat /\ model.pc \in 1..(Len(ops) + 1)
      BY <1>1, <1>6, <2>2 DEF BuildInv, Types, RunInv
    <3>2. Running(model.pc)
      BY <1>6, <2>2, <3>1 DEF Running
    <3> QED BY <1>6, <2>1, <3>2 DEF BuilderInv
  <2>3. CASE ~(Len(instrs) <= LitReach)
    <3>1. instrs' = instrs
      BY <1>6 DEF staticVars
    <3> QED BY <2>1, <2>3, <3>1 DEF BuilderInv, RunInv
  <2> QED BY <2>2, <2>3
<1>7. ASSUME NEW taken \in BOOLEAN, Step(taken) PROVE BuilderInv'
  <2>1. UNCHANGED staticVars /\ phase = "run" /\ model.pc <= Len(ops)
    BY <1>7 DEF Step, staticVars
  <2>2. \A k : Running(k) => RunInv'
    BY <1>7, StepRun
  <2> QED BY <1>6, <2>1, <2>2
<1>8. CASE StepElided
  <2>1. UNCHANGED staticVars /\ phase = "run" /\ model.pc <= Len(ops)
    BY <1>8 DEF StepElided, staticVars
  <2>2. \A k : Running(k) => RunInv'
    BY <1>8, ElidedRun
  <2> QED BY <1>6, <2>1, <2>2
<1>9. CASE UNCHANGED vars
  <2>1. UNCHANGED staticVars /\ UNCHANGED <<phase, ops, at, instrs, mach, model>>
    BY <1>9 DEF vars, staticVars
  <2>2. BuildInv'
    BY <1>1, <2>1, SameBuild
  <2>3. \A j : Place(j)' = Place(j) /\ Code(j)' = Code(j) /\ (Elided(j)' <=> Elided(j))
    BY <2>1, SamePlaces
  <2>4. /\ Due' = Due /\ Place(model.pc)' = Place(model.pc) /\ Code(model.pc)' = Code(model.pc)
        /\ (Elided(model.pc)' <=> Elided(model.pc))
    BY <2>1 DEF Due, Place, Code, Elided
  <2>5. (AtStart => AtStart') /\ (Amid => Amid')
    BY <2>1, <2>4 DEF AtStart, Amid
  <2>6. (Machine(mach) => Machine(mach)') /\ (Machine(model) => Machine(model)')
    BY <2>1 DEF Machine
  <2>7. RunInv'
    BY <1>1, <2>1, <2>5, <2>6 DEF RunInv
  <2> QED BY <2>2, <2>7 DEF BuilderInv
<1> QED BY <1>2, <1>3, <1>4, <1>5, <1>7, <1>8, <1>9 DEF Next

(* The invariant holds throughout.                                         *)
THEOREM BuilderAlways == Spec => []BuilderInv
<1>1. Init => BuilderInv
  BY InitBuild
<1>2. BuilderInv /\ [Next]_vars => BuilderInv'
  BY NextInv
<1> QED BY <1>1, <1>2, PTL DEF Spec

-----------------------------------------------------------------------------
(* What the invariant says.                                                *)

(* A branch's word, patched or not, is of its kind.                        *)
LEMMA BranchWord ==
  ASSUME NEW k, ops[k].op \in Branches
  PROVE  Word(k, 1).op = ops[k].op
<1>1. PICK c, e : c = ops[k].op /\ e = Encode(Offset(Fix(k)), Reach(ops[k].op))
  OBVIOUS
<1>2. Word(k, 1) = IF phase = "run" THEN [Code(k)[1] EXCEPT !.imm = e] ELSE Code(k)[1]
  BY <1>1 DEF Word
<1>3. CASE c \in {"b", "bcond"}
  <2>1. Code(k) = <<[op |-> c, imm |-> 0]>>
    BY <1>1, <1>3 DEF Code, Instruction
  <2>2. Code(k)[1] = [op |-> c, imm |-> 0]
    BY <2>1, Single
  <2> QED BY <1>1, <1>2, <2>2
<1>4. CASE c = "adr"
  <2>1. PICK r : r = ops[k].rt
    OBVIOUS
  <2>2. Code(k) = <<[op |-> "adr", rt |-> r, imm |-> 0]>>
    BY <1>1, <1>4, <2>1 DEF Code, Instruction
  <2>3. Code(k)[1] = [op |-> "adr", rt |-> r, imm |-> 0]
    BY <2>2, Single
  <2> QED BY <1>1, <1>2, <1>4, <2>3
<1> QED BY <1>1, <1>3, <1>4 DEF Branches

(* A patched word holds its offset.                                        *)
LEMMA BranchImm ==
  ASSUME NEW k, ops[k].op \in Branches, NEW e
  PROVE  [Code(k)[1] EXCEPT !.imm = e].imm = e
<1>1. PICK c : c = ops[k].op
  OBVIOUS
<1>2. CASE c \in {"b", "bcond"}
  <2>1. Code(k) = <<[op |-> c, imm |-> 0]>>
    BY <1>1, <1>2 DEF Code, Instruction
  <2>2. Code(k)[1] = [op |-> c, imm |-> 0]
    BY <2>1, Single
  <2> QED BY <2>2
<1>3. CASE c = "adr"
  <2>1. PICK r : r = ops[k].rt
    OBVIOUS
  <2>2. Code(k) = <<[op |-> "adr", rt |-> r, imm |-> 0]>>
    BY <1>1, <1>3, <2>1 DEF Code, Instruction
  <2>3. Code(k)[1] = [op |-> "adr", rt |-> r, imm |-> 0]
    BY <2>2, Single
  <2> QED BY <2>3
<1> QED BY <1>1, <1>2, <1>3 DEF Branches

(* A label stands among the words.                                         *)
LEMMA LabelPlace ==
  ASSUME BuildInv, NEW n \in DOMAIN labels
  PROVE  labels[n] \in Nat
<1>1. PICK q \in 1..(Len(ops) + 1) : labels[n] = Place(q)
  BY LabelTarget
<1>2. Len(instrs) \in Nat /\ Len(ops) \in Nat /\ \A j \in 1..Len(ops) : at[j] \in Nat
  BY Join DEF BuildInv, Types
<1>3. q > Len(ops) \/ q \in 1..Len(ops)
  BY <1>2
<1> QED BY <1>1, <1>2, <1>3 DEF Place

(* Types.                                                                  *)
LEMMA InvTypeOK == BuilderInv => TypeOK
<1> SUFFICES ASSUME BuilderInv PROVE TypeOK
  OBVIOUS
<1>1. BuildInv
  BY DEF BuilderInv
<1>2. Len(ops) \in Nat /\ Len(instrs) \in Nat
  BY <1>1, Join DEF BuildInv, Types
<1>3. ASSUME NEW k \in 1..Len(ops) PROVE ops[k] \in Requests /\ at[k] \in 0..Len(instrs)
  <2>1. ops[k] \in Requests /\ at[k] \in Nat
    BY <1>1 DEF BuildInv, Types
  <2>2. at[k] <= Place(k + 1) /\ Place(k + 1) <= Len(instrs)
    BY <1>1 DEF BuildInv, PlacesInv
  <2>3. Place(k + 1) \in Nat
    <3>1. CASE k + 1 > Len(ops)
      BY <1>2, <3>1 DEF Place
    <3>2. CASE ~(k + 1 > Len(ops))
      <4>1. k + 1 \in 1..Len(ops)
        BY <1>2, <3>2
      <4>2. at[k + 1] \in Nat
        BY <1>1, <4>1 DEF BuildInv, Types
      <4> QED BY <3>2, <4>2 DEF Place
    <3> QED BY <3>1, <3>2
  <2> QED BY <1>2, <2>1, <2>2, <2>3
<1>4. ASSUME NEW fx \in fixups PROVE fx.at < Len(instrs) /\ WordAt(fx.at).op = fx.kind
  <2>1. PICK k \in 1..Len(ops) : ops[k].op \in Branches /\ fx = Fix(k)
    BY <1>1 DEF BuildInv, FixInv
  <2>2. fx.at = at[k] /\ fx.kind = ops[k].op
    BY <2>1 DEF Fix
  <2>3. at[k] < Len(instrs) /\ instrs[at[k] + 1] = Word(k, 1) /\ Code(k)[1].op = ops[k].op
    BY <1>1, <2>1, FixPlace
  <2>4. Word(k, 1).op = ops[k].op
    BY <2>1, BranchWord
  <2> QED BY <2>2, <2>3, <2>4 DEF WordAt
<1>5. \A n \in DOMAIN labels : opLabels[n] \in 1..(Len(ops) + 1) /\ labels[n] = Place(opLabels[n])
  BY <1>1 DEF BuildInv, LabelInv
<1>6. /\ phase \in {"build", "run", "error"} /\ peepholeBarrier \in BOOLEAN /\ Len(at) = Len(ops)
      /\ DOMAIN opLabels = DOMAIN labels
  BY <1>1 DEF BuildInv, Types, LabelInv
<1> QED BY <1>3, <1>4, <1>5, <1>6 DEF TypeOK

(* Branches.                                                               *)
LEMMA InvBranches == BuilderInv => BranchesReach
<1> SUFFICES ASSUME BuilderInv PROVE BranchesReach
  OBVIOUS
<1>1. BuildInv
  BY DEF BuilderInv
<1>2. ASSUME NEW fx \in fixups
      PROVE  \E k \in 1..Len(ops) :
               /\ ops[k].op \in Branches /\ fx = Fix(k) /\ fx.at = at[k]
               /\ fx.kind = ops[k].op /\ fx.label = ops[k].label /\ at[k] \in Nat
  <2>1. PICK k \in 1..Len(ops) : ops[k].op \in Branches /\ fx = Fix(k)
    BY <1>1 DEF BuildInv, FixInv
  <2>2. at[k] \in Nat
    BY <1>1, <2>1, FixPlace
  <2> QED BY <2>1, <2>2 DEF Fix
<1>3. ASSUME phase = "run", NEW fx \in fixups
      PROVE  Decode(WordAt(fx.at).imm, Reach(fx.kind)) = Offset(fx)
  <2>1. PICK k \in 1..Len(ops) :
               /\ ops[k].op \in Branches /\ fx = Fix(k) /\ fx.at = at[k]
               /\ fx.kind = ops[k].op /\ fx.label = ops[k].label /\ at[k] \in Nat
    BY <1>2
  <2>2. PICK e : e = Encode(Offset(fx), Reach(fx.kind))
    OBVIOUS
  <2>3. Word(k, 1) = [Code(k)[1] EXCEPT !.imm = e] /\ Decode(e, Reach(fx.kind)) = Offset(fx)
    BY <1>1, <1>3, <2>1, <2>2, FixDecodes
  <2>4. WordAt(fx.at) = Word(k, 1)
    BY <1>1, <2>1, FixPlace DEF WordAt
  <2>5. Word(k, 1).imm = e
    BY <2>1, <2>3, BranchImm
  <2> QED BY <2>3, <2>4, <2>5
<1>4. ASSUME phase = "error"
      PROVE  \E fx \in fixups :
               \/ fx.label \notin DOMAIN labels
               \/ Decode(Encode(Offset(fx), Reach(fx.kind)), Reach(fx.kind)) # Offset(fx)
  <2>1. PICK fx \in fixups : ~Fixable(fx)
    BY <1>1, <1>4 DEF BuildInv, FixInv
  <2>2. PICK k \in 1..Len(ops) :
               /\ ops[k].op \in Branches /\ fx = Fix(k) /\ fx.at = at[k]
               /\ fx.kind = ops[k].op /\ fx.label = ops[k].label /\ at[k] \in Nat
    BY <1>2
  <2>3. ASSUME fx.label \in DOMAIN labels
        PROVE  Decode(Encode(Offset(fx), Reach(fx.kind)), Reach(fx.kind)) # Offset(fx)
    <3>1. ~InRange(Offset(fx), Reach(fx.kind))
      BY <2>1, <2>3 DEF Fixable
    <3>2. Reach(fx.kind) \in Nat \ {0}
      BY <2>2, BuilderAssumption DEF Reach, Branches
    <3>3. labels[fx.label] \in Nat
      BY <1>1, <2>3, LabelPlace
    <3>4. Unit(fx.kind) \in Nat
      BY DEF Unit
    <3>5. Offset(fx) \in Int
      BY <2>2, <3>3, <3>4 DEF Offset
    <3> QED BY <3>1, <3>2, <3>5, FieldRange
  <2> QED BY <2>1, <2>3
<1> QED BY <1>3, <1>4 DEF BranchesReach

(* The code run.                                                           *)
LEMMA InvPreserved == BuilderInv => CodePreserved
<1> SUFFICES ASSUME BuilderInv, phase = "run", Len(instrs) <= LitReach
             PROVE  /\ mach.pc \in {Place(model.pc)} \cup Place(model.pc)..(Place(model.pc + 1) - 1)
                    /\ mach.mem = model.mem
                    /\ mach.pc = Place(model.pc) => mach.reg = model.reg
  BY DEF CodePreserved
<1>1. BuildInv /\ mach.mem = model.mem /\ (AtStart \/ Amid)
  BY DEF BuilderInv, RunInv
<1>2. CASE AtStart
  BY <1>1, <1>2 DEF AtStart
<1>3. CASE Amid
  <2>1. PICK k : k = model.pc
    OBVIOUS
  <2>2. Running(k) /\ ops[k].op = "movimm"
    <3>1. Len(ops) \in Nat /\ model.pc \in 1..(Len(ops) + 1) /\ model.pc <= Len(ops)
      BY <1>1, <1>3 DEF BuilderInv, RunInv, BuildInv, Types, Amid
    <3>2. Due.op = "movimm"
      BY <1>3 DEF Amid
    <3> QED BY <2>1, <3>1, <3>2 DEF Running, Due
  <2>3. PICK n \in 1..4 : n = Len(Code(k)) /\ Place(k + 1) = at[k] + n
    BY <2>2, MovFacts
  <2>4. PICK j \in 1..(n - 1) : mach.pc = at[k] + j
    BY <1>3, <2>1, <2>3 DEF Amid
  <2>5. Place(k) = at[k] /\ at[k] \in Nat
    BY <2>2, RunningFacts
  <2>6. mach.pc \in Place(k)..(Place(k + 1) - 1) /\ mach.pc # Place(k)
    BY <2>3, <2>4, <2>5
  <2> QED BY <1>1, <2>1, <2>6
<1> QED BY <1>1, <1>2, <1>3

(* Every operation the generator asks for has its place among the emitted  *)
(* words, every defined label one among words and operations alike, and    *)
(* every recorded branchFixup points at a branch word of its own kind.     *)
THEOREM BuilderTypeCorrect == Spec => []TypeOK
  BY BuilderAlways, InvTypeOK, PTL

(* applyFixups: once it has succeeded every branch and ADR field reads     *)
(* back as the distance to its label, and it fails only when some label    *)
(* is undefined or further than the field can say.                         *)
THEOREM BranchesLead == Spec => []BranchesReach
  BY BuilderAlways, InvBranches, PTL

(* The words of codeBuilder, elided loads, patched branches, pool loads    *)
(* and MOVZ/MOVK sequences included, do on the processor what the          *)
(* operations asked for, on every path through the program.                *)
THEOREM EmittedCodePreserved == Spec => []CodePreserved
  BY BuilderAlways, InvPreserved, PTL
=============================================================================
