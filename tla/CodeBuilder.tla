----------------------------- MODULE CodeBuilder -----------------------------
(***************************************************************************)
(* The machine-code buffer of the ELF backend (src/elfgen.go, codeBuilder):*)
(* a literal pool followed by instructions, labels, branch placeholders    *)
(* that applyFixups patches, and the store-then-load peephole.             *)
(*                                                                         *)
(* What a buffer is for is said by running it.  The model records the      *)
(* operations the code generator asked for, runs them on an abstract       *)
(* machine, and runs the emitted words on the same machine next to it.     *)
(***************************************************************************)
EXTENDS Integers, Sequences, SequencesExt

CONSTANTS
  Requests,   \* operations the code generator may ask for
  MaxOps,     \* bound on the length of a program
  Pool,       \* names with a literal pool entry, in pool order
  Registers, Slots,
  ChunkBase,  \* 2^16: an immediate is four chunks
  BranchReach, CondReach, AdrReach, LitReach
              \* 2^25, 2^18, 2^20, 2^18: offset fields hold -Reach .. Reach - 1

Weight(sh) ==
  CASE sh = 0 -> 1 [] sh = 1 -> ChunkBase [] sh = 2 -> ChunkBase * ChunkBase
    [] sh = 3 -> ChunkBase * ChunkBase * ChunkBase

Branches == {"b", "bcond", "adr"}
Labels == {o.label : o \in {r \in Requests : r.op \in Branches}}

Request ==
  [op : {"str", "ldr"}, rt : Registers, off : Slots] \cup
  [op : {"movimm"}, rt : Registers, val : 0..(Weight(3) * ChunkBase - 1)] \cup
  [op : {"ldrglobal"}, name : {Pool[k] : k \in DOMAIN Pool}] \cup
  [op : {"b", "bcond"}, label : Labels] \cup [op : {"adr"}, rt : Registers, label : Labels]

X9 == 9

ASSUME BuilderAssumption ==
  /\ MaxOps \in Nat /\ ChunkBase \in Nat \ {0}
  /\ {BranchReach, CondReach, AdrReach, LitReach} \subseteq Nat \ {0}
  /\ X9 \in Registers /\ Pool \in Seq({Pool[k] : k \in DOMAIN Pool})
  /\ Requests \subseteq Request

VARIABLES
  phase,
  ops,       \* what was asked for
  at,        \* the length of instrs when each operation was asked for
  instrs, labels, fixups, peepholeBarrier,
  opLabels,  \* label name -> number of the operation that follows it
  mach,      \* the machine that runs instrs
  model      \* the machine that runs ops

vars == <<phase, ops, at, instrs, labels, fixups, peepholeBarrier, opLabels, mach, model>>

-----------------------------------------------------------------------------
(* Offset fields: the low bits are kept, and read back with a sign.        *)
Encode(v, reach) == v % (2 * reach)
Decode(f, reach) == IF f >= reach THEN f - 2 * reach ELSE f

(* Mutant of InRange: the upper bound is included.                         *)
InRangeOffByOne(v, reach) == -reach <= v /\ v <= reach

InRange(v, reach) == -reach <= v /\ v < reach

(* newCodeBuilder reserves two words per pool entry before the first       *)
(* instruction.                                                            *)
poolIdx(name) == CHOOSE k \in 1..Len(Pool) : Pool[k] = name

PoolWords ==
  [w \in 1..(2 * Len(Pool)) |-> [op |-> "pool", name |-> Pool[(w + 1) \div 2], half |-> w % 2]]

(* emitMOVimm: the low chunk with MOVZ, the other non-zero ones with MOVK. *)
Chunk(v, sh) == (v \div Weight(sh)) % ChunkBase

MOVK(rd, v, sh) ==
  IF Chunk(v, sh) = 0 THEN <<>>
  ELSE <<[op |-> "movk", rt |-> rd, chunk |-> Chunk(v, sh), sh |-> sh]>>

emitMOVimm(rd, v) ==
  <<[op |-> "movz", rt |-> rd, chunk |-> Chunk(v, 0), sh |-> 0]>> \o
  MOVK(rd, v, 1) \o MOVK(rd, v, 2) \o MOVK(rd, v, 3)

(* peepholeElim: the word before is the store this load would undo, and no *)
(* label has been defined since.                                           *)
peepholeElim(o) ==
  /\ instrs # <<>> /\ ~peepholeBarrier
  /\ Last(instrs) = [op |-> "str", rt |-> o.rt, off |-> o.off]

(* The words an operation appends when instrs has length here.             *)
Instruction(o, here) ==
  CASE o.op \in {"str", "ldr"} -> <<[op |-> o.op, rt |-> o.rt, off |-> o.off]>>
    [] o.op = "movimm" -> emitMOVimm(o.rt, o.val)
    [] o.op = "ldrglobal" ->
         <<[op |-> "ldrlit", rt |-> X9,
            imm |-> Encode(2 * (poolIdx(o.name) - 1) - here, LitReach)]>>
    [] o.op \in {"b", "bcond"} -> <<[op |-> o.op, imm |-> 0]>>
    [] o.op = "adr" -> <<[op |-> "adr", rt |-> o.rt, imm |-> 0]>>

Words(o) == IF o.op = "ldr" /\ peepholeElim(o) THEN <<>> ELSE Instruction(o, Len(instrs))

-----------------------------------------------------------------------------
Init ==
  /\ phase = "build"
  /\ ops = <<>> /\ at = <<>>
  /\ instrs = PoolWords
  /\ labels = <<>> /\ opLabels = <<>> /\ fixups = {}
  /\ peepholeBarrier = FALSE
  /\ mach = [pc |-> 0, reg |-> <<>>, mem |-> <<>>]
  /\ model = mach

(* Mutant of Placeholder: recorded after the word is appended.             *)
PlaceholderLate(o) ==
  {[at |-> Len(instrs) + 1, label |-> l, kind |-> o.op] :
     l \in IF o.op \in Branches THEN {o.label} ELSE {}}

(* emitB, emitBcond (and CBZ, CBNZ) and emitADR leave a branchFixup.       *)
Placeholder(o) ==
  {[at |-> Len(instrs), label |-> l, kind |-> o.op] :
     l \in IF o.op \in Branches THEN {o.label} ELSE {}}

(* emit and its callers.  An elided load leaves the barrier as it is.      *)
Emit(o) ==
  /\ phase = "build" /\ Len(ops) < MaxOps
  /\ ops' = Append(ops, o)
  /\ at' = Append(at, Len(instrs))
  /\ instrs' = instrs \o Words(o)
  /\ peepholeBarrier' = (peepholeBarrier /\ Words(o) = <<>>)
  /\ fixups' = fixups \cup Placeholder(o)
  /\ UNCHANGED <<phase, labels, opLabels, mach, model>>

(* Mutant of defineLabel: no barrier.                                      *)
defineLabelNoBarrier(name) ==
  /\ phase = "build" /\ name \notin DOMAIN labels
  /\ labels' = [n \in DOMAIN labels \cup {name} |->
                  IF n = name THEN Len(instrs) ELSE labels[n]]
  /\ opLabels' = [n \in DOMAIN opLabels \cup {name} |->
                    IF n = name THEN Len(ops) + 1 ELSE opLabels[n]]
  /\ UNCHANGED <<phase, ops, at, instrs, fixups, peepholeBarrier, mach, model>>

(* Label names are unique: irgen and elfGen number them.                   *)
defineLabel(name) ==
  /\ phase = "build" /\ name \notin DOMAIN labels
  /\ labels' = [n \in DOMAIN labels \cup {name} |->
                  IF n = name THEN Len(instrs) ELSE labels[n]]
  /\ opLabels' = [n \in DOMAIN opLabels \cup {name} |->
                    IF n = name THEN Len(ops) + 1 ELSE opLabels[n]]
  /\ peepholeBarrier' = TRUE
  /\ UNCHANGED <<phase, ops, at, instrs, fixups, mach, model>>

(* applyFixups: a branch field counts words, ADR's counts bytes.           *)
Reach(kind) ==
  CASE kind = "b" -> BranchReach [] kind = "bcond" -> CondReach [] kind = "adr" -> AdrReach
Unit(kind) == IF kind = "adr" THEN 4 ELSE 1
Offset(fx) == Unit(fx.kind) * (labels[fx.label] - fx.at)

Fixable(fx) == fx.label \in DOMAIN labels /\ InRange(Offset(fx), Reach(fx.kind))

(* The machines start with every register and slot holding a value of its  *)
(* own.                                                                    *)
Start(pc) == [pc |-> pc, reg |-> [r \in Registers |-> <<"reg", r>>],
              mem |-> [s \in Slots |-> <<"slot", s>>]]

applyFixups ==
  /\ phase = "build" /\ \A fx \in fixups : Fixable(fx)
  /\ phase' = "run"
  /\ instrs' = [i \in DOMAIN instrs |->
       IF \E fx \in fixups : fx.at = i - 1
         THEN LET fx == CHOOSE fx \in fixups : fx.at = i - 1
              IN  [instrs[i] EXCEPT !.imm = Encode(Offset(fx), Reach(fx.kind))]
         ELSE instrs[i]]
  /\ mach' = Start(2 * Len(Pool)) /\ model' = Start(1)
  /\ UNCHANGED <<ops, at, labels, fixups, peepholeBarrier, opLabels>>

FixupError ==
  /\ phase = "build" /\ \E fx \in fixups : ~Fixable(fx)
  /\ phase' = "error"
  /\ UNCHANGED <<ops, at, instrs, labels, fixups, peepholeBarrier, opLabels, mach, model>>

-----------------------------------------------------------------------------
(* What a processor does with one emitted word.                            *)
WordAt(i) == instrs[i + 1]
Literal(i) ==
  IF i \in 0..(Len(instrs) - 1) /\ WordAt(i).op = "pool" /\ WordAt(i).half = 1
    THEN <<"addr", WordAt(i).name>> ELSE <<"garbage">>
SetReg(m, r, v) == [pc |-> m.pc + 1, reg |-> [m.reg EXCEPT ![r] = v], mem |-> m.mem]
Store(m, s, r) == [pc |-> m.pc + 1, reg |-> m.reg, mem |-> [m.mem EXCEPT ![s] = m.reg[r]]]
Jump(m, taken, target) == [m EXCEPT !.pc = IF taken THEN target ELSE m.pc + 1]

ExecWord(m, w, taken) ==
  CASE w.op = "str"  -> Store(m, w.off, w.rt)
    [] w.op = "ldr"  -> SetReg(m, w.rt, m.mem[w.off])
    [] w.op = "movz" -> SetReg(m, w.rt, <<"int", w.chunk>>)
    [] w.op = "movk" -> SetReg(m, w.rt, <<"int", m.reg[w.rt][2] + w.chunk * Weight(w.sh)>>)
    [] w.op = "ldrlit" -> SetReg(m, w.rt, Literal(m.pc + Decode(w.imm, LitReach)))
    [] w.op = "adr"  -> SetReg(m, w.rt, <<"code", m.pc + Decode(w.imm, AdrReach) \div 4>>)
    [] w.op = "b"     -> Jump(m, TRUE, m.pc + Decode(w.imm, BranchReach))
    [] w.op = "bcond" -> Jump(m, taken, m.pc + Decode(w.imm, CondReach))

(* What the code generator meant by one operation.                         *)
Place(k) == IF k > Len(ops) THEN Len(instrs) ELSE at[k]

ExecOp(m, o, taken) ==
  CASE o.op = "str"       -> Store(m, o.off, o.rt)
    [] o.op = "ldr"       -> SetReg(m, o.rt, m.mem[o.off])
    [] o.op = "movimm"    -> SetReg(m, o.rt, <<"int", o.val>>)
    [] o.op = "ldrglobal" -> SetReg(m, X9, <<"addr", o.name>>)
    [] o.op = "adr"       -> SetReg(m, o.rt, <<"code", Place(opLabels[o.label])>>)
    [] o.op = "b"         -> Jump(m, TRUE, opLabels[o.label])
    [] o.op = "bcond"     -> Jump(m, taken, opLabels[o.label])

(* The processor runs one word; the operation is done with its last word.  *)
(* Both machines take the same conditional branches.                       *)
Step(taken) ==
  /\ phase = "run" /\ model.pc <= Len(ops) /\ mach.pc < Place(model.pc + 1)
  /\ mach' = ExecWord(mach, WordAt(mach.pc), taken)
  /\ model' = IF mach.pc + 1 = Place(model.pc + 1)
                THEN ExecOp(model, ops[model.pc], taken) ELSE model
  /\ UNCHANGED <<phase, ops, at, instrs, labels, fixups, peepholeBarrier, opLabels>>

(* An elided operation has no word to run.                                 *)
StepElided ==
  /\ phase = "run" /\ model.pc <= Len(ops) /\ mach.pc = Place(model.pc + 1)
  /\ model' = ExecOp(model, ops[model.pc], FALSE)
  /\ UNCHANGED <<phase, ops, at, instrs, labels, fixups, peepholeBarrier, opLabels, mach>>

Next ==
  \/ \E o \in Requests : Emit(o)
  \/ \E name \in Labels : defineLabel(name)
  \/ applyFixups \/ FixupError
  \/ (\E taken \in BOOLEAN : Step(taken)) \/ StepElided

Spec == Init /\ [][Next]_vars

-----------------------------------------------------------------------------
(* Every operation has a place among the words, every label one among the  *)
(* words and one among the operations, and placeholders are branch words.  *)
TypeOK ==
  /\ phase \in {"build", "run", "error"}
  /\ peepholeBarrier \in BOOLEAN
  /\ Len(at) = Len(ops)
  /\ \A k \in 1..Len(ops) : ops[k] \in Requests /\ at[k] \in 0..Len(instrs)
  /\ DOMAIN opLabels = DOMAIN labels
  /\ \A n \in DOMAIN labels :
       opLabels[n] \in 1..(Len(ops) + 1) /\ labels[n] = Place(opLabels[n])
  /\ \A fx \in fixups : fx.at < Len(instrs) /\ WordAt(fx.at).op = fx.kind

(* "this optimization is only valid for straight-line code" (peepholeElim):*)
(* whatever path the program takes, the processor that runs the emitted    *)
(* words is always in the words of the operation that is due, and before   *)
(* each operation has the registers and the stack slots that the           *)
(* operations ask for.  An elided load, a mis-encoded branch or literal    *)
(* offset, or a wrong MOVZ/MOVK sequence shows here.  The literal offsets  *)
(* are not range checked: code longer than LitReach words is excepted.     *)
CodePreserved ==
  phase = "run" /\ Len(instrs) <= LitReach =>
    /\ mach.pc \in {Place(model.pc)} \cup Place(model.pc)..(Place(model.pc + 1) - 1)
    /\ mach.mem = model.mem
    /\ mach.pc = Place(model.pc) => mach.reg = model.reg

(* applyFixups refuses exactly what it cannot encode: after it every       *)
(* placeholder leads to its label, and when it fails some label is         *)
(* undefined or too far for its branch.                                    *)
BranchesReach ==
  /\ phase = "run" => \A fx \in fixups :
       Decode(WordAt(fx.at).imm, Reach(fx.kind)) = Offset(fx)
  /\ phase = "error" => \E fx \in fixups :
       \/ fx.label \notin DOMAIN labels
       \/ Decode(Encode(Offset(fx), Reach(fx.kind)), Reach(fx.kind)) # Offset(fx)
=============================================================================
