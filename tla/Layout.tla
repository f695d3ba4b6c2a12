------------------------------- MODULE Layout -------------------------------
(***************************************************************************)
(* Where variables live: the storage genIR asks for, the section offsets   *)
(* genObjectTo gives out unit by unit, and the addresses linkWithObjs      *)
(* computes when it merges the units (src/irgen.go, src/objgen.go,         *)
(* src/linker.go).  Offsets and addresses are numbers here; which          *)
(* definition a name means is module Linker's subject.                     *)
(***************************************************************************)
EXTENDS Naturals, Sequences, FiniteSetsExt

CONSTANTS
  Programs,     \* the programs considered: sequences of translation units
  HelperWords,  \* words of runtime helper code before the first unit's text
  LoadBase,     \* linkerLoadBase
  HdrEnd,       \* bytes of ELF header and program headers
  PageSize

(* A file-scope or static local variable, as the AST has it: its linkage,  *)
(* its shape (a word, a 16-byte scalar, an array of n words, a struct of   *)
(* that many bytes, an array of n such structs), its kind of initializer   *)
(* (none, an integer, anything else) and its _Alignas (0 if none, else a   *)
(* power of two), and whether it has a section attribute; a unit uses one  *)
(* section name for those.  Names are numbers in the order sort.Strings puts   *)
(* them; a name two units both define for real does not link (see Linker). *)
PowersOfTwo == {1, 2, 4, 8, 16, 32, 64, 128, 256, 512, 1024, 2048, 4096, 8192}
Linkage == {"extern", "static", "weak", "plain", "staticLocal"}
Shape   == {"word", "wide", "array", "struct", "structArray"}
varDecl(d) ==
  /\ d.name \in Nat /\ d.link \in Linkage /\ d.shape \in Shape
  /\ d.n \in Nat /\ d.bytes \in Nat /\ d.align \in {0} \cup PowersOfTwo
  /\ d.init \in {"none", "num", "data"} /\ d.custom \in BOOLEAN
  /\ d.link = "staticLocal" => ~d.custom

unit(t) ==
  /\ t.text \in Nat /\ t.rodata \in Nat
  /\ Len(t.globals) \in Nat
  /\ \A i \in 1..Len(t.globals) : varDecl(t.globals[i])

program(p) == Len(p) \in Nat /\ \A i \in 1..Len(p) : unit(p[i])

ASSUME ProgramsAssumption == \A p \in Programs : program(p)

ASSUME LayoutAssumption ==
  /\ HelperWords \in Nat /\ HdrEnd \in Nat /\ LoadBase \in Nat
  /\ PageSize \in Nat \ {0}
  /\ PageSize % 4096 = 0 /\ LoadBase % PageSize = 0

VARIABLES
  prog,        \* the program
  pc,
  u, g,        \* the unit and the global being looked at
  slots,       \* storage given out so far
  dataTotal, bssTotal, customTotal,   \* of the unit objgen is working on
  dataLen, bssLen, customOff,     \* per finished unit: sizes, and where the
                                  \* custom section is folded into .data
  rodataOff, dataOff, bssOff, textBaseWord,   \* per unit, from the linker
  textWords, totalRodata, totalData, totalBss,
  commonLeft,  \* COMMON names not yet allocated
  bases        \* rodataBase, dataBase, bssBase, sbrkCurBrkVA

placing == <<dataTotal, bssTotal, customTotal, dataLen, bssLen, customOff>>
linking == <<rodataOff, dataOff, bssOff, textBaseWord, textWords,
             totalRodata, totalData, totalBss, commonLeft, bases>>

vars == <<prog, pc, u, g, slots, placing, linking>>

-----------------------------------------------------------------------------
AlignUp(v, a) == ((v + a - 1) \div a) * a

(* Mutant of align16: pads to a word only.                                 *)
align8(v) == AlignUp(v, 8)

align16(v) == AlignUp(v, 16)

nextPage(v) == AlignUp(v, PageSize)

Larger(a, b) == IF a > b THEN a ELSE b

(* Words of storage genIR asks for.  An array counts one word per element  *)
(* whatever the element is; a static local that is no array gets one word. *)
DeclWords(d) ==
  IF d.shape \in {"array", "structArray"} THEN d.n
  ELSE IF d.link = "staticLocal" THEN 1
  ELSE IF d.shape = "struct" THEN (d.bytes + 7) \div 8
  ELSE IF d.shape = "wide" THEN 2
  ELSE 1

DeclAlign(d) ==
  IF d.link = "staticLocal" THEN 0
  ELSE IF d.align # 0 THEN d.align
  ELSE IF d.shape = "wide" THEN 16
  ELSE 0

(* Bytes of initializer data genIR builds.                                 *)
InitBytes(d) ==
  CASE d.shape = "structArray" -> d.n * d.bytes
    [] d.shape = "struct"      -> d.bytes
    [] d.shape = "array"       -> DeclWords(d) * 8
    [] OTHER                   -> 8

(* Bytes the compiled program reads and writes through the variable.       *)
Footprint(d) ==
  CASE d.shape = "structArray" -> d.n * d.bytes
    [] d.shape = "struct"      -> d.bytes
    [] d.shape = "array"       -> d.n * 8
    [] d.shape = "wide"        -> 16
    [] OTHER                   -> 8

slotAlign(d) == IF DeclAlign(d) > 0 THEN DeclAlign(d) ELSE 1

(* What is left of the initializer: HasInitVal (which counts for scalars   *)
(* only), InitData, or nothing.  A static local keeps nothing but an       *)
(* integer literal.                                                        *)
HasInitVal(d) == d.init = "num" /\ d.shape \notin {"array", "structArray"}
HasInitData(d) == d.init = "data" /\ d.link # "staticLocal" /\ InitBytes(d) > 0
Initialized(d) == HasInitVal(d) \/ HasInitData(d)

isCommon(d) == ~Initialized(d) /\ ~d.custom /\ d.link = "plain"

Slot(sec, d, off, size) ==
  [unit |-> u, sec |-> sec, name |-> d.name, off |-> off, size |-> size,
   need |-> Footprint(d), align |-> slotAlign(d)]

-----------------------------------------------------------------------------
Init ==
  /\ prog \in Programs
  /\ pc = "place" /\ u = 1 /\ g = 1
  /\ slots = <<>>
  /\ dataTotal = 0 /\ bssTotal = 0 /\ customTotal = 0
  /\ dataLen = <<>> /\ bssLen = <<>> /\ customOff = <<>>
  /\ rodataOff = <<>> /\ dataOff = <<>> /\ bssOff = <<>> /\ textBaseWord = <<>>
  /\ textWords = HelperWords
  /\ totalRodata = 0 /\ totalData = 0 /\ totalBss = 0
  /\ commonLeft = {}
  /\ bases = [rodata |-> 0, data |-> 0, bss |-> 0, sbrk |-> 0]

(* objgen: the globals of a unit, in declaration order.                    *)
Global == prog[u].globals[g]
Placing == pc = "place" /\ u <= Len(prog) /\ g <= Len(prog[u].globals)

SkipGlobal ==
  /\ Placing /\ (Global.link = "extern" \/ isCommon(Global))
  /\ g' = g + 1
  /\ UNCHANGED <<prog, pc, u, slots, placing, linking>>

(* An initialized global: an integer takes its words, bytes are padded to  *)
(* 8 or to the alignment.                                                  *)
DataSize(d) ==
  IF HasInitVal(d) THEN Larger(1, DeclWords(d)) * 8
  ELSE AlignUp(InitBytes(d), Larger(8, slotAlign(d)))

PlaceData ==
  /\ Placing /\ Global.link # "extern" /\ ~Global.custom /\ Initialized(Global)
  /\ LET off == AlignUp(dataTotal, slotAlign(Global))
     IN  /\ slots' = Append(slots, Slot("data", Global, off, DataSize(Global)))
         /\ dataTotal' = off + DataSize(Global)
  /\ g' = g + 1
  /\ UNCHANGED <<prog, pc, u, bssTotal, customTotal, dataLen, bssLen, customOff, linking>>

PlaceBss ==
  /\ Placing /\ Global.link \notin {"extern", "plain"} /\ ~Global.custom /\ ~Initialized(Global)
  /\ LET off == AlignUp(bssTotal, slotAlign(Global))
     IN  /\ slots' = Append(slots, Slot("bss", Global, off, DeclWords(Global) * 8))
         /\ bssTotal' = off + DeclWords(Global) * 8
  /\ g' = g + 1
  /\ UNCHANGED <<prog, pc, u, dataTotal, customTotal, dataLen, bssLen, customOff, linking>>

(* A global with a section attribute follows the one before it in that     *)
(* section, whatever its alignment; an integer takes 8 bytes.              *)
CustomSize(d) ==
  IF HasInitVal(d) THEN 8
  ELSE IF HasInitData(d) THEN AlignUp(InitBytes(d), 8)
  ELSE DeclWords(d) * 8

PlaceCustom ==
  /\ Placing /\ Global.link # "extern" /\ Global.custom
  /\ slots' = Append(slots, Slot("custom", Global, customTotal, CustomSize(Global)))
  /\ customTotal' = customTotal + CustomSize(Global)
  /\ g' = g + 1
  /\ UNCHANGED <<prog, pc, u, dataTotal, bssTotal, dataLen, bssLen, customOff, linking>>

(* The unit is written, with a custom section if a global has one (be it   *)
(* an empty one), and read back by parseObjELF, which folds that section   *)
(* into .data.                                                             *)
InCustom(d) == d.link # "extern" /\ d.custom
HasCustom   == \E j \in 1..Len(prog[u].globals) : InCustom(prog[u].globals[j])

(* Mutant of FoldedLen: the padding before the folded section is forgotten.*)
FoldedLenUnpadded == dataTotal + customTotal

FoldedLen == IF HasCustom THEN align16(dataTotal) + customTotal ELSE dataTotal

(* Mutant of EndUnit: a unit without .bss leaves no size.                  *)
EndUnitNoEmptyBss ==
  /\ pc = "place" /\ u <= Len(prog) /\ g > Len(prog[u].globals)
  /\ dataLen' = Append(dataLen, FoldedLen)
  /\ bssLen' = IF bssTotal = 0 THEN bssLen ELSE Append(bssLen, bssTotal)
  /\ customOff' = Append(customOff, align16(dataTotal))
  /\ dataTotal' = 0 /\ bssTotal' = 0 /\ customTotal' = 0
  /\ u' = u + 1 /\ g' = 1
  /\ UNCHANGED <<prog, pc, slots, linking>>

EndUnit ==
  /\ pc = "place" /\ u <= Len(prog) /\ g > Len(prog[u].globals)
  /\ dataLen' = Append(dataLen, FoldedLen)
  /\ bssLen' = Append(bssLen, bssTotal)
  /\ customOff' = Append(customOff, align16(dataTotal))
  /\ dataTotal' = 0 /\ bssTotal' = 0 /\ customTotal' = 0
  /\ u' = u + 1 /\ g' = 1
  /\ UNCHANGED <<prog, pc, slots, linking>>

StartLink ==
  /\ pc = "place" /\ u > Len(prog)
  /\ pc' = "merge" /\ u' = 1
  /\ UNCHANGED <<prog, g, slots, placing, linking>>

-----------------------------------------------------------------------------
(* linker: section k of a unit goes after section k of the one before it.  *)
MergeUnit ==
  /\ pc = "merge" /\ u <= Len(prog)
  /\ textBaseWord' = Append(textBaseWord, textWords)
  /\ textWords' = textWords + prog[u].text
  /\ rodataOff' = Append(rodataOff, align16(totalRodata))
  /\ totalRodata' = align16(totalRodata) + prog[u].rodata
  /\ dataOff' = Append(dataOff, align16(totalData))
  /\ totalData' = align16(totalData) + dataLen[u]
  /\ bssOff' = Append(bssOff, align16(totalBss))
  /\ totalBss' = align16(totalBss) + bssLen[u]
  /\ u' = u + 1
  /\ UNCHANGED <<prog, pc, g, slots, placing, commonLeft, bases>>

(* The tentative definitions that no unit defines for real.                *)
Decls == UNION {{prog[i].globals[j] : j \in 1..Len(prog[i].globals)} : i \in 1..Len(prog)}
Tentative(n) == {d \in Decls : d.name = n /\ isCommon(d)}
RealDefs == {d.name : d \in {d \in Decls : d.link = "plain" /\ Initialized(d)}}
CommonNames == {n \in {d.name : d \in Decls} : Tentative(n) # {} /\ n \notin RealDefs}

StartCommons ==
  /\ pc = "merge" /\ u > Len(prog)
  /\ pc' = "common"
  /\ commonLeft' = CommonNames
  /\ UNCHANGED <<prog, u, g, slots, placing, rodataOff, dataOff,
                 bssOff, textBaseWord, textWords, totalRodata, totalData, totalBss, bases>>

(* COMMON symbols carry the alignment of their variable, 8 if it has none  *)
(* (or one the linker finds absurd); the merged one has the largest size   *)
(* and the largest alignment.                                              *)
commonAlign(d) == IF DeclAlign(d) \in 1..4096 THEN DeclAlign(d) ELSE 8
CommonSize(n)  == Max({DeclWords(d) * 8 : d \in Tentative(n)})
CommonAlign(n) == Max({commonAlign(d) : d \in Tentative(n)})
CommonWish(n)  == Max({slotAlign(d) : d \in Tentative(n)})
CommonNeed(n)  == Max({Footprint(d) : d \in Tentative(n)})

AllocCommon(n) ==
  /\ pc = "common" /\ n \in commonLeft
  /\ \A m \in commonLeft : n <= m
  /\ LET off == AlignUp(totalBss, CommonAlign(n))
     IN  /\ slots' = Append(slots, [unit |-> 0, sec |-> "common", name |-> n, off |-> off,
                                    size |-> CommonSize(n), need |-> CommonNeed(n),
                                    align |-> CommonWish(n)])
         /\ totalBss' = off + CommonSize(n)
  /\ commonLeft' = commonLeft \ {n}
  /\ UNCHANGED <<prog, pc, u, g, placing, rodataOff, dataOff,
                 bssOff, textBaseWord, textWords, totalRodata, totalData, bases>>

codeBase == LoadBase + HdrEnd
codeEnd  == codeBase + textWords * 4

(* Segments start on pages; sbrk's break cell is the last word of BSS.     *)
AssignBases ==
  /\ pc = "common" /\ commonLeft = {}
  /\ pc' = "done"
  /\ LET ro == nextPage(codeEnd)
         da == nextPage(ro + totalRodata)
         bs == nextPage(da + totalData)
     IN  bases' = [rodata |-> ro, data |-> da, bss |-> bs, sbrk |-> bs + totalBss]
  /\ totalBss' = totalBss + 8
  /\ UNCHANGED <<prog, u, g, slots, placing, rodataOff, dataOff,
                 bssOff, textBaseWord, textWords, totalRodata, totalData, commonLeft>>

(* Where the segments are in the file.                                     *)
(* Mutant of rodataFileOff: the headers are forgotten.                     *)
rodataFileOffNoHeader == nextPage(textWords * 4)

rodataFileOff == nextPage(HdrEnd + textWords * 4)

dataFileOff == nextPage(rodataFileOff + totalRodata)

Next ==
  \/ SkipGlobal \/ PlaceData \/ PlaceBss \/ PlaceCustom \/ EndUnit \/ StartLink
  \/ MergeUnit \/ StartCommons \/ (\E n \in commonLeft : AllocCommon(n)) \/ AssignBases

Spec == Init /\ [][Next]_vars /\ WF_vars(Next)

-----------------------------------------------------------------------------
VA(s) ==
  CASE s.sec = "data"   -> bases.data + dataOff[s.unit] + s.off
    [] s.sec = "custom" -> bases.data + dataOff[s.unit] + customOff[s.unit] + s.off
    [] s.sec = "bss"    -> bases.bss + bssOff[s.unit] + s.off
    [] s.sec = "common" -> bases.bss + s.off

Sections == {"data", "custom", "bss", "common"}
slot == [unit : Nat, sec : Sections, name : Nat, off : Nat, size : Nat, need : Nat, align : Nat]

(* Offsets, sizes and addresses are naturals, and every per-unit table has *)
(* an entry for each unit the phase has finished.                          *)
CoreTypes ==
  /\ program(prog)
  /\ pc \in {"place", "merge", "common", "done"}
  /\ u \in 1..(Len(prog) + 1) /\ g \in Nat \ {0}
  /\ slots \in Seq(slot)

PlaceTypes ==
  /\ dataTotal \in Nat /\ bssTotal \in Nat /\ customTotal \in Nat
  /\ dataLen \in Seq(Nat) /\ bssLen \in Seq(Nat) /\ customOff \in Seq(Nat)
  /\ Len(dataLen) = IF pc = "place" THEN u - 1 ELSE Len(prog)
  /\ Len(bssLen) = Len(dataLen) /\ Len(customOff) = Len(dataLen)

LinkTypes ==
  /\ rodataOff \in Seq(Nat) /\ dataOff \in Seq(Nat) /\ bssOff \in Seq(Nat)
  /\ textBaseWord \in Seq(Nat)
  /\ Len(dataOff) = (IF pc = "place" THEN 0 ELSE u - 1) /\ Len(bssOff) = Len(dataOff)
  /\ textWords \in Nat /\ totalRodata \in Nat /\ totalData \in Nat /\ totalBss \in Nat
  /\ commonLeft \subseteq Nat
  /\ bases \in [rodata : Nat, data : Nat, bss : Nat, sbrk : Nat]

TypeOK == CoreTypes /\ PlaceTypes /\ LinkTypes

(* No two slots share a byte in the linked program, whatever units they    *)
(* come from, the slots lie inside their segment, and sbrk's break cell    *)
(* comes after all of them ("so the heap break lands after this storage",  *)
(* linkWithObjs).                                                          *)
Disjoint(a, la, b, lb) == a + la <= b \/ b + lb <= a

StorageDisjoint ==
  pc = "done" =>
    /\ \A i, j \in 1..Len(slots) :
         i # j => Disjoint(VA(slots[i]), slots[i].size, VA(slots[j]), slots[j].size)
    /\ \A i \in 1..Len(slots) :
         IF slots[i].sec \in {"data", "custom"}
           THEN /\ bases.data <= VA(slots[i])
                /\ VA(slots[i]) + slots[i].size <= bases.data + totalData
           ELSE /\ bases.bss <= VA(slots[i])
                /\ VA(slots[i]) + slots[i].size <= bases.sbrk
    /\ bases.sbrk + 8 = bases.bss + totalBss

(* Every slot is aligned to a word, and to the alignment its variable asks *)
(* for as far as it is kept: 16 in .data and .bss, 4096 in COMMON, none in *)
(* a custom section.                                                       *)
SlotsAligned ==
  pc = "done" =>
    \A i \in 1..Len(slots) :
      /\ VA(slots[i]) % 8 = 0
      /\ \/ slots[i].sec \in {"data", "bss"} /\ slots[i].align <= 16
         \/ slots[i].sec = "common" /\ slots[i].align <= 4096
         => VA(slots[i]) % slots[i].align = 0

(* The four PT_LOAD segments of linkWithObjs do not share a page, and each *)
(* segment's file offset is congruent to its address modulo the page size: *)
(* two separate computations the kernel requires to agree.                 *)
SegmentsLoadable ==
  pc = "done" =>
    /\ codeEnd <= bases.rodata /\ bases.rodata + totalRodata <= bases.data
    /\ bases.data + totalData <= bases.bss
    /\ \A b \in {bases.rodata, bases.data, bases.bss} : b % PageSize = 0
    /\ rodataFileOff + LoadBase = bases.rodata
    /\ dataFileOff + LoadBase = bases.data
    /\ rodataFileOff >= HdrEnd + textWords * 4

(* "a following global must not overlap a 128-bit load" (genObjectTo): the *)
(* bytes a program reaches through one variable are not in the slot of     *)
(* another.                                                                *)
ObjectsDisjoint ==
  pc = "done" =>
    \A i, j \in 1..Len(slots) :
      i # j => Disjoint(VA(slots[i]), slots[i].need, VA(slots[j]), slots[j].size)
=============================================================================
