---------------------------- MODULE LayoutProofs ----------------------------
(***************************************************************************)
(* Proofs about Layout, for every set of programs: any number of units,    *)
(* globals, sizes and alignments.                                          *)
(***************************************************************************)
EXTENDS Layout, FiniteSetTheorems, TLAPS

-----------------------------------------------------------------------------
(* Rounding up.  linkWithObjs and genObjectTo round every offset with the  *)
(* same formula.                                                           *)

(* What rounding up to a multiple gives.                                   *)
LEMMA AlignUpFacts ==
  ASSUME NEW v \in Nat, NEW a \in Nat \ {0}
  PROVE  /\ AlignUp(v, a) \in Nat
         /\ v <= AlignUp(v, a) /\ AlignUp(v, a) < v + a
         /\ AlignUp(v, a) % a = 0
  BY DEF AlignUp

(* The same for the sections, which are rounded to 16.                     *)
LEMMA Align16Facts ==
  ASSUME NEW v \in Nat
  PROVE  align16(v) \in Nat /\ v <= align16(v) /\ align16(v) % 16 = 0
  BY DEF align16, AlignUp

(* Rounding up to a power of two leaves a multiple of 8 one.               *)
LEMMA AlignUpWords ==
  ASSUME NEW v \in Nat, NEW a \in PowersOfTwo, v % 8 = 0
  PROVE  AlignUp(v, a) % 8 = 0
<1>1. CASE a \in {1, 2, 4, 8}
  BY <1>1 DEF AlignUp
<1>2. CASE a \in {16, 32, 64, 128, 256, 512, 1024, 2048, 4096, 8192}
  BY <1>2 DEF AlignUp
<1> QED BY <1>1, <1>2 DEF PowersOfTwo

(* Of two powers of two the smaller divides the larger, and what the       *)
(* larger divides.                                                         *)
LEMMA PowerDivides ==
  ASSUME NEW v \in Nat, NEW a \in PowersOfTwo, NEW b \in PowersOfTwo, a <= b, v % b = 0
  PROVE  v % a = 0
  BY DEF PowersOfTwo

(* Multiples of a number add up to multiples of it.                        *)
LEMMA SumDivides ==
  ASSUME NEW v \in Nat, NEW w \in Nat, NEW a \in Nat \ {0}, v % a = 0, w % a = 0
  PROVE  (v + w) % a = 0
<1>1. PICK k \in Nat : v = a * k
  <2>1. v = a * (v \div a) /\ v \div a \in Nat
    OBVIOUS
  <2> QED BY <2>1
<1>2. PICK l \in Nat : w = a * l
  <2>1. w = a * (w \div a) /\ w \div a \in Nat
    OBVIOUS
  <2> QED BY <2>1
<1>3. v + w = a * (k + l) /\ k + l \in Nat
  BY <1>1, <1>2
<1>4. \A m \in Nat : (a * m) % a = 0
  OBVIOUS
<1>5. (a * (k + l)) % a = 0
  BY <1>3, <1>4
<1> QED BY <1>3, <1>5

-----------------------------------------------------------------------------
(* A finite nonempty set of naturals has a largest element: the largest    *)
(* size and alignment of a COMMON symbol's definitions exist.              *)
LEMMA FiniteMax ==
  ASSUME NEW S \in SUBSET Nat, IsFiniteSet(S), S # {}
  PROVE  \E m \in S : \A y \in S : y <= m
<1> DEFINE HasMax(R) == \E m \in R : \A y \in R : y <= m
           Bad == {n \in Nat : \E R \in SUBSET Nat :
                      IsFiniteSet(R) /\ R # {} /\ Cardinality(R) = n /\ ~HasMax(R)}
<1> SUFFICES ASSUME Bad # {} PROVE FALSE
  <2>1. Cardinality(S) \in Nat
    BY FS_CardinalityType
  <2> QED BY <2>1
<1> HIDE DEF HasMax
<1>1. PICK n \in Bad : \A m \in Bad : n <= m
  <2>1. \E x \in Bad : \A y \in Bad : ~ (<<y, x>> \in OpToRel(<, Nat))
    BY NatLessThanWellFounded, WFMin
  <2>2. \A x, y \in Nat : ~ (<<y, x>> \in OpToRel(<, Nat)) => x <= y
    BY DEF OpToRel
  <2> QED BY <2>1, <2>2
<1>2. PICK R \in SUBSET Nat : IsFiniteSet(R) /\ R # {} /\ Cardinality(R) = n /\ ~HasMax(R)
  BY <1>1
<1>3. PICK x \in R : TRUE
  BY <1>2
<1> DEFINE Q == R \ {x}
<1>4. IsFiniteSet(Q) /\ Cardinality(Q) = n - 1 /\ Q \in SUBSET Nat
  BY <1>2, <1>3, FS_RemoveElement
<1>5. Cardinality(Q) \in Nat
  BY <1>4, FS_CardinalityType
<1>6. CASE Q = {}
  <2>1. R = {x}
    BY <1>3, <1>6
  <2> QED BY <2>1, <1>2 DEF HasMax
<1>7. CASE Q # {}
  <2>1. HasMax(Q)
    BY <1>1, <1>4, <1>5, <1>7
  <2>2. PICK m \in Q : \A y \in Q : y <= m
    BY <2>1 DEF HasMax
  <2>3. (IF m > x THEN m ELSE x) \in R /\ \A y \in R : y <= (IF m > x THEN m ELSE x)
    BY <2>2, <1>3
  <2> QED BY <2>3, <1>2 DEF HasMax
<1> QED BY <1>6, <1>7

(* Max of such a set is one of its elements and bounds the others.         *)
LEMMA MaxFacts ==
  ASSUME NEW S \in SUBSET Nat, IsFiniteSet(S), S # {}
  PROVE  Max(S) \in S /\ \A y \in S : y <= Max(S)
<1>1. \E m \in S : \A y \in S : m >= y
  BY FiniteMax
<1> QED BY <1>1 DEF Max

(* The image of a finite set is finite.                                    *)
LEMMA FiniteImage ==
  ASSUME NEW S, IsFiniteSet(S), NEW f, DOMAIN f = S, f = [x \in S |-> f[x]]
  PROVE  IsFiniteSet({f[x] : x \in S})
<1>1. f \in Surjection(S, {f[x] : x \in S})
  BY DEF Surjection
<1> QED BY <1>1, FS_Surjection

(* Rounding commutes with adding a multiple: an address a page multiple    *)
(* above an offset is rounded to a page multiple above the rounded offset. *)
LEMMA AlignUpShift ==
  ASSUME NEW b \in Nat, NEW v \in Nat, NEW a \in Nat \ {0}, b % a = 0
  PROVE  AlignUp(b + v, a) = b + AlignUp(v, a)
<1>1. PICK k \in Nat : b = a * k
  <2>1. b = a * (b \div a) /\ b \div a \in Nat
    OBVIOUS
  <2> QED BY <2>1
<1> DEFINE w == v + a - 1
<1>2. w \in Nat
  OBVIOUS
<1> HIDE DEF w
<1>3. (a * k + w) \div a = k + (w \div a)
  BY <1>2
<1>4. w \div a \in Nat
  BY <1>2
<1>5. (k + (w \div a)) * a = a * k + (w \div a) * a
  BY <1>4
<1>6. b + v + a - 1 = a * k + w
  BY <1>1 DEF w
<1> QED BY <1>1, <1>3, <1>5, <1>6 DEF AlignUp, w

-----------------------------------------------------------------------------
(* What genIR asks for and genObjectTo gives, for one variable: sizes are  *)
(* whole words and alignments powers of two.                               *)
LEMMA DeclFacts ==
  ASSUME NEW d, varDecl(d)
  PROVE  /\ DeclWords(d) \in Nat /\ Footprint(d) \in Nat /\ InitBytes(d) \in Nat
         /\ slotAlign(d) \in PowersOfTwo
         /\ commonAlign(d) \in PowersOfTwo
         /\ slotAlign(d) <= 4096 => slotAlign(d) <= commonAlign(d)
         /\ commonAlign(d) <= 4096
<1>1. d.n * d.bytes \in Nat /\ (d.bytes + 7) \div 8 \in Nat /\ d.n * 8 \in Nat
  BY DEF varDecl
<1>2. DeclWords(d) \in Nat
  BY <1>1 DEF DeclWords, varDecl
<1>3. InitBytes(d) \in Nat
  BY <1>1, <1>2 DEF InitBytes, varDecl, Shape
<1>4. Footprint(d) \in Nat
  BY <1>1 DEF Footprint, varDecl, Shape
<1>5. DeclAlign(d) \in {0} \cup PowersOfTwo
  BY DEF DeclAlign, PowersOfTwo, varDecl
<1> DEFINE a == DeclAlign(d)
<1>6. CASE a = 0
  <2>1. slotAlign(d) = 1 /\ commonAlign(d) = 8
    BY <1>6 DEF slotAlign, commonAlign
  <2> QED BY <2>1, <1>2, <1>3, <1>4 DEF PowersOfTwo
<1>7. CASE a \in PowersOfTwo /\ a <= 4096
  <2>1. slotAlign(d) = a /\ commonAlign(d) = a
    BY <1>7 DEF slotAlign, commonAlign, PowersOfTwo
  <2> HIDE DEF a
  <2> QED BY <2>1, <1>2, <1>3, <1>4, <1>7 DEF PowersOfTwo
<1>8. CASE a = 8192
  <2>1. slotAlign(d) = 8192 /\ commonAlign(d) = 8
    BY <1>8 DEF slotAlign, commonAlign
  <2> QED BY <2>1, <1>2, <1>3, <1>4 DEF PowersOfTwo
<1> QED BY <1>5, <1>6, <1>7, <1>8 DEF PowersOfTwo

(* Sizes are whole words.                                                  *)
LEMMA SizeFacts ==
  ASSUME NEW d, varDecl(d)
  PROVE  /\ DataSize(d) \in Nat /\ DataSize(d) % 8 = 0
         /\ CustomSize(d) \in Nat /\ CustomSize(d) % 8 = 0
         /\ DeclWords(d) * 8 \in Nat /\ (DeclWords(d) * 8) % 8 = 0
<1>1. DeclWords(d) \in Nat /\ InitBytes(d) \in Nat /\ slotAlign(d) \in PowersOfTwo
  BY DeclFacts
<1>2. Larger(1, DeclWords(d)) \in Nat
  BY <1>1 DEF Larger
<1>3. Larger(8, slotAlign(d)) \in {8, 16, 32, 64, 128, 256, 512, 1024, 2048, 4096, 8192}
  BY <1>1 DEF Larger, PowersOfTwo
<1>4. \A v \in Nat : AlignUp(v, Larger(8, slotAlign(d))) % 8 = 0
  BY <1>3 DEF AlignUp
<1>5. AlignUp(InitBytes(d), Larger(8, slotAlign(d))) \in Nat
  <2>1. Larger(8, slotAlign(d)) \in Nat \ {0}
    BY <1>3
  <2> QED BY <1>1, <2>1, AlignUpFacts
<1>6. AlignUp(InitBytes(d), 8) \in Nat /\ AlignUp(InitBytes(d), 8) % 8 = 0
  BY <1>1, AlignUpFacts
<1>7. DataSize(d) \in Nat /\ DataSize(d) % 8 = 0
  BY <1>1, <1>2, <1>4, <1>5 DEF DataSize
<1>8. CustomSize(d) \in Nat /\ CustomSize(d) % 8 = 0
  BY <1>1, <1>6 DEF CustomSize
<1> QED BY <1>1, <1>7, <1>8

(* A program has finitely many declarations, all of them well formed.      *)
LEMMA DeclsFacts ==
  ASSUME program(prog)
  PROVE  IsFiniteSet(Decls) /\ \A d \in Decls : varDecl(d)
<1> DEFINE In(i) == {prog[i].globals[j] : j \in 1..Len(prog[i].globals)}
           Sets  == {In(i) : i \in 1..Len(prog)}
<1>1. \A i \in 1..Len(prog) : IsFiniteSet(In(i))
  <2> SUFFICES ASSUME NEW i \in 1..Len(prog) PROVE IsFiniteSet(In(i))
    OBVIOUS
  <2>1. IsFiniteSet(1..Len(prog[i].globals))
    <3>1. Len(prog[i].globals) \in Nat
      BY DEF program, unit
    <3>2. \A n \in Nat : IsFiniteSet(1..n)
      BY FS_Interval
    <3> QED BY <3>1, <3>2
  <2> DEFINE f == [j \in 1..Len(prog[i].globals) |-> prog[i].globals[j]]
  <2>2. IsFiniteSet({f[j] : j \in 1..Len(prog[i].globals)})
    BY <2>1, FiniteImage
  <2>3. In(i) = {f[j] : j \in 1..Len(prog[i].globals)}
    OBVIOUS
  <2> QED BY <2>2, <2>3
<1>2. IsFiniteSet(Sets)
  <2> DEFINE f == [i \in 1..Len(prog) |-> In(i)]
  <2>1. IsFiniteSet(1..Len(prog))
    BY FS_Interval DEF program
  <2>2. IsFiniteSet({f[i] : i \in 1..Len(prog)})
    BY <2>1, FiniteImage
  <2>3. Sets = {f[i] : i \in 1..Len(prog)}
    OBVIOUS
  <2> QED BY <2>2, <2>3
<1>3. IsFiniteSet(UNION Sets)
  BY <1>1, <1>2, FS_UNION
<1>4. \A d \in Decls : varDecl(d)
  BY DEF Decls, program, unit
<1> QED BY <1>3, <1>4 DEF Decls

(* The COMMON symbol of a name: the merged size is whole words, and the    *)
(* merged alignment is at least what any definition asks for, as long as   *)
(* none asks for more than a page.                                         *)
LEMMA CommonFacts ==
  ASSUME program(prog), NEW n \in CommonNames
  PROVE  /\ n \in Nat
         /\ CommonSize(n) \in Nat /\ CommonSize(n) % 8 = 0
         /\ CommonNeed(n) \in Nat
         /\ CommonAlign(n) \in PowersOfTwo /\ CommonWish(n) \in PowersOfTwo
         /\ CommonAlign(n) <= 4096
         /\ CommonWish(n) <= 4096 => CommonWish(n) <= CommonAlign(n)
<1> DEFINE T == Tentative(n)
<1>1. T # {} /\ n \in Nat
  BY DeclsFacts DEF CommonNames, varDecl
<1>2. IsFiniteSet(T) /\ \A d \in T : varDecl(d)
  BY DeclsFacts, FS_Subset DEF Tentative
<1> HIDE DEF T
<1>3. /\ IsFiniteSet({DeclWords(d) * 8 : d \in T}) /\ {DeclWords(d) * 8 : d \in T} # {}
      /\ {DeclWords(d) * 8 : d \in T} \in SUBSET Nat
  <2> DEFINE f == [d \in T |-> DeclWords(d) * 8]
  <2>1. IsFiniteSet({f[d] : d \in T})
    BY <1>2, FiniteImage
  <2>2. {f[d] : d \in T} = {DeclWords(d) * 8 : d \in T}
    OBVIOUS
  <2>3. \A d \in T : DeclWords(d) * 8 \in Nat
    BY <1>2, SizeFacts
  <2> QED BY <2>1, <2>2, <2>3, <1>1
<1>4. /\ IsFiniteSet({commonAlign(d) : d \in T}) /\ {commonAlign(d) : d \in T} # {}
      /\ {commonAlign(d) : d \in T} \in SUBSET Nat
  <2> DEFINE f == [d \in T |-> commonAlign(d)]
  <2>1. IsFiniteSet({f[d] : d \in T})
    BY <1>2, FiniteImage
  <2>2. {f[d] : d \in T} = {commonAlign(d) : d \in T}
    OBVIOUS
  <2> QED BY <2>1, <2>2, <1>1, <1>2, DeclFacts DEF PowersOfTwo
<1>5. /\ IsFiniteSet({slotAlign(d) : d \in T}) /\ {slotAlign(d) : d \in T} # {}
      /\ {slotAlign(d) : d \in T} \in SUBSET Nat
  <2> DEFINE f == [d \in T |-> slotAlign(d)]
  <2>1. IsFiniteSet({f[d] : d \in T})
    BY <1>2, FiniteImage
  <2>2. {f[d] : d \in T} = {slotAlign(d) : d \in T}
    OBVIOUS
  <2> QED BY <2>1, <2>2, <1>1, <1>2, DeclFacts DEF PowersOfTwo
<1>6. /\ IsFiniteSet({Footprint(d) : d \in T}) /\ {Footprint(d) : d \in T} # {}
      /\ {Footprint(d) : d \in T} \in SUBSET Nat
  <2> DEFINE f == [d \in T |-> Footprint(d)]
  <2>1. IsFiniteSet({f[d] : d \in T})
    BY <1>2, FiniteImage
  <2>2. {f[d] : d \in T} = {Footprint(d) : d \in T}
    OBVIOUS
  <2> QED BY <2>1, <2>2, <1>1, <1>2, DeclFacts
<1>7. CommonSize(n) \in Nat /\ CommonSize(n) % 8 = 0
  <2>1. CommonSize(n) \in {DeclWords(d) * 8 : d \in T}
    BY <1>3, MaxFacts DEF CommonSize, T
  <2> QED BY <2>1, <1>2, SizeFacts
<1>8. CommonNeed(n) \in Nat
  BY <1>6, MaxFacts DEF CommonNeed, T
<1>9. CommonAlign(n) \in {commonAlign(d) : d \in T} /\ \A d \in T : commonAlign(d) <= CommonAlign(n)
  BY <1>4, MaxFacts DEF CommonAlign, T
<1>10. CommonWish(n) \in {slotAlign(d) : d \in T}
  BY <1>5, MaxFacts DEF CommonWish, T
<1>11. CommonAlign(n) \in PowersOfTwo /\ CommonAlign(n) <= 4096
  BY <1>2, <1>9, DeclFacts
<1>12. CommonWish(n) \in PowersOfTwo
  BY <1>2, <1>10, DeclFacts
<1>13. CommonWish(n) <= 4096 => CommonWish(n) <= CommonAlign(n)
  <2> SUFFICES ASSUME CommonWish(n) <= 4096 PROVE CommonWish(n) <= CommonAlign(n)
    OBVIOUS
  <2>1. PICK d \in T : CommonWish(n) = slotAlign(d)
    BY <1>10
  <2>2. slotAlign(d) <= commonAlign(d) /\ commonAlign(d) \in Nat /\ slotAlign(d) \in Nat
    BY <1>2, <2>1, DeclFacts DEF PowersOfTwo
  <2>3. commonAlign(d) <= CommonAlign(n) /\ CommonAlign(n) \in Nat
    BY <1>9, <1>11 DEF PowersOfTwo
  <2> QED BY <2>1, <2>2, <2>3
<1> QED BY <1>1, <1>7, <1>8, <1>11, <1>12, <1>13

-----------------------------------------------------------------------------
(* Type correctness.                                                       *)

(* What appending one slot leaves.                                         *)
LEMMA AppendFacts ==
  ASSUME NEW S, NEW s \in Seq(S), NEW x \in S
  PROVE  /\ Append(s, x) \in Seq(S)
         /\ Len(Append(s, x)) = Len(s) + 1
         /\ \A i \in 1..Len(s) : Append(s, x)[i] = s[i]
         /\ Append(s, x)[Len(s) + 1] = x
  OBVIOUS

(* TypeOK and the two facts its proof needs: the COMMON symbols still to be *)
(* allocated are names with tentative definitions, and after the merge     *)
(* every unit has its offsets.                                             *)
TypeInv ==
  /\ TypeOK
  /\ commonLeft \subseteq CommonNames
  /\ pc \in {"common", "done"} => u = Len(prog) + 1

(* The global being placed, and the slot it gets.                          *)
LEMMA GlobalFacts ==
  ASSUME CoreTypes, Placing
  PROVE  varDecl(Global) /\ u \in 1..Len(prog) /\ g \in 1..Len(prog[u].globals)
<1>1. u \in 1..Len(prog)
  BY DEF CoreTypes, Placing, program
<1>2. unit(prog[u])
  BY <1>1 DEF CoreTypes, program
<1>3. g \in 1..Len(prog[u].globals)
  BY <1>2 DEF CoreTypes, Placing, unit
<1> QED BY <1>1, <1>2, <1>3 DEF unit, Global

(* The slot given to a global is a well-formed one.                        *)
LEMMA SlotFacts ==
  ASSUME CoreTypes, Placing, NEW sec \in Sections, NEW off \in Nat, NEW size \in Nat
  PROVE  Slot(sec, Global, off, size) \in slot
<1>1. varDecl(Global) /\ u \in Nat
  BY GlobalFacts DEF CoreTypes
<1>2. Footprint(Global) \in Nat /\ slotAlign(Global) \in Nat /\ Global.name \in Nat
  BY <1>1, DeclFacts DEF PowersOfTwo, varDecl
<1> QED BY <1>1, <1>2 DEF Slot, slot

(* Offsets are rounded to the alignment of the global.                     *)
LEMMA OffsetFacts ==
  ASSUME CoreTypes, Placing, NEW v \in Nat
  PROVE  /\ AlignUp(v, slotAlign(Global)) \in Nat
         /\ v <= AlignUp(v, slotAlign(Global))
         /\ AlignUp(v, slotAlign(Global)) % slotAlign(Global) = 0
         /\ v % 8 = 0 => AlignUp(v, slotAlign(Global)) % 8 = 0
<1>1. slotAlign(Global) \in PowersOfTwo
  BY GlobalFacts, DeclFacts
<1>2. slotAlign(Global) \in Nat \ {0}
  BY <1>1 DEF PowersOfTwo
<1> QED BY <1>1, <1>2, AlignUpFacts, AlignUpWords

(* Steps that leave the linker's tables alone, and the phase they depend   *)
(* on.                                                                     *)
LEMMA SameLinking ==
  ASSUME LinkTypes, UNCHANGED linking, pc' = pc, u' = u \/ pc = "place"
  PROVE  LinkTypes'
  BY DEF LinkTypes, linking

(* The types hold at the start.                                            *)
LEMMA InitTypeInv == Init => TypeInv
<1> SUFFICES ASSUME Init PROVE TypeInv
  OBVIOUS
<1>1. program(prog)
  BY ProgramsAssumption DEF Init
<1>2. CoreTypes
  BY <1>1 DEF Init, CoreTypes, program
<1>3. PlaceTypes
  BY DEF Init, PlaceTypes
<1>4. LinkTypes
  BY LayoutAssumption DEF Init, LinkTypes
<1> QED BY <1>2, <1>3, <1>4 DEF TypeInv, TypeOK, Init

(* The program never changes, and so neither do its COMMON names.          *)
LEMMA SameProgram ==
  ASSUME TypeOK, [Next]_vars
  PROVE  prog' = prog /\ CommonNames' = CommonNames /\ program(prog) /\ Len(prog) \in Nat
<1>1. prog' = prog
  BY DEF Next, SkipGlobal, PlaceData, PlaceBss, PlaceCustom, EndUnit, StartLink, MergeUnit,
         StartCommons, AllocCommon, AssignBases, vars
<1>2. CommonNames' = CommonNames
  BY <1>1 DEF CommonNames, RealDefs, Tentative, Decls
<1> QED BY <1>1, <1>2 DEF TypeOK, CoreTypes, program

(* Every step keeps the types.                                             *)
LEMMA NextTypeInv == TypeInv /\ [Next]_vars => TypeInv'
<1> SUFFICES ASSUME TypeInv, [Next]_vars PROVE TypeInv'
  OBVIOUS
<1>1. prog' = prog /\ CommonNames' = CommonNames /\ program(prog) /\ Len(prog) \in Nat
  BY SameProgram DEF TypeInv
<1>2. CoreTypes /\ PlaceTypes /\ LinkTypes /\ commonLeft \subseteq CommonNames
  BY DEF TypeInv, TypeOK
<1>3. u \in 1..(Len(prog) + 1) /\ g \in Nat \ {0}
  BY <1>2 DEF CoreTypes
<1>4. CASE SkipGlobal
  <2>1. CoreTypes'
    BY <1>1, <1>2, <1>4 DEF SkipGlobal, CoreTypes
  <2>2. PlaceTypes'
    BY <1>1, <1>2, <1>4 DEF SkipGlobal, PlaceTypes, placing
  <2>3. LinkTypes'
    BY <1>2, <1>4, SameLinking DEF SkipGlobal
  <2> QED BY <1>1, <1>2, <1>4, <2>1, <2>2, <2>3 DEF TypeInv, TypeOK, SkipGlobal, linking, Placing
<1>5. CASE PlaceData
  <2> DEFINE off == AlignUp(dataTotal, slotAlign(Global))
  <2>1. off \in Nat
    BY <1>2, <1>5, OffsetFacts DEF PlaceData, PlaceTypes
  <2>2. DataSize(Global) \in Nat
    BY <1>2, <1>5, GlobalFacts, SizeFacts DEF PlaceData
  <2>3. slots' = Append(slots, Slot("data", Global, off, DataSize(Global)))
    BY <1>5 DEF PlaceData
  <2>4. dataTotal' = off + DataSize(Global)
    BY <1>5 DEF PlaceData
  <2> HIDE DEF off
  <2>5. slots' \in Seq(slot)
    <3>1. Slot("data", Global, off, DataSize(Global)) \in slot
      BY <1>2, <1>5, <2>1, <2>2, SlotFacts DEF PlaceData, Sections
    <3> QED BY <1>2, <2>3, <3>1, AppendFacts DEF CoreTypes
  <2>6. CoreTypes'
    BY <1>1, <1>2, <1>3, <1>5, <2>5 DEF PlaceData, CoreTypes
  <2>7. PlaceTypes'
    BY <1>1, <1>2, <1>5, <2>1, <2>2, <2>4 DEF PlaceData, PlaceTypes
  <2>8. LinkTypes'
    BY <1>2, <1>5, SameLinking DEF PlaceData
  <2> QED BY <1>1, <1>2, <1>5, <2>6, <2>7, <2>8 DEF TypeInv, TypeOK, PlaceData, linking, Placing
<1>6. CASE PlaceBss
  <2> DEFINE off == AlignUp(bssTotal, slotAlign(Global))
  <2>1. off \in Nat
    BY <1>2, <1>6, OffsetFacts DEF PlaceBss, PlaceTypes
  <2>2. DeclWords(Global) * 8 \in Nat
    BY <1>2, <1>6, GlobalFacts, SizeFacts DEF PlaceBss
  <2>3. slots' = Append(slots, Slot("bss", Global, off, DeclWords(Global) * 8))
    BY <1>6 DEF PlaceBss
  <2>4. bssTotal' = off + DeclWords(Global) * 8
    BY <1>6 DEF PlaceBss
  <2> HIDE DEF off
  <2>5. slots' \in Seq(slot)
    <3>1. Slot("bss", Global, off, DeclWords(Global) * 8) \in slot
      BY <1>2, <1>6, <2>1, <2>2, SlotFacts DEF PlaceBss, Sections
    <3> QED BY <1>2, <2>3, <3>1, AppendFacts DEF CoreTypes
  <2>6. CoreTypes'
    BY <1>1, <1>2, <1>3, <1>6, <2>5 DEF PlaceBss, CoreTypes
  <2>7. PlaceTypes'
    BY <1>1, <1>2, <1>6, <2>1, <2>2, <2>4 DEF PlaceBss, PlaceTypes
  <2>8. LinkTypes'
    BY <1>2, <1>6, SameLinking DEF PlaceBss
  <2> QED BY <1>1, <1>2, <1>6, <2>6, <2>7, <2>8 DEF TypeInv, TypeOK, PlaceBss, linking, Placing
<1>7. CASE PlaceCustom
  <2>1. CustomSize(Global) \in Nat
    BY <1>2, <1>7, GlobalFacts, SizeFacts DEF PlaceCustom
  <2>2. Slot("custom", Global, customTotal, CustomSize(Global)) \in slot
    BY <1>2, <1>7, <2>1, SlotFacts DEF PlaceCustom, Sections, PlaceTypes
  <2>3. slots' \in Seq(slot)
    BY <1>2, <1>7, <2>2, AppendFacts DEF PlaceCustom, CoreTypes
  <2>4. CoreTypes'
    BY <1>1, <1>2, <1>3, <1>7, <2>3 DEF PlaceCustom, CoreTypes
  <2>5. PlaceTypes'
    BY <1>1, <1>2, <1>7, <2>1 DEF PlaceCustom, PlaceTypes
  <2>6. LinkTypes'
    BY <1>2, <1>7, SameLinking DEF PlaceCustom
  <2> QED BY <1>1, <1>2, <1>7, <2>4, <2>5, <2>6 DEF TypeInv, TypeOK, PlaceCustom, linking, Placing
<1>8. CASE EndUnit
  <2>1. align16(dataTotal) \in Nat
    BY <1>2, Align16Facts DEF PlaceTypes
  <2>2. FoldedLen \in Nat
    BY <1>2, <2>1 DEF FoldedLen, PlaceTypes
  <2>3. /\ dataLen' \in Seq(Nat) /\ Len(dataLen') = Len(dataLen) + 1
        /\ bssLen' \in Seq(Nat) /\ Len(bssLen') = Len(bssLen) + 1
        /\ customOff' \in Seq(Nat) /\ Len(customOff') = Len(customOff) + 1
    BY <1>2, <1>8, <2>1, <2>2, AppendFacts DEF EndUnit, PlaceTypes
  <2>4. CoreTypes'
    BY <1>1, <1>2, <1>3, <1>8 DEF EndUnit, CoreTypes
  <2>5. PlaceTypes'
    BY <1>1, <1>2, <1>3, <1>8, <2>3 DEF EndUnit, PlaceTypes
  <2>6. LinkTypes'
    BY <1>2, <1>8, SameLinking DEF EndUnit
  <2> QED BY <1>1, <1>2, <1>8, <2>4, <2>5, <2>6 DEF TypeInv, TypeOK, EndUnit, linking
<1>9. CASE StartLink
  <2>1. CoreTypes'
    BY <1>1, <1>2, <1>3, <1>9 DEF StartLink, CoreTypes
  <2>2. PlaceTypes'
    BY <1>1, <1>2, <1>3, <1>9 DEF StartLink, PlaceTypes, placing
  <2>3. LinkTypes'
    BY <1>1, <1>2, <1>9 DEF StartLink, LinkTypes, linking
  <2> QED BY <1>1, <1>2, <1>9, <2>1, <2>2, <2>3 DEF TypeInv, TypeOK, StartLink, linking
<1>10. CASE MergeUnit
  <2>1. /\ align16(totalRodata) \in Nat /\ align16(totalData) \in Nat
        /\ align16(totalBss) \in Nat
    BY <1>2, Align16Facts DEF LinkTypes
  <2>2. u \in 1..Len(prog) /\ u \in 1..Len(dataLen) /\ u \in 1..Len(bssLen)
    BY <1>1, <1>2, <1>3, <1>10 DEF MergeUnit, PlaceTypes
  <2>3. dataLen[u] \in Nat /\ bssLen[u] \in Nat
    BY <1>2, <2>2 DEF PlaceTypes
  <2>4. unit(prog[u])
    BY <1>1, <2>2 DEF program
  <2>5. /\ rodataOff' \in Seq(Nat) /\ textBaseWord' \in Seq(Nat)
        /\ dataOff' \in Seq(Nat) /\ Len(dataOff') = Len(dataOff) + 1
        /\ bssOff' \in Seq(Nat) /\ Len(bssOff') = Len(bssOff) + 1
    <3>1. /\ rodataOff' = Append(rodataOff, align16(totalRodata))
          /\ textBaseWord' = Append(textBaseWord, textWords)
          /\ dataOff' = Append(dataOff, align16(totalData))
          /\ bssOff' = Append(bssOff, align16(totalBss))
      BY <1>10 DEF MergeUnit
    <3>2. /\ rodataOff \in Seq(Nat) /\ textBaseWord \in Seq(Nat)
          /\ dataOff \in Seq(Nat) /\ bssOff \in Seq(Nat) /\ textWords \in Nat
      BY <1>2 DEF LinkTypes
    <3> QED BY <2>1, <3>1, <3>2, AppendFacts
  <2>6. /\ textWords' \in Nat /\ totalRodata' \in Nat /\ totalData' \in Nat /\ totalBss' \in Nat
    <3>1. /\ textWords' = textWords + prog[u].text
          /\ totalRodata' = align16(totalRodata) + prog[u].rodata
          /\ totalData' = align16(totalData) + dataLen[u]
          /\ totalBss' = align16(totalBss) + bssLen[u]
      BY <1>10 DEF MergeUnit
    <3>2. textWords \in Nat /\ prog[u].text \in Nat /\ prog[u].rodata \in Nat
      BY <1>2, <2>4 DEF LinkTypes, unit
    <3> QED BY <2>1, <2>3, <3>1, <3>2
  <2>7. CoreTypes'
    <3>1. u' = u + 1 /\ UNCHANGED <<prog, pc, g, slots>>
      BY <1>10 DEF MergeUnit
    <3> QED BY <1>1, <1>2, <1>3, <2>2, <3>1 DEF CoreTypes
  <2>8. PlaceTypes'
    BY <1>1, <1>2, <1>10 DEF MergeUnit, PlaceTypes, placing
  <2>9. LinkTypes'
    BY <1>1, <1>2, <1>3, <1>10, <2>5, <2>6 DEF MergeUnit, LinkTypes
  <2> QED BY <1>1, <1>2, <1>10, <2>7, <2>8, <2>9 DEF TypeInv, TypeOK, MergeUnit
<1>11. CASE StartCommons
  <2>1. CommonNames \subseteq Nat
    BY <1>1, CommonFacts
  <2>2. CoreTypes'
    BY <1>1, <1>2, <1>11 DEF StartCommons, CoreTypes
  <2>3. PlaceTypes'
    BY <1>1, <1>2, <1>11 DEF StartCommons, PlaceTypes, placing
  <2>4. LinkTypes'
    BY <1>1, <1>2, <1>11, <2>1 DEF StartCommons, LinkTypes
  <2>5. u = Len(prog) + 1
    BY <1>1, <1>3, <1>11 DEF StartCommons
  <2> QED BY <1>1, <1>2, <1>11, <2>2, <2>3, <2>4, <2>5 DEF TypeInv, TypeOK, StartCommons
<1>12. ASSUME NEW n \in commonLeft, AllocCommon(n) PROVE TypeInv'
  <2>1. /\ n \in Nat /\ CommonSize(n) \in Nat /\ CommonNeed(n) \in Nat
        /\ CommonAlign(n) \in PowersOfTwo /\ CommonWish(n) \in PowersOfTwo
    BY <1>1, <1>2, CommonFacts
  <2> DEFINE off == AlignUp(totalBss, CommonAlign(n))
             s   == [unit |-> 0, sec |-> "common", name |-> n, off |-> off,
                     size |-> CommonSize(n), need |-> CommonNeed(n), align |-> CommonWish(n)]
  <2>2. off \in Nat
    <3>1. CommonAlign(n) \in Nat \ {0}
      BY <2>1 DEF PowersOfTwo
    <3>2. totalBss \in Nat
      BY <1>2 DEF LinkTypes
    <3> QED BY <3>1, <3>2, AlignUpFacts
  <2>3. slots' = Append(slots, s) /\ totalBss' = off + CommonSize(n)
    BY <1>12 DEF AllocCommon
  <2> HIDE DEF off
  <2>4. s \in slot
    BY <2>1, <2>2 DEF slot, Sections, PowersOfTwo
  <2> HIDE DEF s
  <2>5. slots' \in Seq(slot)
    BY <1>2, <2>3, <2>4, AppendFacts DEF CoreTypes
  <2>6. totalBss' \in Nat
    BY <2>1, <2>2, <2>3
  <2>7. commonLeft' \subseteq commonLeft
    BY <1>12 DEF AllocCommon
  <2>8. CoreTypes'
    BY <1>1, <1>2, <1>12, <2>5 DEF AllocCommon, CoreTypes
  <2>9. PlaceTypes'
    BY <1>1, <1>2, <1>12 DEF AllocCommon, PlaceTypes, placing
  <2>10. LinkTypes'
    BY <1>1, <1>2, <1>12, <2>6, <2>7 DEF AllocCommon, LinkTypes
  <2> QED BY <1>1, <1>2, <1>12, <2>7, <2>8, <2>9, <2>10 DEF TypeInv, TypeOK, AllocCommon
<1>13. CASE AssignBases
  <2> DEFINE ro == nextPage(codeEnd)
             da == nextPage(ro + totalRodata)
             bs == nextPage(da + totalData)
  <2>1. ro \in Nat
    <3>1. codeEnd \in Nat
      BY <1>2, LayoutAssumption DEF codeEnd, codeBase, LinkTypes
    <3> QED BY <3>1, LayoutAssumption, AlignUpFacts DEF nextPage
  <2>2. da \in Nat
    <3> HIDE DEF ro
    <3>1. ro + totalRodata \in Nat
      BY <1>2, <2>1 DEF LinkTypes
    <3> QED BY <3>1, LayoutAssumption, AlignUpFacts DEF nextPage
  <2>3. bs \in Nat
    <3> HIDE DEF da
    <3>1. da + totalData \in Nat
      BY <1>2, <2>2 DEF LinkTypes
    <3> QED BY <3>1, LayoutAssumption, AlignUpFacts DEF nextPage
  <2>4. bases' = [rodata |-> ro, data |-> da, bss |-> bs, sbrk |-> bs + totalBss]
    BY <1>13 DEF AssignBases
  <2> HIDE DEF ro, da, bs
  <2>5. bases' \in [rodata : Nat, data : Nat, bss : Nat, sbrk : Nat]
    BY <1>2, <2>1, <2>2, <2>3, <2>4 DEF LinkTypes
  <2>6. CoreTypes'
    BY <1>1, <1>2, <1>13 DEF AssignBases, CoreTypes
  <2>7. PlaceTypes'
    BY <1>1, <1>2, <1>13 DEF AssignBases, PlaceTypes, placing
  <2>8. LinkTypes'
    BY <1>1, <1>2, <1>13, <2>5 DEF AssignBases, LinkTypes
  <2> QED BY <1>1, <1>2, <1>13, <2>6, <2>7, <2>8 DEF TypeInv, TypeOK, AssignBases
<1>14. CASE UNCHANGED vars
  <2>1. CoreTypes'
    BY <1>2, <1>14 DEF vars, CoreTypes
  <2>2. PlaceTypes'
    BY <1>2, <1>14 DEF vars, PlaceTypes, placing
  <2>3. LinkTypes'
    BY <1>2, <1>14, SameLinking DEF vars
  <2> QED BY <1>1, <1>14, <2>1, <2>2, <2>3 DEF TypeInv, TypeOK, vars, linking
<1> QED BY <1>4, <1>5, <1>6, <1>7, <1>8, <1>9, <1>10, <1>11, <1>12, <1>13, <1>14 DEF Next

(* Type correctness: from every program the linker ends up with natural    *)
(* offsets and addresses, one of each per unit.                            *)
THEOREM LayoutTypeCorrect == Spec => []TypeOK
<1>1. Init => TypeInv
  BY InitTypeInv
<1>2. TypeInv /\ [Next]_vars => TypeInv'
  BY NextTypeInv
<1>3. TypeInv => TypeOK
  BY DEF TypeInv
<1> QED BY <1>1, <1>2, <1>3, PTL DEF Spec

-----------------------------------------------------------------------------
(* The inductive invariant.  Every offset is relative to something that is *)
(* still growing or not yet known, so the parts below follow a slot from   *)
(* the unit being placed, over the unit's finished sections, to the merged *)
(* sections.                                                               *)

InPlace(t) == pc = "place" /\ t = u

(* A slot belongs to a unit that has been begun, or is a COMMON one.       *)
SlotUnit(s) ==
  IF s.sec = "common" THEN pc \in {"common", "done"} /\ s.unit = 0
  ELSE s.unit \in 1..Len(prog) /\ (pc = "place" => s.unit <= u)

(* It lies below the total its section has reached, or has ended with; the *)
(* folded custom section follows the data slots.                           *)
SlotInside(s) ==
  /\ s.sec = "data" =>
       IF InPlace(s.unit) THEN s.off + s.size <= dataTotal
       ELSE s.off + s.size <= dataLen[s.unit] /\ s.off + s.size <= customOff[s.unit]
  /\ s.sec = "custom" =>
       IF InPlace(s.unit) THEN HasCustom /\ s.off + s.size <= customTotal
       ELSE customOff[s.unit] + s.off + s.size <= dataLen[s.unit]
  /\ s.sec = "bss" =>
       s.off + s.size <= IF InPlace(s.unit) THEN bssTotal ELSE bssLen[s.unit]

(* Sizes are whole words, and offsets multiples of the words and, where    *)
(* genObjectTo and linkWithObjs round, of the alignment.                   *)
SlotRounded(s) ==
  /\ s.off % 8 = 0 /\ s.size % 8 = 0 /\ s.align \in PowersOfTwo
  /\ s.sec \in {"data", "bss"} => s.off % s.align = 0
  /\ s.sec = "common" /\ s.align <= 4096 => s.off % s.align = 0

SlotsApart(s, t) ==
  s.unit = t.unit /\ s.sec = t.sec => Disjoint(s.off, s.size, t.off, t.size)

(* BSS without sbrk's break cell.                                          *)
BssEnd == IF pc = "done" THEN totalBss - 8 ELSE totalBss

(* COMMON slots come after every unit's .bss.                              *)
CommonInside(s) ==
  s.sec = "common" =>
    /\ s.off + s.size <= BssEnd
    /\ \A t \in 1..Len(bssOff) : bssOff[t] + bssLen[t] <= s.off

SlotGood(s) == SlotUnit(s) /\ SlotInside(s) /\ SlotRounded(s) /\ CommonInside(s)

SlotsInv == \A i \in 1..Len(slots) : SlotGood(slots[i])

ApartInv ==
  \A i, j \in 1..Len(slots) : i # j => SlotsApart(slots[i], slots[j])

(* Whole words everywhere, and rounded places for custom sections.         *)
WordsInv ==
  /\ dataTotal % 8 = 0 /\ bssTotal % 8 = 0 /\ customTotal % 8 = 0 /\ totalBss % 8 = 0
  /\ \A t \in 1..Len(bssLen) : bssLen[t] % 8 = 0
  /\ \A t \in 1..Len(customOff) : customOff[t] % 16 = 0

(* The merged sections: one unit's after another's, 16-byte aligned.       *)
MergeInv ==
  \A t \in 1..Len(dataOff) :
    /\ dataOff[t] % 16 = 0 /\ bssOff[t] % 16 = 0
    /\ dataOff[t] + dataLen[t] <= totalData /\ bssOff[t] + bssLen[t] <= BssEnd
    /\ \A r \in 1..(t - 1) :
         dataOff[r] + dataLen[r] <= dataOff[t] /\ bssOff[r] + bssLen[r] <= bssOff[t]

(* The bases: segments one after another on pages, the break cell last.    *)
BasesInv ==
  pc = "done" =>
    /\ SegmentsLoadable
    /\ bases.sbrk + 8 = bases.bss + totalBss /\ totalBss >= 8

LayoutInv == TypeInv /\ SlotsInv /\ ApartInv /\ WordsInv /\ MergeInv /\ BasesInv

-----------------------------------------------------------------------------
(* Steps that give out no storage keep the slots' facts if they keep each  *)
(* slot's.                                                                 *)
LEMMA KeepSlots ==
  ASSUME slots \in Seq(slot), SlotsInv, ApartInv, slots' = slots,
         \A x \in slot : SlotGood(x) => SlotGood(x)'
  PROVE  SlotsInv' /\ ApartInv'
<1>1. \A i \in 1..Len(slots) : slots[i] \in slot
  OBVIOUS
<1>2. SlotsInv'
  BY <1>1 DEF SlotsInv
<1>3. ApartInv'
  BY DEF ApartInv, SlotsApart, Disjoint
<1> QED BY <1>2, <1>3

(* Giving out a slot: it must be good, and apart from the good ones.       *)
LEMMA AddSlot ==
  ASSUME slots \in Seq(slot), SlotsInv, ApartInv,
         NEW s \in slot, slots' = Append(slots, s),
         \A x \in slot : SlotGood(x) => SlotGood(x)',
         SlotGood(s)',
         \A x \in slot : SlotGood(x) => SlotsApart(x, s)
  PROVE  SlotsInv' /\ ApartInv'
<1>1. /\ Len(slots') = Len(slots) + 1 /\ Len(slots) \in Nat
      /\ \A i \in 1..Len(slots) : slots'[i] = slots[i] /\ slots[i] \in slot
      /\ slots'[Len(slots) + 1] = s
  BY AppendFacts
<1>2. \A i \in 1..Len(slots') : i \in 1..Len(slots) \/ i = Len(slots) + 1
  BY <1>1
<1>3. SlotsInv'
  <2> SUFFICES ASSUME NEW i \in 1..Len(slots') PROVE SlotGood(slots[i])'
    BY DEF SlotsInv
  <2>1. CASE i \in 1..Len(slots)
    <3>1. slots'[i] = slots[i] /\ slots[i] \in slot /\ SlotGood(slots[i])
      BY <1>1, <2>1 DEF SlotsInv
    <3>2. \A y \in slot : y = slots[i] => SlotGood(y)'
      BY <3>1
    <3>3. \A y \in slot : y = slots'[i] => SlotGood(y)'
      BY <3>1, <3>2
    <3> QED BY <3>1, <3>3
  <2>2. CASE i = Len(slots) + 1
    BY <1>1, <2>2
  <2> QED BY <1>2, <2>1, <2>2
<1>4. ApartInv'
  <2>1. \A i \in 1..Len(slots) : SlotsApart(slots[i], s)
    BY <1>1 DEF SlotsInv
  <2>2. \A i \in 1..Len(slots) : SlotsApart(s, slots[i])
    BY <2>1 DEF SlotsApart, Disjoint
  <2>3. \A i, j \in 1..Len(slots) : i # j => SlotsApart(slots[i], slots[j])
    BY DEF ApartInv
  <2> SUFFICES ASSUME NEW i \in 1..Len(slots'), NEW j \in 1..Len(slots'), i # j
               PROVE  SlotsApart(slots'[i], slots'[j])
    BY DEF ApartInv, SlotsApart, Disjoint
  <2>4. CASE i \in 1..Len(slots) /\ j \in 1..Len(slots)
    BY <1>1, <2>3, <2>4
  <2>5. CASE i = Len(slots) + 1 /\ j \in 1..Len(slots)
    BY <1>1, <2>2, <2>5
  <2>6. CASE i \in 1..Len(slots) /\ j = Len(slots) + 1
    BY <1>1, <2>1, <2>6
  <2> QED BY <1>2, <2>4, <2>5, <2>6
<1> QED BY <1>3, <1>4

(* While a unit is placed its totals only grow, so every slot stays inside.*)
LEMMA PlaceKeeps ==
  ASSUME TypeInv, pc = "place",
         UNCHANGED <<prog, pc, u, dataLen, bssLen, customOff, linking>>,
         dataTotal' \in Nat, bssTotal' \in Nat, customTotal' \in Nat,
         dataTotal <= dataTotal', bssTotal <= bssTotal', customTotal <= customTotal'
  PROVE  \A x \in slot : SlotGood(x) => SlotGood(x)'
<1> SUFFICES ASSUME NEW x \in slot, SlotGood(x) PROVE SlotGood(x)'
  OBVIOUS
<1>1. x.off + x.size \in Nat /\ dataTotal \in Nat /\ bssTotal \in Nat /\ customTotal \in Nat
  BY DEF TypeInv, TypeOK, PlaceTypes, slot
<1>2. SlotUnit(x)'
  BY DEF SlotGood, SlotUnit
<1>3. HasCustom' = HasCustom
  BY DEF HasCustom
<1>4. SlotInside(x)'
  BY <1>1, <1>3 DEF SlotGood, SlotInside, InPlace
<1>5. SlotRounded(x)'
  BY DEF SlotGood, SlotRounded
<1>6. CommonInside(x)'
  BY DEF SlotGood, SlotUnit, CommonInside
<1> QED BY <1>2, <1>4, <1>5, <1>6 DEF SlotGood

(* A merged table that does not change keeps what is said of it.           *)
LEMMA SameMerge ==
  ASSUME MergeInv, UNCHANGED <<dataLen, bssLen, dataOff, bssOff, totalData>>, BssEnd' = BssEnd
  PROVE  MergeInv'
  BY DEF MergeInv

(* Placing an initialized global (genObjectTo).                            *)
LEMMA PlaceDataInv ==
  ASSUME LayoutInv, PlaceData
  PROVE  SlotsInv' /\ ApartInv' /\ WordsInv'
<1> DEFINE off == AlignUp(dataTotal, slotAlign(Global))
<1>1. TypeInv /\ CoreTypes /\ PlaceTypes /\ Placing /\ pc = "place"
  BY DEF LayoutInv, TypeInv, TypeOK, PlaceData, Placing
<1>2. dataTotal \in Nat /\ dataTotal % 8 = 0
  BY <1>1 DEF PlaceTypes, LayoutInv, WordsInv
<1>3. off \in Nat /\ dataTotal <= off /\ off % slotAlign(Global) = 0 /\ off % 8 = 0
  BY <1>1, <1>2, OffsetFacts
<1>4. DataSize(Global) \in Nat /\ DataSize(Global) % 8 = 0
  BY <1>1, GlobalFacts, SizeFacts
<1>5. /\ slots' = Append(slots, Slot("data", Global, off, DataSize(Global))) /\ dataTotal' = off + DataSize(Global)
      /\ UNCHANGED <<prog, pc, u, bssTotal, customTotal, dataLen, bssLen, customOff, linking>>
  BY DEF PlaceData
<1> HIDE DEF off
<1>6. PICK s \in slot : s = Slot("data", Global, off, DataSize(Global))
  BY <1>1, <1>3, <1>4, SlotFacts DEF Sections
<1>7. /\ s.unit = u /\ s.sec = "data" /\ s.off = off /\ s.size = DataSize(Global)
      /\ s.align = slotAlign(Global)
  BY <1>6 DEF Slot
<1>8. u \in 1..Len(prog) /\ slotAlign(Global) \in PowersOfTwo
  BY <1>1, GlobalFacts, DeclFacts
<1>9. dataTotal' \in Nat /\ dataTotal <= dataTotal'
  BY <1>2, <1>3, <1>4, <1>5
<1>10. \A x \in slot : SlotGood(x) => SlotGood(x)'
  BY <1>1, <1>5, <1>9, PlaceKeeps DEF PlaceTypes
<1>11. SlotGood(s)'
  <2>1. SlotUnit(s)'
    BY <1>1, <1>5, <1>7, <1>8 DEF SlotUnit
  <2>2. SlotInside(s)'
    BY <1>1, <1>5, <1>7, <1>9 DEF SlotInside, InPlace
  <2>3. SlotRounded(s)'
    BY <1>3, <1>4, <1>7, <1>8 DEF SlotRounded
  <2>4. CommonInside(s)'
    BY <1>7 DEF CommonInside
  <2> QED BY <2>1, <2>2, <2>3, <2>4 DEF SlotGood
<1>12. \A x \in slot : SlotGood(x) => SlotsApart(x, s)
  <2> SUFFICES ASSUME NEW x \in slot, SlotGood(x), x.unit = u, x.sec = "data"
               PROVE  Disjoint(x.off, x.size, s.off, s.size)
    BY <1>7 DEF SlotsApart
  <2>1. x.off + x.size <= dataTotal
    BY <1>1 DEF SlotGood, SlotInside, InPlace
  <2>2. x.off + x.size \in Nat
    BY DEF slot
  <2> QED BY <1>2, <1>3, <1>7, <2>1, <2>2 DEF Disjoint
<1>13. slots \in Seq(slot) /\ SlotsInv /\ ApartInv
  BY <1>1 DEF CoreTypes, LayoutInv
<1>14. SlotsInv' /\ ApartInv'
  BY <1>5, <1>6, <1>10, <1>11, <1>12, <1>13, AddSlot
<1>15. dataTotal' % 8 = 0
  BY <1>3, <1>4, <1>5
<1>16. WordsInv'
  BY <1>5, <1>15 DEF LayoutInv, WordsInv, linking
<1> QED BY <1>14, <1>16

(* Placing an uninitialized static or weak global in .bss.                 *)
LEMMA PlaceBssInv ==
  ASSUME LayoutInv, PlaceBss
  PROVE  SlotsInv' /\ ApartInv' /\ WordsInv'
<1> DEFINE off  == AlignUp(bssTotal, slotAlign(Global))
           size == DeclWords(Global) * 8
<1>1. TypeInv /\ CoreTypes /\ PlaceTypes /\ Placing /\ pc = "place"
  BY DEF LayoutInv, TypeInv, TypeOK, PlaceBss, Placing
<1>2. bssTotal \in Nat /\ bssTotal % 8 = 0
  BY <1>1 DEF PlaceTypes, LayoutInv, WordsInv
<1>3. off \in Nat /\ bssTotal <= off /\ off % slotAlign(Global) = 0 /\ off % 8 = 0
  BY <1>1, <1>2, OffsetFacts
<1>4. size \in Nat /\ size % 8 = 0
  BY <1>1, GlobalFacts, SizeFacts
<1>5. /\ slots' = Append(slots, Slot("bss", Global, off, size)) /\ bssTotal' = off + size
      /\ UNCHANGED <<prog, pc, u, dataTotal, customTotal, dataLen, bssLen, customOff, linking>>
  BY DEF PlaceBss
<1> HIDE DEF off, size
<1>6. PICK s \in slot : s = Slot("bss", Global, off, size)
  BY <1>1, <1>3, <1>4, SlotFacts DEF Sections
<1>7. /\ s.unit = u /\ s.sec = "bss" /\ s.off = off /\ s.size = size
      /\ s.align = slotAlign(Global)
  BY <1>6 DEF Slot
<1>8. u \in 1..Len(prog) /\ slotAlign(Global) \in PowersOfTwo
  BY <1>1, GlobalFacts, DeclFacts
<1>9. bssTotal' \in Nat /\ bssTotal <= bssTotal'
  BY <1>2, <1>3, <1>4, <1>5
<1>10. \A x \in slot : SlotGood(x) => SlotGood(x)'
  BY <1>1, <1>5, <1>9, PlaceKeeps DEF PlaceTypes
<1>11. SlotGood(s)'
  <2>1. SlotUnit(s)'
    BY <1>1, <1>5, <1>7, <1>8 DEF SlotUnit
  <2>2. SlotInside(s)'
    BY <1>1, <1>5, <1>7, <1>9 DEF SlotInside, InPlace
  <2>3. SlotRounded(s)'
    BY <1>3, <1>4, <1>7, <1>8 DEF SlotRounded
  <2>4. CommonInside(s)'
    BY <1>7 DEF CommonInside
  <2> QED BY <2>1, <2>2, <2>3, <2>4 DEF SlotGood
<1>12. \A x \in slot : SlotGood(x) => SlotsApart(x, s)
  <2> SUFFICES ASSUME NEW x \in slot, SlotGood(x), x.unit = u, x.sec = "bss"
               PROVE  Disjoint(x.off, x.size, s.off, s.size)
    BY <1>7 DEF SlotsApart
  <2>1. x.off + x.size <= bssTotal
    BY <1>1 DEF SlotGood, SlotInside, InPlace
  <2>2. x.off + x.size \in Nat
    BY DEF slot
  <2> QED BY <1>2, <1>3, <1>7, <2>1, <2>2 DEF Disjoint
<1>13. slots \in Seq(slot) /\ SlotsInv /\ ApartInv
  BY <1>1 DEF CoreTypes, LayoutInv
<1>14. SlotsInv' /\ ApartInv'
  BY <1>5, <1>6, <1>10, <1>11, <1>12, <1>13, AddSlot
<1>15. bssTotal' % 8 = 0
  BY <1>3, <1>4, <1>5
<1>16. WordsInv'
  BY <1>5, <1>15 DEF LayoutInv, WordsInv, linking
<1> QED BY <1>14, <1>16

(* Placing a global of a custom section.                                   *)
LEMMA PlaceCustomInv ==
  ASSUME LayoutInv, PlaceCustom
  PROVE  SlotsInv' /\ ApartInv' /\ WordsInv'
<1> DEFINE size == CustomSize(Global)
<1>1. TypeInv /\ CoreTypes /\ PlaceTypes /\ Placing /\ pc = "place"
  BY DEF LayoutInv, TypeInv, TypeOK, PlaceCustom, Placing
<1>2. customTotal \in Nat /\ customTotal % 8 = 0
  BY <1>1 DEF PlaceTypes, LayoutInv, WordsInv
<1>4. size \in Nat /\ size % 8 = 0
  BY <1>1, GlobalFacts, SizeFacts
<1>5. /\ slots' = Append(slots, Slot("custom", Global, customTotal, size)) /\ customTotal' = customTotal + size
      /\ UNCHANGED <<prog, pc, u, dataTotal, bssTotal, dataLen, bssLen, customOff, linking>>
  BY DEF PlaceCustom
<1> HIDE DEF size
<1>6. PICK s \in slot : s = Slot("custom", Global, customTotal, size)
  BY <1>1, <1>2, <1>4, SlotFacts DEF Sections
<1>7. /\ s.unit = u /\ s.sec = "custom" /\ s.off = customTotal /\ s.size = size
      /\ s.align = slotAlign(Global)
  BY <1>6 DEF Slot
<1>8. /\ u \in 1..Len(prog) /\ slotAlign(Global) \in PowersOfTwo
      /\ g \in 1..Len(prog[u].globals)
  BY <1>1, GlobalFacts, DeclFacts
<1>9. customTotal' \in Nat /\ customTotal <= customTotal'
  BY <1>2, <1>4, <1>5
<1>10. \A x \in slot : SlotGood(x) => SlotGood(x)'
  BY <1>1, <1>5, <1>9, PlaceKeeps DEF PlaceTypes
<1>11. SlotGood(s)'
  <2>1. SlotUnit(s)'
    BY <1>1, <1>5, <1>7, <1>8 DEF SlotUnit
  <2>2. HasCustom'
    BY <1>5, <1>8 DEF HasCustom, InCustom, PlaceCustom, Global
  <2>3. SlotInside(s)'
    BY <1>1, <1>5, <1>7, <1>9, <2>2 DEF SlotInside, InPlace
  <2>4. SlotRounded(s)'
    BY <1>2, <1>4, <1>7, <1>8 DEF SlotRounded
  <2>5. CommonInside(s)'
    BY <1>7 DEF CommonInside
  <2> QED BY <2>1, <2>3, <2>4, <2>5 DEF SlotGood
<1>12. \A x \in slot : SlotGood(x) => SlotsApart(x, s)
  <2> SUFFICES ASSUME NEW x \in slot, SlotGood(x), x.unit = u, x.sec = "custom"
               PROVE  Disjoint(x.off, x.size, s.off, s.size)
    BY <1>7 DEF SlotsApart
  <2>1. x.off + x.size <= customTotal
    BY <1>1 DEF SlotGood, SlotInside, InPlace
  <2>2. x.off + x.size \in Nat
    BY DEF slot
  <2> QED BY <1>2, <1>7, <2>1, <2>2 DEF Disjoint
<1>13. slots \in Seq(slot) /\ SlotsInv /\ ApartInv
  BY <1>1 DEF CoreTypes, LayoutInv
<1>14. SlotsInv' /\ ApartInv'
  BY <1>5, <1>6, <1>10, <1>11, <1>12, <1>13, AddSlot
<1>15. customTotal' % 8 = 0
  BY <1>2, <1>4, <1>5
<1>16. WordsInv'
  BY <1>5, <1>15 DEF LayoutInv, WordsInv, linking
<1> QED BY <1>14, <1>16

(* Writing a unit and reading it back: the totals of the unit become the   *)
(* sizes of its sections, with the custom section folded behind .data.     *)
LEMMA EndUnitInv ==
  ASSUME LayoutInv, EndUnit
  PROVE  SlotsInv' /\ ApartInv' /\ WordsInv'
<1>1. TypeInv /\ CoreTypes /\ PlaceTypes /\ pc = "place" /\ Len(dataLen) = u - 1
  BY DEF LayoutInv, TypeInv, TypeOK, EndUnit, PlaceTypes
<1>2. /\ u \in 1..Len(prog) /\ Len(prog) \in Nat /\ Len(bssLen) = u - 1 /\ Len(customOff) = u - 1
  BY <1>1 DEF EndUnit, CoreTypes, PlaceTypes, program
<1>3. /\ dataTotal \in Nat /\ bssTotal \in Nat /\ customTotal \in Nat
      /\ align16(dataTotal) \in Nat /\ dataTotal <= align16(dataTotal)
      /\ align16(dataTotal) % 16 = 0
  BY <1>1, Align16Facts DEF PlaceTypes
<1>4. FoldedLen \in Nat /\ dataTotal <= FoldedLen
  BY <1>3 DEF FoldedLen
<1>5. /\ dataLen' = Append(dataLen, FoldedLen) /\ bssLen' = Append(bssLen, bssTotal)
      /\ customOff' = Append(customOff, align16(dataTotal))
      /\ dataTotal' = 0 /\ bssTotal' = 0 /\ customTotal' = 0 /\ u' = u + 1
      /\ UNCHANGED <<prog, pc, slots, linking>>
  BY DEF EndUnit
<1>6. /\ dataLen'[u] = FoldedLen /\ bssLen'[u] = bssTotal /\ customOff'[u] = align16(dataTotal)
      /\ Len(bssLen') = u /\ Len(customOff') = u
      /\ \A t \in 1..(u - 1) :
           dataLen'[t] = dataLen[t] /\ bssLen'[t] = bssLen[t] /\ customOff'[t] = customOff[t]
  <2>1. dataLen \in Seq(Nat) /\ bssLen \in Seq(Nat) /\ customOff \in Seq(Nat)
    BY <1>1 DEF PlaceTypes
  <2>2. (u - 1) + 1 = u
    BY <1>2
  <2>3. dataLen'[u] = FoldedLen /\ \A t \in 1..(u - 1) : dataLen'[t] = dataLen[t]
    BY <1>1, <1>4, <1>5, <2>1, <2>2, AppendFacts
  <2>4. /\ bssLen'[u] = bssTotal /\ Len(bssLen') = u
        /\ \A t \in 1..(u - 1) : bssLen'[t] = bssLen[t]
    BY <1>2, <1>3, <1>5, <2>1, <2>2, AppendFacts
  <2>5. /\ customOff'[u] = align16(dataTotal) /\ Len(customOff') = u
        /\ \A t \in 1..(u - 1) : customOff'[t] = customOff[t]
    BY <1>2, <1>3, <1>5, <2>1, <2>2, AppendFacts
  <2> QED BY <2>3, <2>4, <2>5
<1>7. \A x \in slot : SlotGood(x) => SlotGood(x)'
  <2> SUFFICES ASSUME NEW x \in slot, SlotGood(x) PROVE SlotGood(x)'
    OBVIOUS
  <2>1. x.off \in Nat /\ x.size \in Nat /\ x.unit \in Nat
    BY DEF slot
  <2>2. SlotUnit(x) /\ SlotInside(x)
    BY DEF SlotGood
  <2>3. x.sec # "common" /\ x.unit \in 1..u /\ x.unit \in 1..Len(prog)
    BY <1>1, <1>2, <2>1, <2>2 DEF SlotUnit
  <2>4. SlotUnit(x)'
    BY <1>1, <1>2, <1>5, <2>3 DEF SlotUnit
  <2>5. ~InPlace(x.unit)'
    BY <1>2, <1>5, <2>3 DEF InPlace
  <2>6. SlotInside(x)'
    <3>1. CASE x.unit = u
      <4>1. InPlace(x.unit)
        BY <1>1, <3>1 DEF InPlace
      <4>2. x.sec = "data" => x.off + x.size <= dataTotal
        BY <2>2, <4>1 DEF SlotInside
      <4>3. x.sec = "custom" => HasCustom /\ x.off + x.size <= customTotal
        BY <2>2, <4>1 DEF SlotInside
      <4>4. x.sec = "bss" => x.off + x.size <= bssTotal
        BY <2>2, <4>1 DEF SlotInside
      <4>5. HasCustom => FoldedLen = align16(dataTotal) + customTotal
        BY DEF FoldedLen
      <4> QED BY <1>3, <1>4, <1>6, <2>1, <2>5, <3>1, <4>2, <4>3, <4>4, <4>5 DEF SlotInside
    <3>2. CASE x.unit # u
      <4>1. ~InPlace(x.unit) /\ x.unit \in 1..(u - 1)
        BY <1>2, <2>3, <3>2 DEF InPlace
      <4> QED BY <1>6, <2>2, <2>5, <4>1 DEF SlotInside
    <3> QED BY <3>1, <3>2
  <2>7. SlotRounded(x)'
    BY DEF SlotGood, SlotRounded
  <2>8. CommonInside(x)'
    BY <2>3 DEF CommonInside
  <2> QED BY <2>4, <2>6, <2>7, <2>8 DEF SlotGood
<1>8. SlotsInv' /\ ApartInv'
  BY <1>1, <1>5, <1>7, KeepSlots DEF LayoutInv, CoreTypes
<1>9. WordsInv'
  <2>1. \A t \in 1..Len(bssLen') : bssLen'[t] % 8 = 0
    BY <1>2, <1>6 DEF LayoutInv, WordsInv
  <2>2. \A t \in 1..Len(customOff') : customOff'[t] % 16 = 0
    BY <1>2, <1>3, <1>6 DEF LayoutInv, WordsInv
  <2>3. totalBss' = totalBss
    BY <1>5 DEF linking
  <2> QED BY <1>5, <2>1, <2>2, <2>3 DEF LayoutInv, WordsInv
<1> QED BY <1>8, <1>9

(* From placing to merging: every unit is finished.                        *)
LEMMA StartLinkInv ==
  ASSUME LayoutInv, StartLink
  PROVE  SlotsInv' /\ ApartInv' /\ WordsInv'
<1>1. CoreTypes /\ Len(prog) \in Nat /\ u \in Nat /\ u > Len(prog)
  BY DEF LayoutInv, TypeInv, TypeOK, CoreTypes, program, StartLink
<1>2. pc = "place" /\ pc' = "merge" /\ UNCHANGED <<prog, slots, placing, linking>>
  BY DEF StartLink
<1>3. \A x \in slot : SlotGood(x) => SlotGood(x)'
  <2> SUFFICES ASSUME NEW x \in slot, SlotGood(x) PROVE SlotGood(x)'
    OBVIOUS
  <2>1. x.sec # "common" /\ x.unit \in 1..Len(prog)
    BY <1>2 DEF SlotGood, SlotUnit
  <2>2. ~InPlace(x.unit) /\ ~InPlace(x.unit)'
    BY <1>1, <1>2, <2>1 DEF InPlace
  <2>3. SlotUnit(x)'
    BY <1>2, <2>1 DEF SlotUnit
  <2>4. SlotInside(x)'
    BY <1>2, <2>2 DEF SlotGood, SlotInside, placing
  <2>5. SlotRounded(x)'
    BY DEF SlotGood, SlotRounded
  <2>6. CommonInside(x)'
    BY <2>1 DEF CommonInside
  <2> QED BY <2>3, <2>4, <2>5, <2>6 DEF SlotGood
<1>4. SlotsInv' /\ ApartInv'
  BY <1>1, <1>2, <1>3, KeepSlots DEF LayoutInv, CoreTypes
<1>5. WordsInv'
  BY <1>2 DEF LayoutInv, WordsInv, placing, linking
<1> QED BY <1>4, <1>5

(* Merging a unit: its sections go behind those of the units before it.    *)
LEMMA MergeUnitInv ==
  ASSUME LayoutInv, MergeUnit
  PROVE  SlotsInv' /\ ApartInv' /\ WordsInv' /\ MergeInv'
<1>1. /\ CoreTypes /\ PlaceTypes /\ LinkTypes /\ pc = "merge" /\ pc' = "merge"
      /\ Len(dataOff) = u - 1 /\ Len(bssOff) = u - 1
  BY DEF LayoutInv, TypeInv, TypeOK, MergeUnit, LinkTypes
<1>2. /\ u \in 1..Len(prog) /\ Len(prog) \in Nat /\ Len(dataLen) = Len(prog)
      /\ Len(bssLen) = Len(prog)
  BY <1>1 DEF MergeUnit, CoreTypes, PlaceTypes, program
<1>3. dataLen[u] \in Nat /\ bssLen[u] \in Nat /\ bssLen[u] % 8 = 0
  <2>1. dataLen[u] \in Nat /\ bssLen[u] \in Nat
    BY <1>1, <1>2 DEF PlaceTypes
  <2> QED BY <1>2, <2>1 DEF LayoutInv, WordsInv
<1>4. /\ totalData \in Nat /\ totalBss \in Nat
      /\ align16(totalData) \in Nat /\ totalData <= align16(totalData)
      /\ align16(totalData) % 16 = 0
      /\ align16(totalBss) \in Nat /\ totalBss <= align16(totalBss)
      /\ align16(totalBss) % 16 = 0
  BY <1>1, Align16Facts DEF LinkTypes
<1>5. /\ dataOff' = Append(dataOff, align16(totalData))
      /\ totalData' = align16(totalData) + dataLen[u]
      /\ bssOff' = Append(bssOff, align16(totalBss))
      /\ totalBss' = align16(totalBss) + bssLen[u]
      /\ u' = u + 1
      /\ UNCHANGED <<prog, pc, g, slots, placing, commonLeft, bases>>
  BY DEF MergeUnit
<1>6. /\ Len(dataOff') = u /\ dataOff'[u] = align16(totalData)
      /\ bssOff'[u] = align16(totalBss)
      /\ \A t \in 1..(u - 1) : dataOff'[t] = dataOff[t] /\ bssOff'[t] = bssOff[t]
  <2>1. dataOff \in Seq(Nat) /\ bssOff \in Seq(Nat) /\ (u - 1) + 1 = u
    BY <1>1, <1>2 DEF LinkTypes
  <2> QED BY <1>1, <1>4, <1>5, <2>1, AppendFacts
<1>7. UNCHANGED <<dataTotal, bssTotal, customTotal, dataLen, bssLen, customOff>>
  BY <1>5 DEF placing
<1>8. \A x \in slot : SlotGood(x) => SlotGood(x)'
  <2> SUFFICES ASSUME NEW x \in slot, SlotGood(x) PROVE SlotGood(x)'
    OBVIOUS
  <2>1. x.sec # "common"
    BY <1>1 DEF SlotGood, SlotUnit
  <2>2. SlotUnit(x)'
    BY <1>1, <1>5, <2>1 DEF SlotGood, SlotUnit
  <2>3. SlotInside(x)'
    BY <1>1, <1>7 DEF SlotGood, SlotInside, InPlace
  <2>4. SlotRounded(x)'
    BY DEF SlotGood, SlotRounded
  <2>5. CommonInside(x)'
    BY <2>1 DEF CommonInside
  <2> QED BY <2>2, <2>3, <2>4, <2>5 DEF SlotGood
<1>9. SlotsInv' /\ ApartInv'
  BY <1>1, <1>5, <1>8, KeepSlots DEF LayoutInv, CoreTypes
<1>10. WordsInv'
  <2>1. \A v, w \in Nat : v % 16 = 0 /\ w % 8 = 0 => (v + w) % 8 = 0
    OBVIOUS
  <2>2. (align16(totalBss) + bssLen[u]) % 8 = 0
    BY <1>3, <1>4, <2>1
  <2>3. totalBss' % 8 = 0
    BY <1>5, <2>2
  <2> QED BY <1>7, <2>3 DEF LayoutInv, WordsInv
<1>11. MergeInv'
  <2>1. BssEnd = totalBss /\ BssEnd' = totalBss'
    BY <1>1 DEF BssEnd
  <2>2. \A t \in 1..(u - 1) : /\ dataOff[t] \in Nat /\ bssOff[t] \in Nat
                              /\ dataLen[t] \in Nat /\ bssLen[t] \in Nat
    <3>1. \A t \in 1..(u - 1) : t \in 1..Len(prog)
      BY <1>2
    <3>2. \A t \in 1..(u - 1) : dataOff[t] \in Nat /\ bssOff[t] \in Nat
      BY <1>1 DEF LinkTypes
    <3>3. \A t \in 1..Len(prog) : dataLen[t] \in Nat /\ bssLen[t] \in Nat
      BY <1>1, <1>2 DEF PlaceTypes
    <3> QED BY <3>1, <3>2, <3>3
  <2>3. \A t \in 1..(u - 1) : /\ dataOff[t] + dataLen[t] <= totalData
                              /\ bssOff[t] + bssLen[t] <= totalBss
    BY <1>1, <2>1 DEF LayoutInv, MergeInv
  <2>4. totalData' = align16(totalData) + dataLen[u] /\ totalBss' = align16(totalBss) + bssLen[u]
    BY <1>5
  <2>5. ASSUME NEW t \in 1..u
        PROVE  /\ dataOff'[t] % 16 = 0 /\ bssOff'[t] % 16 = 0
               /\ dataOff'[t] + dataLen[t] <= totalData'
               /\ bssOff'[t] + bssLen[t] <= totalBss'
               /\ \A r \in 1..(t - 1) : /\ dataOff'[r] + dataLen[r] <= dataOff'[t]
                                        /\ bssOff'[r] + bssLen[r] <= bssOff'[t]
    <3>1. CASE t = u
      <4>1. \A r \in 1..(u - 1) : /\ dataOff[r] + dataLen[r] <= align16(totalData)
                                  /\ bssOff[r] + bssLen[r] <= align16(totalBss)
        BY <1>4, <2>2, <2>3
      <4> QED BY <1>3, <1>4, <1>6, <2>4, <3>1, <4>1
    <3>2. CASE t \in 1..(u - 1)
      <4>1. \A r \in 1..(t - 1) : r \in 1..(u - 1)
        BY <1>2, <3>2
      <4>2. /\ dataOff[t] % 16 = 0 /\ bssOff[t] % 16 = 0
            /\ \A r \in 1..(t - 1) : /\ dataOff[r] + dataLen[r] <= dataOff[t]
                                     /\ bssOff[r] + bssLen[r] <= bssOff[t]
        BY <1>1, <3>2 DEF LayoutInv, MergeInv
      <4>3. dataOff[t] + dataLen[t] <= totalData' /\ bssOff[t] + bssLen[t] <= totalBss'
        BY <1>3, <1>4, <2>2, <2>3, <2>4, <3>2
      <4> QED BY <1>6, <3>2, <4>1, <4>2, <4>3
    <3> QED BY <1>2, <3>1, <3>2
  <2> QED BY <1>6, <1>7, <2>1, <2>5 DEF MergeInv
<1> QED BY <1>9, <1>10, <1>11

(* A COMMON symbol is allocated behind everything .bss has so far.         *)
LEMMA AllocCommonInv ==
  ASSUME LayoutInv, NEW n \in commonLeft, AllocCommon(n)
  PROVE  SlotsInv' /\ ApartInv' /\ WordsInv' /\ MergeInv'
<1> DEFINE off == AlignUp(totalBss, CommonAlign(n))
           new == [unit |-> 0, sec |-> "common", name |-> n, off |-> off,
                   size |-> CommonSize(n), need |-> CommonNeed(n), align |-> CommonWish(n)]
<1>1. /\ CoreTypes /\ PlaceTypes /\ LinkTypes /\ pc = "common" /\ pc' = "common"
      /\ n \in CommonNames /\ program(prog)
  BY DEF LayoutInv, TypeInv, TypeOK, AllocCommon, CoreTypes
<1>2. /\ n \in Nat /\ CommonSize(n) \in Nat /\ CommonSize(n) % 8 = 0
      /\ CommonNeed(n) \in Nat /\ CommonAlign(n) \in PowersOfTwo /\ CommonWish(n) \in PowersOfTwo
      /\ CommonAlign(n) <= 4096
      /\ CommonWish(n) <= 4096 => CommonWish(n) <= CommonAlign(n)
  BY <1>1, CommonFacts
<1>3. totalBss \in Nat /\ totalBss % 8 = 0
  BY <1>1 DEF LinkTypes, LayoutInv, WordsInv
<1>4. CommonAlign(n) \in Nat \ {0}
  BY <1>2 DEF PowersOfTwo
<1>5. /\ off \in Nat /\ totalBss <= off /\ off % CommonAlign(n) = 0 /\ off % 8 = 0
  <2>1. off \in Nat /\ totalBss <= off /\ off % CommonAlign(n) = 0
    BY <1>3, <1>4, AlignUpFacts
  <2>2. off % 8 = 0
    BY <1>2, <1>3, AlignUpWords
  <2> QED BY <2>1, <2>2
<1>6. CommonWish(n) <= 4096 => off % CommonWish(n) = 0
  BY <1>2, <1>5, PowerDivides
<1>7. /\ slots' = Append(slots, new) /\ totalBss' = off + CommonSize(n)
      /\ UNCHANGED <<prog, u, placing, dataOff, bssOff, totalData>>
  BY DEF AllocCommon
<1> HIDE DEF off
<1>8. PICK s \in slot : s = new
  <2>1. CommonWish(n) \in Nat
    BY <1>2 DEF PowersOfTwo
  <2>2. n \in Nat /\ off \in Nat /\ CommonSize(n) \in Nat /\ CommonNeed(n) \in Nat
    BY <1>2, <1>5
  <2>3. new \in slot
    BY <2>1, <2>2 DEF slot, Sections
  <2> QED BY <2>3
<1>9. /\ s.unit = 0 /\ s.sec = "common" /\ s.off = off /\ s.size = CommonSize(n)
      /\ s.align = CommonWish(n)
  BY <1>8
<1>10. slots' = Append(slots, s)
  BY <1>7, <1>8
<1> HIDE DEF new
<1>11. /\ BssEnd = totalBss /\ BssEnd' = off + CommonSize(n)
       /\ BssEnd \in Nat /\ BssEnd' \in Nat /\ BssEnd <= off /\ BssEnd <= BssEnd'
  BY <1>1, <1>2, <1>3, <1>5, <1>7 DEF BssEnd
<1>12. UNCHANGED <<dataTotal, bssTotal, customTotal, dataLen, bssLen, customOff>>
  BY <1>7 DEF placing
<1>13. /\ Len(bssOff) = Len(dataOff) /\ Len(dataOff) = Len(prog) /\ Len(bssLen) = Len(prog)
       /\ Len(dataLen) = Len(prog) /\ Len(prog) \in Nat
  BY <1>1 DEF LayoutInv, TypeInv, LinkTypes, PlaceTypes, program
<1>14. \A t \in 1..Len(prog) : bssOff[t] \in Nat /\ bssLen[t] \in Nat
  <2>1. \A t \in 1..Len(prog) : bssOff[t] \in Nat
    BY <1>1, <1>13 DEF LinkTypes
  <2>2. \A t \in 1..Len(prog) : bssLen[t] \in Nat
    BY <1>1, <1>13 DEF PlaceTypes
  <2> QED BY <2>1, <2>2
<1>15. \A x \in slot : SlotGood(x) => SlotGood(x)'
  <2> SUFFICES ASSUME NEW x \in slot, SlotGood(x) PROVE SlotGood(x)'
    OBVIOUS
  <2>1. SlotUnit(x)'
    BY <1>1, <1>7 DEF SlotGood, SlotUnit
  <2>2. SlotInside(x)'
    BY <1>1, <1>12 DEF SlotGood, SlotInside, InPlace
  <2>3. SlotRounded(x)'
    BY DEF SlotGood, SlotRounded
  <2>4. x.off + x.size \in Nat
    BY DEF slot
  <2>5. CommonInside(x)'
    BY <1>7, <1>11, <1>12, <2>4 DEF SlotGood, CommonInside
  <2> QED BY <2>1, <2>2, <2>3, <2>5 DEF SlotGood
<1>16. SlotGood(s)'
  <2>1. SlotUnit(s)'
    BY <1>1, <1>9 DEF SlotUnit
  <2>2. SlotInside(s)'
    BY <1>9 DEF SlotInside
  <2>3. SlotRounded(s)'
    BY <1>2, <1>5, <1>6, <1>9 DEF SlotRounded
  <2>4. \A t \in 1..Len(prog) : bssOff[t] + bssLen[t] <= off
    <3>1. \A t \in 1..Len(prog) : bssOff[t] + bssLen[t] <= BssEnd
      BY <1>13 DEF LayoutInv, MergeInv
    <3>2. off \in Nat /\ BssEnd \in Nat /\ BssEnd <= off
      BY <1>5, <1>11
    <3> QED BY <1>14, <3>1, <3>2
  <2>5. s.off + s.size <= BssEnd'
    BY <1>2, <1>5, <1>9, <1>11
  <2>6. CommonInside(s)'
    BY <1>7, <1>9, <1>12, <1>13, <2>4, <2>5 DEF CommonInside
  <2> QED BY <2>1, <2>2, <2>3, <2>6 DEF SlotGood
<1>17. \A x \in slot : SlotGood(x) => SlotsApart(x, s)
  <2> SUFFICES ASSUME NEW x \in slot, SlotGood(x), x.sec = "common"
               PROVE  Disjoint(x.off, x.size, s.off, s.size)
    BY <1>9 DEF SlotsApart
  <2>1. x.off + x.size <= BssEnd /\ x.off + x.size \in Nat
    BY DEF SlotGood, CommonInside, slot
  <2> QED BY <1>5, <1>9, <1>11, <2>1 DEF Disjoint
<1>18. SlotsInv' /\ ApartInv'
  BY <1>1, <1>10, <1>15, <1>16, <1>17, AddSlot DEF CoreTypes, LayoutInv
<1>19. WordsInv'
  <2>1. (off + CommonSize(n)) % 8 = 0
    BY <1>2, <1>5
  <2> QED BY <1>7, <1>12, <2>1 DEF LayoutInv, WordsInv
<1>20. MergeInv'
  <2>1. \A t \in 1..Len(prog) : bssOff[t] + bssLen[t] <= BssEnd'
    <3>1. \A t \in 1..Len(prog) : bssOff[t] + bssLen[t] <= BssEnd
      BY <1>13 DEF LayoutInv, MergeInv
    <3> QED BY <1>11, <1>14, <3>1
  <2> QED BY <1>7, <1>12, <1>13, <2>1 DEF LayoutInv, MergeInv
<1> QED BY <1>18, <1>19, <1>20

(* The segments: each base is on a page, behind the segment before it, and *)
(* congruent to its place in the file.                                     *)
LEMMA AssignBasesLoadable ==
  ASSUME TypeInv, AssignBases
  PROVE  /\ SegmentsLoadable'
         /\ bases'.sbrk + 8 = bases'.bss + totalBss' /\ totalBss' >= 8
<1> DEFINE ro == nextPage(codeEnd)
           da == nextPage(ro + totalRodata)
           bs == nextPage(da + totalData)
<1>1. /\ HdrEnd \in Nat /\ LoadBase \in Nat /\ PageSize \in Nat \ {0}
      /\ LoadBase % PageSize = 0
  BY LayoutAssumption
<1>2. /\ textWords \in Nat /\ totalRodata \in Nat /\ totalData \in Nat /\ totalBss \in Nat
  BY DEF TypeInv, TypeOK, LinkTypes
<1>3. textWords * 4 \in Nat /\ codeEnd = LoadBase + (HdrEnd + textWords * 4) /\ codeEnd \in Nat
  BY <1>1, <1>2 DEF codeEnd, codeBase
<1>4. ro \in Nat /\ codeEnd <= ro /\ ro % PageSize = 0
  BY <1>1, <1>3, AlignUpFacts DEF nextPage
<1>5. /\ rodataFileOff \in Nat /\ HdrEnd + textWords * 4 <= rodataFileOff
  <2>1. HdrEnd + textWords * 4 \in Nat
    BY <1>1, <1>3
  <2> QED BY <1>1, <2>1, AlignUpFacts DEF nextPage, rodataFileOff
<1>6. ro = LoadBase + rodataFileOff
  BY <1>1, <1>3, AlignUpShift DEF nextPage, rodataFileOff
<1> HIDE DEF ro
<1>7. ro + totalRodata \in Nat /\ ro + totalRodata = LoadBase + (rodataFileOff + totalRodata)
  BY <1>1, <1>2, <1>4, <1>5, <1>6
<1>8. da \in Nat /\ ro + totalRodata <= da /\ da % PageSize = 0
  BY <1>1, <1>7, AlignUpFacts DEF nextPage
<1>9. da = LoadBase + dataFileOff
  <2>1. rodataFileOff + totalRodata \in Nat
    BY <1>2, <1>5
  <2> QED BY <1>1, <1>7, <2>1, AlignUpShift DEF nextPage, dataFileOff
<1>10. dataFileOff \in Nat
  <2>1. rodataFileOff + totalRodata \in Nat
    BY <1>2, <1>5
  <2> QED BY <1>1, <2>1, AlignUpFacts DEF nextPage, dataFileOff
<1> HIDE DEF da
<1>11. da + totalData \in Nat
  BY <1>2, <1>8
<1>12. bs \in Nat /\ da + totalData <= bs /\ bs % PageSize = 0
  BY <1>1, <1>11, AlignUpFacts DEF nextPage
<1>13. /\ bases' = [rodata |-> ro, data |-> da, bss |-> bs, sbrk |-> bs + totalBss]
       /\ totalBss' = totalBss + 8
       /\ UNCHANGED <<textWords, totalRodata, totalData>>
  BY DEF AssignBases, ro, da
<1> HIDE DEF bs
<1>14. /\ bases'.rodata = ro /\ bases'.data = da /\ bases'.bss = bs
       /\ bases'.sbrk = bs + totalBss
  BY <1>13
<1>15. codeEnd' = codeEnd /\ rodataFileOff' = rodataFileOff /\ dataFileOff' = dataFileOff
  BY <1>13 DEF codeEnd, codeBase, rodataFileOff, dataFileOff, nextPage
<1>16. SegmentsLoadable'
  <2>1. /\ codeEnd <= ro /\ ro + totalRodata <= da /\ da + totalData <= bs
        /\ ro % PageSize = 0 /\ da % PageSize = 0 /\ bs % PageSize = 0
        /\ rodataFileOff + LoadBase = ro /\ dataFileOff + LoadBase = da
        /\ rodataFileOff >= HdrEnd + textWords * 4
    BY <1>1, <1>3, <1>4, <1>5, <1>6, <1>8, <1>9, <1>10, <1>12
  <2> QED BY <1>13, <1>14, <1>15, <2>1 DEF SegmentsLoadable
<1>17. (bs + totalBss) + 8 = bs + (totalBss + 8) /\ totalBss + 8 >= 8
  BY <1>2, <1>12
<1> QED BY <1>13, <1>14, <1>16, <1>17

(* The bases are assigned: the slots stay where they are.                  *)
LEMMA AssignBasesInv ==
  ASSUME LayoutInv, AssignBases
  PROVE  SlotsInv' /\ ApartInv' /\ WordsInv' /\ MergeInv' /\ BasesInv'
<1>1. /\ CoreTypes /\ LinkTypes /\ pc = "common" /\ pc' = "done"
      /\ totalBss' = totalBss + 8 /\ totalBss \in Nat
      /\ UNCHANGED <<prog, u, slots, placing, dataOff, bssOff, totalData>>
  BY DEF LayoutInv, TypeInv, TypeOK, AssignBases, LinkTypes
<1>2. BssEnd' = BssEnd
  BY <1>1 DEF BssEnd
<1>3. UNCHANGED <<dataTotal, bssTotal, customTotal, dataLen, bssLen, customOff>>
  BY <1>1 DEF placing
<1>4. \A x \in slot : SlotGood(x) => SlotGood(x)'
  <2> SUFFICES ASSUME NEW x \in slot, SlotGood(x) PROVE SlotGood(x)'
    OBVIOUS
  <2>1. SlotUnit(x)'
    BY <1>1 DEF SlotGood, SlotUnit
  <2>2. SlotInside(x)'
    BY <1>1, <1>3 DEF SlotGood, SlotInside, InPlace
  <2>3. SlotRounded(x)'
    BY DEF SlotGood, SlotRounded
  <2>4. CommonInside(x)'
    BY <1>1, <1>2, <1>3 DEF SlotGood, CommonInside
  <2> QED BY <2>1, <2>2, <2>3, <2>4 DEF SlotGood
<1>5. SlotsInv' /\ ApartInv'
  BY <1>1, <1>4, KeepSlots DEF LayoutInv, CoreTypes
<1>6. WordsInv'
  <2>1. (totalBss + 8) % 8 = 0
    BY <1>1 DEF LayoutInv, WordsInv
  <2> QED BY <1>1, <1>3, <2>1 DEF LayoutInv, WordsInv
<1>7. MergeInv'
  BY <1>1, <1>2, <1>3, SameMerge DEF LayoutInv
<1>8. BasesInv'
  BY AssignBasesLoadable DEF LayoutInv, BasesInv
<1> QED BY <1>5, <1>6, <1>7, <1>8

(* The invariant holds before the first unit is written.                   *)
LEMMA InitLayoutInv == Init => LayoutInv
<1> SUFFICES ASSUME Init PROVE LayoutInv
  OBVIOUS
<1>1. TypeInv
  BY InitTypeInv
<1>2. SlotsInv /\ ApartInv
  BY DEF Init, SlotsInv, ApartInv
<1>3. WordsInv
  BY DEF Init, WordsInv
<1>4. MergeInv /\ BasesInv
  BY DEF Init, MergeInv, BasesInv
<1> QED BY <1>1, <1>2, <1>3, <1>4 DEF LayoutInv

(* While units are placed nothing is merged.                               *)
LEMMA NothingMerged ==
  ASSUME TypeInv', pc' = "place" \/ (pc' = "merge" /\ u' = 1)
  PROVE  MergeInv' /\ BasesInv'
<1>1. Len(dataOff') = 0
  BY DEF TypeInv, TypeOK, LinkTypes
<1> QED BY <1>1 DEF MergeInv, BasesInv

(* Every step keeps the invariant.                                         *)
LEMMA NextLayoutInv == LayoutInv /\ [Next]_vars => LayoutInv'
<1> SUFFICES ASSUME LayoutInv, [Next]_vars PROVE LayoutInv'
  OBVIOUS
<1>1. TypeInv'
  BY NextTypeInv DEF LayoutInv
<1>2. slots \in Seq(slot)
  BY DEF LayoutInv, TypeInv, TypeOK, CoreTypes
<1>3. CASE SkipGlobal
  <2>1. pc = "place" /\ pc' = "place"
    BY <1>3 DEF SkipGlobal, Placing
  <2>2. UNCHANGED <<prog, pc, u, slots, placing, linking>>
    BY <1>3 DEF SkipGlobal
  <2>3. UNCHANGED <<dataTotal, bssTotal, customTotal, dataLen, bssLen, customOff, totalBss>>
    BY <2>2 DEF placing, linking
  <2>4. \A x \in slot : SlotGood(x) => SlotGood(x)'
    <3>1. dataTotal \in Nat /\ bssTotal \in Nat /\ customTotal \in Nat
      BY DEF LayoutInv, TypeInv, TypeOK, PlaceTypes
    <3> QED BY <2>1, <2>2, <2>3, <3>1, PlaceKeeps DEF LayoutInv
  <2>5. SlotsInv' /\ ApartInv'
    BY <1>2, <2>2, <2>4, KeepSlots DEF LayoutInv
  <2>6. WordsInv'
    BY <2>3 DEF LayoutInv, WordsInv
  <2> QED BY <1>1, <2>1, <2>5, <2>6, NothingMerged DEF LayoutInv
<1>4. CASE PlaceData
  <2>1. pc' = "place"
    BY <1>4 DEF PlaceData, Placing
  <2> QED BY <1>1, <1>4, <2>1, PlaceDataInv, NothingMerged DEF LayoutInv
<1>5. CASE PlaceBss
  <2>1. pc' = "place"
    BY <1>5 DEF PlaceBss, Placing
  <2> QED BY <1>1, <1>5, <2>1, PlaceBssInv, NothingMerged DEF LayoutInv
<1>6. CASE PlaceCustom
  <2>1. pc' = "place"
    BY <1>6 DEF PlaceCustom, Placing
  <2> QED BY <1>1, <1>6, <2>1, PlaceCustomInv, NothingMerged DEF LayoutInv
<1>7. CASE EndUnit
  <2>1. pc' = "place"
    BY <1>7 DEF EndUnit
  <2> QED BY <1>1, <1>7, <2>1, EndUnitInv, NothingMerged DEF LayoutInv
<1>8. CASE StartLink
  <2>1. pc' = "merge" /\ u' = 1
    BY <1>8 DEF StartLink
  <2> QED BY <1>1, <1>8, <2>1, StartLinkInv, NothingMerged DEF LayoutInv
<1>9. CASE MergeUnit
  <2>1. BasesInv'
    BY <1>9 DEF MergeUnit, BasesInv
  <2> QED BY <1>1, <1>9, <2>1, MergeUnitInv DEF LayoutInv
<1>10. CASE StartCommons
  <2>1. pc = "merge" /\ pc' = "common" /\ UNCHANGED <<prog, u, slots, placing, dataOff, bssOff>>
        /\ UNCHANGED <<totalData, totalBss>>
    BY <1>10 DEF StartCommons
  <2>2. UNCHANGED <<dataTotal, bssTotal, customTotal, dataLen, bssLen, customOff>>
    BY <2>1 DEF placing
  <2>3. BssEnd' = BssEnd
    BY <2>1 DEF BssEnd
  <2>4. \A x \in slot : SlotGood(x) => SlotGood(x)'
    <3> SUFFICES ASSUME NEW x \in slot, SlotGood(x) PROVE SlotGood(x)'
      OBVIOUS
    <3>1. SlotUnit(x)'
      BY <2>1 DEF SlotGood, SlotUnit
    <3>2. SlotInside(x)'
      BY <2>1, <2>2 DEF SlotGood, SlotInside, InPlace
    <3>3. SlotRounded(x)'
      BY DEF SlotGood, SlotRounded
    <3>4. CommonInside(x)'
      BY <2>1, <2>2, <2>3 DEF SlotGood, CommonInside
    <3> QED BY <3>1, <3>2, <3>3, <3>4 DEF SlotGood
  <2>5. SlotsInv' /\ ApartInv'
    BY <1>2, <2>1, <2>4, KeepSlots DEF LayoutInv
  <2>6. WordsInv'
    BY <2>1, <2>2 DEF LayoutInv, WordsInv
  <2>7. MergeInv'
    BY <2>1, <2>2, <2>3, SameMerge DEF LayoutInv
  <2>8. BasesInv'
    BY <2>1 DEF BasesInv
  <2> QED BY <1>1, <2>5, <2>6, <2>7, <2>8 DEF LayoutInv
<1>11. ASSUME NEW n \in commonLeft, AllocCommon(n) PROVE LayoutInv'
  <2>1. BasesInv'
    BY <1>11 DEF AllocCommon, BasesInv
  <2> QED BY <1>1, <1>11, <2>1, AllocCommonInv DEF LayoutInv
<1>12. CASE AssignBases
  BY <1>1, <1>12, AssignBasesInv DEF LayoutInv
<1>13. CASE UNCHANGED vars
  <2>1. UNCHANGED <<prog, pc, u, slots, placing, linking>>
    BY <1>13 DEF vars
  <2>2. UNCHANGED <<dataTotal, bssTotal, customTotal, dataLen, bssLen, customOff>>
    BY <2>1 DEF placing
  <2>3. UNCHANGED <<dataOff, bssOff, textWords, totalRodata, totalData, totalBss, bases>>
    BY <2>1 DEF linking
  <2>4. BssEnd' = BssEnd /\ HasCustom' = HasCustom
    BY <2>1, <2>3 DEF BssEnd, HasCustom
  <2>5. \A x \in slot : SlotGood(x) => SlotGood(x)'
    BY <2>1, <2>2, <2>3, <2>4
       DEF SlotGood, SlotUnit, SlotInside, SlotRounded, CommonInside, InPlace
  <2>6. SlotsInv' /\ ApartInv'
    BY <1>2, <2>1, <2>5, KeepSlots DEF LayoutInv
  <2>7. WordsInv' /\ MergeInv'
    BY <2>2, <2>3, <2>4, SameMerge DEF LayoutInv, WordsInv
  <2>8. codeEnd' = codeEnd /\ rodataFileOff' = rodataFileOff /\ dataFileOff' = dataFileOff
    BY <2>3 DEF codeEnd, codeBase, rodataFileOff, dataFileOff, nextPage
  <2>9. BasesInv'
    BY <2>1, <2>3, <2>8 DEF LayoutInv, BasesInv, SegmentsLoadable
  <2> QED BY <1>1, <2>6, <2>7, <2>9 DEF LayoutInv
<1> QED BY <1>3, <1>4, <1>5, <1>6, <1>7, <1>8, <1>9, <1>10, <1>11, <1>12, <1>13 DEF Next

-----------------------------------------------------------------------------
(* What the invariant says of the linked program.                          *)

(* Placing a slot in a section, and a section in a segment, adds up.       *)
LEMMA PartInside ==
  ASSUME NEW b \in Nat, NEW d \in Nat, NEW o \in Nat, NEW s \in Nat, NEW l \in Nat, o + s <= l
  PROVE  b + d + o \in Nat /\ b + d <= b + d + o /\ (b + d + o) + s <= b + d + l
  OBVIOUS

(* The same for a slot of a folded custom section.                         *)
LEMMA FoldInside ==
  ASSUME NEW b \in Nat, NEW d \in Nat, NEW c \in Nat, NEW o \in Nat, NEW s \in Nat, NEW l \in Nat,
         c + o + s <= l
  PROVE  /\ b + d + c + o \in Nat /\ b + d <= b + d + c + o /\ b + d + c <= b + d + c + o
         /\ (b + d + c + o) + s <= b + d + l
  OBVIOUS

(* What lies inside a unit's part lies inside the segment.                 *)
LEMMA PartInSegment ==
  ASSUME NEW b \in Nat, NEW d \in Nat, NEW v \in Nat, NEW s \in Nat, NEW l \in Nat, NEW m \in Nat,
         b + d <= v, v + s <= b + d + l, d + l <= m
  PROVE  b <= v /\ v + s <= b + m
  OBVIOUS

(* Two parts of a segment, one behind the other; and two slots of a part.  *)
LEMMA PartsBehind ==
  ASSUME NEW b \in Nat, NEW d \in Nat, NEW l \in Nat, NEW e \in Nat,
         NEW v \in Nat, NEW s \in Nat, v + s <= b + d + l, d + l <= e
  PROVE  b + e \in Nat /\ v + s <= b + e
  OBVIOUS

(* Storage on both sides of a boundary is disjoint.                        *)
LEMMA BelowApart ==
  ASSUME NEW m \in Nat, NEW v \in Nat, NEW s \in Nat, NEW w \in Nat, NEW n \in Nat,
         v + s <= m, m <= w
  PROVE  Disjoint(v, s, w, n) /\ Disjoint(w, n, v, s)
  BY DEF Disjoint

(* Moving two slots by the same base keeps them disjoint.                  *)
LEMMA ShiftApart ==
  ASSUME NEW b \in Nat, NEW o \in Nat, NEW s \in Nat, NEW p \in Nat, NEW n \in Nat,
         Disjoint(o, s, p, n)
  PROVE  Disjoint(b + o, s, b + p, n)
  BY DEF Disjoint

(* The tables and bases of a linked program, as numbers.                   *)
LEMMA DoneTypes ==
  ASSUME TypeInv, pc = "done"
  PROVE  /\ Len(prog) \in Nat /\ Len(dataOff) = Len(prog) /\ Len(bssOff) = Len(prog)
         /\ \A t \in 1..Len(prog) :
              /\ dataOff[t] \in Nat /\ dataLen[t] \in Nat /\ customOff[t] \in Nat
              /\ bssOff[t] \in Nat /\ bssLen[t] \in Nat
         /\ bases.data \in Nat /\ bases.bss \in Nat /\ bases.sbrk \in Nat
         /\ totalData \in Nat /\ totalBss \in Nat
<1>1. \A s \in Seq(Nat) : \A i \in 1..Len(s) : s[i] \in Nat
  OBVIOUS
<1>2. Len(prog) \in Nat /\ u = Len(prog) + 1
  BY DEF TypeInv, TypeOK, CoreTypes, program
<1>3. /\ dataLen \in Seq(Nat) /\ bssLen \in Seq(Nat) /\ customOff \in Seq(Nat)
      /\ Len(dataLen) = Len(prog) /\ Len(bssLen) = Len(prog) /\ Len(customOff) = Len(prog)
  BY DEF TypeInv, TypeOK, PlaceTypes
<1>4. /\ dataOff \in Seq(Nat) /\ bssOff \in Seq(Nat)
      /\ Len(dataOff) = Len(prog) /\ Len(bssOff) = Len(prog)
  BY <1>2 DEF TypeInv, TypeOK, LinkTypes
<1>5. /\ bases.data \in Nat /\ bases.bss \in Nat /\ bases.sbrk \in Nat
      /\ totalData \in Nat /\ totalBss \in Nat
  BY DEF TypeInv, TypeOK, LinkTypes
<1>6. \A t \in 1..Len(prog) : dataLen[t] \in Nat /\ bssLen[t] \in Nat /\ customOff[t] \in Nat
  BY <1>1, <1>3
<1>7. \A t \in 1..Len(prog) : dataOff[t] \in Nat /\ bssOff[t] \in Nat
  BY <1>1, <1>4
<1> QED BY <1>2, <1>4, <1>5, <1>6, <1>7

(* Where a data slot ends up: inside its unit's part of .data.             *)
LEMMA DataExtent ==
  ASSUME LayoutInv, pc = "done", NEW x \in slot, SlotGood(x), x.sec \in {"data", "custom"}
  PROVE  /\ x.unit \in 1..Len(prog) /\ VA(x) \in Nat
         /\ bases.data + dataOff[x.unit] <= VA(x)
         /\ VA(x) + x.size <= bases.data + dataOff[x.unit] + dataLen[x.unit]
         /\ x.sec = "data" => VA(x) + x.size <= bases.data + dataOff[x.unit] + customOff[x.unit]
         /\ x.sec = "custom" => bases.data + dataOff[x.unit] + customOff[x.unit] <= VA(x)
<1>0. x.unit \in 1..Len(prog)
  BY DEF SlotGood, SlotUnit
<1>1. x.off \in Nat /\ x.size \in Nat
  BY DEF slot
<1>2. bases.data \in Nat
  BY DoneTypes DEF LayoutInv
<1>3. dataLen[x.unit] \in Nat /\ customOff[x.unit] \in Nat /\ dataOff[x.unit] \in Nat
  BY <1>0, DoneTypes DEF LayoutInv
<1>4. CASE x.sec = "data"
  <2>1. VA(x) = bases.data + dataOff[x.unit] + x.off
    BY <1>4 DEF VA
  <2>2. x.off + x.size <= dataLen[x.unit] /\ x.off + x.size <= customOff[x.unit]
    BY <1>4 DEF SlotGood, SlotInside, InPlace
  <2>3. /\ VA(x) \in Nat /\ bases.data + dataOff[x.unit] <= VA(x)
        /\ VA(x) + x.size <= bases.data + dataOff[x.unit] + dataLen[x.unit]
        /\ VA(x) + x.size <= bases.data + dataOff[x.unit] + customOff[x.unit]
    BY <1>1, <1>2, <1>3, <2>1, <2>2, PartInside
  <2> QED BY <1>0, <1>4, <2>3
<1>5. CASE x.sec = "custom"
  <2>1. VA(x) = bases.data + dataOff[x.unit] + customOff[x.unit] + x.off
    BY <1>5 DEF VA
  <2>2. customOff[x.unit] + x.off + x.size <= dataLen[x.unit]
    BY <1>5 DEF SlotGood, SlotInside, InPlace
  <2>3. /\ VA(x) \in Nat /\ bases.data + dataOff[x.unit] <= VA(x)
        /\ VA(x) + x.size <= bases.data + dataOff[x.unit] + dataLen[x.unit]
        /\ bases.data + dataOff[x.unit] + customOff[x.unit] <= VA(x)
    BY <1>1, <1>2, <1>3, <2>1, <2>2, FoldInside
  <2> QED BY <1>0, <1>5, <2>3
<1> QED BY <1>4, <1>5

(* A slot of .bss or COMMON: between the base of BSS and the break cell.   *)
LEMMA BssExtent ==
  ASSUME LayoutInv, pc = "done", NEW x \in slot, SlotGood(x), x.sec \in {"bss", "common"}
  PROVE  /\ VA(x) \in Nat /\ bases.bss <= VA(x) /\ VA(x) + x.size <= bases.sbrk
         /\ x.sec = "bss" =>
              /\ x.unit \in 1..Len(prog)
              /\ bases.bss + bssOff[x.unit] <= VA(x)
              /\ VA(x) + x.size <= bases.bss + bssOff[x.unit] + bssLen[x.unit]
         /\ x.sec = "common" =>
              \A t \in 1..Len(prog) : bases.bss + bssOff[t] + bssLen[t] <= VA(x)
<1>1. x.off \in Nat /\ x.size \in Nat
  BY DEF slot
<1>2. /\ bases.bss \in Nat /\ bases.sbrk \in Nat /\ totalBss \in Nat
      /\ Len(dataOff) = Len(prog) /\ Len(bssOff) = Len(prog)
  BY DoneTypes DEF LayoutInv
<1>3. \A t \in 1..Len(prog) : bssLen[t] \in Nat /\ bssOff[t] \in Nat
  BY DoneTypes DEF LayoutInv
<1>4. bases.sbrk = bases.bss + BssEnd /\ BssEnd \in Nat
  <2>1. bases.sbrk + 8 = bases.bss + totalBss /\ totalBss >= 8 /\ BssEnd = totalBss - 8
    BY DEF LayoutInv, BasesInv, BssEnd
  <2> QED BY <1>2, <2>1
<1>5. CASE x.sec = "bss"
  <2>1. VA(x) = bases.bss + bssOff[x.unit] + x.off
    BY <1>5 DEF VA
  <2>2. x.unit \in 1..Len(prog) /\ x.off + x.size <= bssLen[x.unit]
    BY <1>5 DEF SlotGood, SlotUnit, SlotInside, InPlace
  <2>3. bssOff[x.unit] + bssLen[x.unit] <= BssEnd
    BY <1>2, <2>2 DEF LayoutInv, MergeInv
  <2>4. bssOff[x.unit] \in Nat /\ bssLen[x.unit] \in Nat
    BY <1>3, <2>2
  <2>5. /\ VA(x) \in Nat /\ bases.bss + bssOff[x.unit] <= VA(x)
        /\ VA(x) + x.size <= bases.bss + bssOff[x.unit] + bssLen[x.unit]
    BY <1>1, <1>2, <2>1, <2>2, <2>4, PartInside
  <2>6. bases.bss <= VA(x) /\ VA(x) + x.size <= bases.bss + BssEnd
    BY <1>1, <1>2, <1>4, <2>3, <2>4, <2>5, PartInSegment
  <2> QED BY <1>4, <1>5, <2>2, <2>5, <2>6
<1>6. CASE x.sec = "common"
  <2>1. VA(x) = bases.bss + x.off
    BY <1>6 DEF VA
  <2>2. x.off + x.size <= BssEnd /\ \A t \in 1..Len(prog) : bssOff[t] + bssLen[t] <= x.off
    BY <1>2, <1>6 DEF SlotGood, CommonInside
  <2>3. \A t \in 1..Len(prog) : bases.bss + bssOff[t] + bssLen[t] <= VA(x)
    BY <1>1, <1>2, <1>3, <2>1, <2>2
  <2> QED BY <1>1, <1>2, <1>4, <1>6, <2>1, <2>2, <2>3
<1> QED BY <1>5, <1>6

(* Two slots of .data, of one unit or of two.                              *)
LEMMA DataApart ==
  ASSUME LayoutInv, pc = "done", NEW x \in slot, SlotGood(x), NEW y \in slot, SlotGood(y),
         x.sec \in {"data", "custom"}, y.sec \in {"data", "custom"}, SlotsApart(x, y)
  PROVE  Disjoint(VA(x), x.size, VA(y), y.size)
<1> DEFINE b == bases.data
           t == x.unit
           r == y.unit
<1>1. Len(dataOff) = Len(prog) /\ Len(prog) \in Nat
  BY DoneTypes DEF LayoutInv
<1>2. b \in Nat
  BY DoneTypes DEF LayoutInv
<1>3. /\ x.off \in Nat /\ x.size \in Nat /\ y.off \in Nat /\ y.size \in Nat
  BY DEF slot
<1>4. t \in 1..Len(prog)
  BY DataExtent
<1>5. /\ VA(x) \in Nat /\ b + dataOff[t] <= VA(x)
      /\ VA(x) + x.size <= b + dataOff[t] + dataLen[t]
      /\ x.sec = "data" => VA(x) + x.size <= b + dataOff[t] + customOff[t]
      /\ x.sec = "custom" => b + dataOff[t] + customOff[t] <= VA(x)
  BY DataExtent
<1>6. r \in 1..Len(prog)
  BY DataExtent
<1>7. /\ VA(y) \in Nat /\ b + dataOff[r] <= VA(y)
      /\ VA(y) + y.size <= b + dataOff[r] + dataLen[r]
      /\ y.sec = "data" => VA(y) + y.size <= b + dataOff[r] + customOff[r]
      /\ y.sec = "custom" => b + dataOff[r] + customOff[r] <= VA(y)
  BY DataExtent
<1>8. /\ dataOff[t] \in Nat /\ dataLen[t] \in Nat /\ customOff[t] \in Nat
      /\ dataOff[r] \in Nat /\ dataLen[r] \in Nat /\ customOff[r] \in Nat
  BY <1>4, <1>6, DoneTypes DEF LayoutInv
<1>9. CASE t < r
  <2>1. dataOff[t] + dataLen[t] <= dataOff[r]
    <3>1. t \in 1..(r - 1)
      BY <1>1, <1>4, <1>6, <1>9
    <3> QED BY <1>1, <1>6, <3>1 DEF LayoutInv, MergeInv
  <2>2. b + dataOff[r] \in Nat /\ VA(x) + x.size <= b + dataOff[r]
    BY <1>2, <1>3, <1>5, <1>8, <2>1, PartsBehind
  <2> QED BY <1>3, <1>5, <1>7, <2>2, BelowApart
<1>10. CASE r < t
  <2>1. dataOff[r] + dataLen[r] <= dataOff[t]
    <3>1. r \in 1..(t - 1)
      BY <1>1, <1>4, <1>6, <1>10
    <3> QED BY <1>1, <1>4, <3>1 DEF LayoutInv, MergeInv
  <2>2. b + dataOff[t] \in Nat /\ VA(y) + y.size <= b + dataOff[t]
    BY <1>2, <1>3, <1>7, <1>8, <2>1, PartsBehind
  <2> QED BY <1>3, <1>5, <1>7, <2>2, BelowApart
<1>11. CASE t = r /\ x.sec # y.sec
  <2>1. b + dataOff[t] + customOff[t] \in Nat
    BY <1>2, <1>8
  <2>2. CASE x.sec = "data" /\ y.sec = "custom"
    BY <1>3, <1>5, <1>7, <1>11, <2>1, <2>2, BelowApart
  <2>3. CASE x.sec = "custom" /\ y.sec = "data"
    BY <1>3, <1>5, <1>7, <1>11, <2>1, <2>3, BelowApart
  <2> QED BY <1>11, <2>2, <2>3
<1>12. CASE t = r /\ x.sec = y.sec
  <2>1. Disjoint(x.off, x.size, y.off, y.size)
    BY <1>12 DEF SlotsApart
  <2>2. CASE x.sec = "data"
    <3>1. VA(x) = b + dataOff[t] + x.off /\ VA(y) = b + dataOff[t] + y.off
      BY <1>12, <2>2 DEF VA
    <3>2. b + dataOff[t] \in Nat
      BY <1>2, <1>8
    <3> QED BY <1>3, <2>1, <3>1, <3>2, ShiftApart
  <2>3. CASE x.sec = "custom"
    <3>1. /\ VA(x) = b + dataOff[t] + customOff[t] + x.off
          /\ VA(y) = b + dataOff[t] + customOff[t] + y.off
      BY <1>12, <2>3 DEF VA
    <3>2. b + dataOff[t] + customOff[t] \in Nat
      BY <1>2, <1>8
    <3> QED BY <1>3, <2>1, <3>1, <3>2, ShiftApart
  <2> QED BY <2>2, <2>3
<1> QED BY <1>1, <1>4, <1>6, <1>9, <1>10, <1>11, <1>12

(* Two slots of BSS: .bss ones of one unit or of two, and COMMON ones.     *)
LEMMA BssApart ==
  ASSUME LayoutInv, pc = "done", NEW x \in slot, SlotGood(x), NEW y \in slot, SlotGood(y),
         x.sec \in {"bss", "common"}, y.sec \in {"bss", "common"}, SlotsApart(x, y)
  PROVE  Disjoint(VA(x), x.size, VA(y), y.size)
<1> DEFINE b == bases.bss
           t == x.unit
           r == y.unit
<1>0. Len(dataOff) = Len(prog) /\ Len(prog) \in Nat
  BY DoneTypes DEF LayoutInv
<1>1. b \in Nat
  BY DoneTypes DEF LayoutInv
<1>2. /\ x.off \in Nat /\ x.size \in Nat /\ y.off \in Nat /\ y.size \in Nat
  BY DEF slot
<1>3. /\ VA(x) \in Nat /\ VA(y) \in Nat
      /\ x.sec = "bss" => /\ t \in 1..Len(prog) /\ b + bssOff[t] <= VA(x)
                          /\ VA(x) + x.size <= b + bssOff[t] + bssLen[t]
      /\ y.sec = "bss" => /\ r \in 1..Len(prog) /\ b + bssOff[r] <= VA(y)
                          /\ VA(y) + y.size <= b + bssOff[r] + bssLen[r]
      /\ x.sec = "common" => \A k \in 1..Len(prog) : b + bssOff[k] + bssLen[k] <= VA(x)
      /\ y.sec = "common" => \A k \in 1..Len(prog) : b + bssOff[k] + bssLen[k] <= VA(y)
  BY BssExtent
<1>4. \A k \in 1..Len(prog) : bssOff[k] \in Nat /\ bssLen[k] \in Nat
  BY DoneTypes DEF LayoutInv
<1>5. CASE x.sec = "common" /\ y.sec = "common"
  <2>1. x.unit = y.unit /\ VA(x) = b + x.off /\ VA(y) = b + y.off
    BY <1>5 DEF VA, SlotGood, SlotUnit
  <2>2. Disjoint(x.off, x.size, y.off, y.size)
    BY <1>5, <2>1 DEF SlotsApart
  <2> QED BY <1>1, <1>2, <2>1, <2>2 DEF Disjoint
<1>6. CASE x.sec = "bss" /\ y.sec = "common"
  <2>1. VA(x) + x.size <= b + bssOff[t] + bssLen[t] /\ b + bssOff[t] + bssLen[t] <= VA(y)
        /\ b + bssOff[t] + bssLen[t] \in Nat
    BY <1>1, <1>3, <1>4, <1>6
  <2> QED BY <1>2, <1>3, <2>1 DEF Disjoint
<1>7. CASE x.sec = "common" /\ y.sec = "bss"
  <2>1. VA(y) + y.size <= b + bssOff[r] + bssLen[r] /\ b + bssOff[r] + bssLen[r] <= VA(x)
        /\ b + bssOff[r] + bssLen[r] \in Nat
    BY <1>1, <1>3, <1>4, <1>7
  <2> QED BY <1>2, <1>3, <2>1 DEF Disjoint
<1>8. CASE x.sec = "bss" /\ y.sec = "bss"
  <2>0. t \in 1..Len(prog) /\ r \in 1..Len(prog)
    BY <1>3, <1>8
  <2>1. /\ b + bssOff[t] <= VA(x) /\ VA(x) + x.size <= b + bssOff[t] + bssLen[t]
        /\ b + bssOff[r] <= VA(y) /\ VA(y) + y.size <= b + bssOff[r] + bssLen[r]
        /\ VA(x) \in Nat /\ VA(y) \in Nat
    BY <1>3, <1>8
  <2>2. bssOff[t] \in Nat /\ bssLen[t] \in Nat /\ bssOff[r] \in Nat /\ bssLen[r] \in Nat
    BY <1>4, <2>0
  <2>3. CASE t < r
    <3>1. t \in 1..(r - 1)
      BY <1>0, <2>0, <2>3
    <3>2. bssOff[t] + bssLen[t] <= bssOff[r]
      BY <1>0, <2>0, <3>1 DEF LayoutInv, MergeInv
    <3>3. b + bssOff[r] \in Nat /\ VA(x) + x.size <= b + bssOff[r]
      BY <1>1, <1>2, <2>1, <2>2, <3>2, PartsBehind
    <3> QED BY <1>2, <2>1, <3>3, BelowApart
  <2>4. CASE r < t
    <3>1. r \in 1..(t - 1)
      BY <1>0, <2>0, <2>4
    <3>2. bssOff[r] + bssLen[r] <= bssOff[t]
      BY <1>0, <2>0, <3>1 DEF LayoutInv, MergeInv
    <3>3. b + bssOff[t] \in Nat /\ VA(y) + y.size <= b + bssOff[t]
      BY <1>1, <1>2, <2>1, <2>2, <3>2, PartsBehind
    <3> QED BY <1>2, <2>1, <3>3, BelowApart
  <2>5. CASE t = r
    <3>1. VA(x) = b + bssOff[t] + x.off /\ VA(y) = b + bssOff[t] + y.off
      BY <1>8, <2>5 DEF VA
    <3>2. Disjoint(x.off, x.size, y.off, y.size)
      BY <1>8, <2>5 DEF SlotsApart
    <3>3. b + bssOff[t] \in Nat
      BY <1>1, <2>2
    <3> QED BY <1>2, <3>1, <3>2, <3>3, ShiftApart
  <2> QED BY <1>0, <2>0, <2>3, <2>4, <2>5
<1> QED BY <1>5, <1>6, <1>7, <1>8

(* A slot of .data is below every slot of BSS.                             *)
LEMMA DataBelowBss ==
  ASSUME LayoutInv, pc = "done", NEW x \in slot, SlotGood(x), x.sec \in {"data", "custom"}
  PROVE  /\ bases.data <= VA(x) /\ VA(x) + x.size <= bases.data + totalData
         /\ VA(x) + x.size <= bases.bss /\ VA(x) \in Nat
<1>1. /\ x.unit \in 1..Len(prog) /\ VA(x) \in Nat
      /\ bases.data + dataOff[x.unit] <= VA(x)
      /\ VA(x) + x.size <= bases.data + dataOff[x.unit] + dataLen[x.unit]
  BY DataExtent
<1>2. /\ Len(dataOff) = Len(prog)
      /\ bases.data \in Nat /\ bases.bss \in Nat /\ totalData \in Nat
  BY DoneTypes DEF LayoutInv
<1>3. dataOff[x.unit] \in Nat /\ dataLen[x.unit] \in Nat
  BY <1>1, DoneTypes DEF LayoutInv
<1>4. dataOff[x.unit] + dataLen[x.unit] <= totalData
  BY <1>1, <1>2 DEF LayoutInv, MergeInv
<1>5. bases.data + totalData <= bases.bss
  BY DEF LayoutInv, BasesInv, SegmentsLoadable
<1>6. x.size \in Nat
  BY DEF slot
<1>7. bases.data <= VA(x) /\ VA(x) + x.size <= bases.data + totalData
  BY <1>1, <1>2, <1>3, <1>4, <1>6, PartInSegment
<1> QED BY <1>1, <1>2, <1>5, <1>6, <1>7

(* The invariant gives disjoint storage.                                   *)
LEMMA LinkedDisjoint == LayoutInv => StorageDisjoint
<1> SUFFICES ASSUME LayoutInv, pc = "done" PROVE StorageDisjoint
  BY DEF StorageDisjoint
<1>1. \A i \in 1..Len(slots) : slots[i] \in slot /\ SlotGood(slots[i])
  <2>1. slots \in Seq(slot)
    BY DEF LayoutInv, TypeInv, TypeOK, CoreTypes
  <2> QED BY <2>1 DEF LayoutInv, SlotsInv
<1>2. ASSUME NEW x \in slot, SlotGood(x)
      PROVE  /\ x.sec \in {"data", "custom"} \/ x.sec \in {"bss", "common"}
             /\ x.size \in Nat
  BY DEF slot, Sections
<1>3. bases.bss \in Nat
  BY DoneTypes DEF LayoutInv
<1>4. ASSUME NEW x \in slot, SlotGood(x), NEW y \in slot, SlotGood(y), SlotsApart(x, y)
      PROVE  Disjoint(VA(x), x.size, VA(y), y.size)
  <2>1. CASE x.sec \in {"data", "custom"} /\ y.sec \in {"data", "custom"}
    BY <1>4, <2>1, DataApart
  <2>2. CASE x.sec \in {"bss", "common"} /\ y.sec \in {"bss", "common"}
    BY <1>4, <2>2, BssApart
  <2>3. CASE x.sec \in {"data", "custom"} /\ y.sec \in {"bss", "common"}
    <3>1. VA(x) \in Nat /\ VA(x) + x.size <= bases.bss
      BY <1>4, <2>3, DataBelowBss
    <3>2. VA(y) \in Nat /\ bases.bss <= VA(y)
      BY <1>4, <2>3, BssExtent
    <3> QED BY <1>2, <1>3, <1>4, <3>1, <3>2, BelowApart
  <2>4. CASE x.sec \in {"bss", "common"} /\ y.sec \in {"data", "custom"}
    <3>1. VA(y) \in Nat /\ VA(y) + y.size <= bases.bss
      BY <1>4, <2>4, DataBelowBss
    <3>2. VA(x) \in Nat /\ bases.bss <= VA(x)
      BY <1>4, <2>4, BssExtent
    <3> QED BY <1>2, <1>3, <1>4, <3>1, <3>2, BelowApart
  <2> QED BY <1>2, <1>4, <2>1, <2>2, <2>3, <2>4
<1>5. ASSUME NEW i \in 1..Len(slots), NEW j \in 1..Len(slots), i # j
      PROVE  Disjoint(VA(slots[i]), slots[i].size, VA(slots[j]), slots[j].size)
  <2>1. SlotsApart(slots[i], slots[j])
    BY <1>5 DEF LayoutInv, ApartInv
  <2> QED BY <1>1, <1>4, <2>1
<1>6. ASSUME NEW i \in 1..Len(slots)
      PROVE  IF slots[i].sec \in {"data", "custom"}
               THEN /\ bases.data <= VA(slots[i])
                    /\ VA(slots[i]) + slots[i].size <= bases.data + totalData
               ELSE /\ bases.bss <= VA(slots[i])
                    /\ VA(slots[i]) + slots[i].size <= bases.sbrk
  <2>1. slots[i] \in slot /\ SlotGood(slots[i])
    BY <1>1
  <2>2. CASE slots[i].sec \in {"data", "custom"}
    BY <2>1, <2>2, DataBelowBss
  <2>3. CASE slots[i].sec \in {"bss", "common"}
    BY <2>1, <2>3, BssExtent
  <2> QED BY <1>2, <2>1, <2>2, <2>3
<1>7. bases.sbrk + 8 = bases.bss + totalBss
  BY DEF LayoutInv, BasesInv
<1> QED BY <1>5, <1>6, <1>7 DEF StorageDisjoint

(* Pages are multiples of every alignment that is kept.                    *)
LEMMA PagesAligned ==
  ASSUME NEW b \in Nat, b % PageSize = 0, NEW a \in PowersOfTwo, a <= 4096
  PROVE  b % a = 0
<1>1. PICK k \in Nat : PageSize = 4096 * k
  <2>1. PageSize \in Nat /\ PageSize % 4096 = 0
    BY LayoutAssumption
  <2>2. PageSize = 4096 * (PageSize \div 4096) /\ PageSize \div 4096 \in Nat
    BY <2>1
  <2> QED BY <2>2
<1>2. PICK l \in Nat : b = PageSize * l
  <2>1. PageSize \in Nat \ {0}
    BY LayoutAssumption
  <2>2. b = PageSize * (b \div PageSize) /\ b \div PageSize \in Nat
    BY <2>1
  <2> QED BY <2>2
<1>3. b = 4096 * (k * l) /\ k * l \in Nat
  BY <1>1, <1>2
<1>4. \A m \in Nat : (4096 * m) % 4096 = 0
  OBVIOUS
<1>5. b % 4096 = 0
  BY <1>3, <1>4
<1> QED BY <1>5, PowerDivides DEF PowersOfTwo

(* The invariant gives aligned slots.                                      *)
LEMMA LinkedAligned == LayoutInv => SlotsAligned
<1> SUFFICES ASSUME LayoutInv, pc = "done", NEW i \in 1..Len(slots)
             PROVE  /\ VA(slots[i]) % 8 = 0
                    /\ \/ slots[i].sec \in {"data", "bss"} /\ slots[i].align <= 16
                       \/ slots[i].sec = "common" /\ slots[i].align <= 4096
                       => VA(slots[i]) % slots[i].align = 0
  BY DEF SlotsAligned
<1>1. PICK x \in slot : x = slots[i] /\ SlotGood(x)
  <2>1. slots \in Seq(slot)
    BY DEF LayoutInv, TypeInv, TypeOK, CoreTypes
  <2> QED BY <2>1 DEF LayoutInv, SlotsInv
<1>2. /\ x.off \in Nat /\ x.align \in PowersOfTwo /\ x.align \in Nat \ {0} /\ x.off % 8 = 0
      /\ x.sec \in {"data", "bss"} => x.off % x.align = 0
      /\ x.sec = "common" /\ x.align <= 4096 => x.off % x.align = 0
  <2>1. /\ x.off \in Nat /\ x.align \in PowersOfTwo /\ x.off % 8 = 0
        /\ x.sec \in {"data", "bss"} => x.off % x.align = 0
        /\ x.sec = "common" /\ x.align <= 4096 => x.off % x.align = 0
    BY <1>1 DEF slot, SlotGood, SlotRounded
  <2>2. x.align \in Nat \ {0}
    BY <2>1 DEF PowersOfTwo
  <2> QED BY <2>1, <2>2
<1>3. bases.data \in Nat /\ bases.bss \in Nat
  BY DoneTypes DEF LayoutInv
<1>4. bases.data % PageSize = 0 /\ bases.bss % PageSize = 0
  BY DEF LayoutInv, BasesInv, SegmentsLoadable
<1>5. \A a \in PowersOfTwo : a <= 4096 => bases.data % a = 0 /\ bases.bss % a = 0
  BY <1>3, <1>4, PagesAligned
<1>6. x.unit \in 1..Len(prog) =>
        /\ dataOff[x.unit] \in Nat /\ bssOff[x.unit] \in Nat /\ customOff[x.unit] \in Nat
        /\ dataOff[x.unit] % 16 = 0 /\ bssOff[x.unit] % 16 = 0 /\ customOff[x.unit] % 16 = 0
  <2> SUFFICES ASSUME x.unit \in 1..Len(prog)
               PROVE  /\ dataOff[x.unit] \in Nat /\ bssOff[x.unit] \in Nat
                      /\ customOff[x.unit] \in Nat
                      /\ dataOff[x.unit] % 16 = 0 /\ bssOff[x.unit] % 16 = 0
                      /\ customOff[x.unit] % 16 = 0
    OBVIOUS
  <2>1. dataOff[x.unit] \in Nat /\ bssOff[x.unit] \in Nat /\ customOff[x.unit] \in Nat
    BY DoneTypes DEF LayoutInv
  <2>2. Len(dataOff) = Len(prog) /\ Len(customOff) = Len(prog)
    BY DoneTypes DEF LayoutInv, TypeInv, TypeOK, PlaceTypes
  <2> QED BY <2>1, <2>2 DEF LayoutInv, MergeInv, WordsInv
<1>7. \A v \in Nat : v % 16 = 0 => \A a \in PowersOfTwo : a <= 16 => v % a = 0
  BY PowerDivides DEF PowersOfTwo
<1>8. 8 \in PowersOfTwo
  BY DEF PowersOfTwo
<1>9. x.sec # "common" => x.unit \in 1..Len(prog)
  BY <1>1 DEF SlotGood, SlotUnit
<1>10. ASSUME NEW a \in PowersOfTwo, a \in Nat \ {0}, a <= 16, x.off % a = 0, x.sec # "common"
       PROVE  VA(x) % a = 0
  <2>1. bases.data % a = 0 /\ bases.bss % a = 0
    BY <1>5, <1>10 DEF PowersOfTwo
  <2>2. dataOff[x.unit] \in Nat /\ bssOff[x.unit] \in Nat /\ customOff[x.unit] \in Nat
    BY <1>6, <1>9, <1>10
  <2>3. dataOff[x.unit] % a = 0 /\ bssOff[x.unit] % a = 0 /\ customOff[x.unit] % a = 0
    BY <1>6, <1>7, <1>9, <1>10, <2>2
  <2>4. bases.data + dataOff[x.unit] \in Nat /\ (bases.data + dataOff[x.unit]) % a = 0
    <3>1. bases.data + dataOff[x.unit] \in Nat
      BY <1>3, <2>2
    <3>2. (bases.data + dataOff[x.unit]) % a = 0
      BY <1>3, <1>10, <2>1, <2>2, <2>3, SumDivides
    <3> QED BY <3>1, <3>2
  <2>5. bases.bss + bssOff[x.unit] \in Nat /\ (bases.bss + bssOff[x.unit]) % a = 0
    BY <1>3, <1>10, <2>1, <2>2, <2>3, SumDivides
  <2>6. /\ bases.data + dataOff[x.unit] + customOff[x.unit] \in Nat
        /\ (bases.data + dataOff[x.unit] + customOff[x.unit]) % a = 0
    <3>1. PICK v \in Nat : v = bases.data + dataOff[x.unit] /\ v % a = 0
      BY <2>4
    <3>2. v + customOff[x.unit] \in Nat
      BY <2>2
    <3>3. (v + customOff[x.unit]) % a = 0
      BY <1>10, <2>2, <2>3, <3>1, SumDivides
    <3> QED BY <3>1, <3>2, <3>3
  <2>7. CASE x.sec = "data"
    BY <1>2, <1>10, <2>4, <2>7, SumDivides DEF VA
  <2>8. CASE x.sec = "bss"
    BY <1>2, <1>10, <2>5, <2>8, SumDivides DEF VA
  <2>9. CASE x.sec = "custom"
    BY <1>2, <1>10, <2>6, <2>9, SumDivides DEF VA
  <2> QED BY <1>10, <2>7, <2>8, <2>9 DEF slot, Sections
<1>11. ASSUME NEW a \in PowersOfTwo, a \in Nat \ {0}, a <= 4096, x.off % a = 0, x.sec = "common"
       PROVE  VA(x) % a = 0
  <2>1. VA(x) = bases.bss + x.off
    BY <1>11 DEF VA
  <2>2. bases.bss % a = 0
    BY <1>5, <1>11
  <2> QED BY <1>2, <1>3, <1>11, <2>1, <2>2, SumDivides
<1>12. VA(x) % 8 = 0
  BY <1>2, <1>8, <1>10, <1>11
<1>13. (x.sec \in {"data", "bss"} /\ x.align <= 16) => VA(x) % x.align = 0
  BY <1>2, <1>10
<1>14. (x.sec = "common" /\ x.align <= 4096) => VA(x) % x.align = 0
  BY <1>2, <1>11
<1> QED BY <1>1, <1>12, <1>13, <1>14

(* So the invariant always holds.                                          *)
LEMMA LayoutAlways == Spec => []LayoutInv
<1>1. Init => LayoutInv
  BY InitLayoutInv
<1>2. LayoutInv /\ [Next]_vars => LayoutInv'
  BY NextLayoutInv
<1> QED BY <1>1, <1>2, PTL DEF Spec

(* In every linked program no two variables share a byte, every variable   *)
(* lies in its segment and sbrk's break cell comes after all of them:      *)
(* genObjectTo's offsets, parseObjELF's folding and linkWithObjs's merge   *)
(* agree, for any number of units, globals, sizes and alignments.          *)
THEOREM StorageIsDisjoint == Spec => []StorageDisjoint
<1>1. LayoutInv => StorageDisjoint
  BY LinkedDisjoint
<1> QED BY <1>1, LayoutAlways, PTL

(* Every variable is word aligned, and aligned as it asks up to what the   *)
(* linker keeps: 16 in .data and .bss, a page of 4096 in COMMON.           *)
THEOREM SlotsAreAligned == Spec => []SlotsAligned
<1>1. LayoutInv => SlotsAligned
  BY LinkedAligned
<1> QED BY <1>1, LayoutAlways, PTL

(* The segments of linkWithObjs share no page, and their addresses are     *)
(* congruent to their file offsets, whatever the sizes.                    *)
THEOREM SegmentsAreLoadable == Spec => []SegmentsLoadable
<1>1. LayoutInv => SegmentsLoadable
  BY DEF LayoutInv, BasesInv, SegmentsLoadable
<1> QED BY <1>1, LayoutAlways, PTL
=============================================================================
