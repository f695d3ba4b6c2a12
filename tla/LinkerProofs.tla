---------------------------- MODULE LinkerProofs ----------------------------
(***************************************************************************)
(* Proofs about Linker, for every set of names and every set of command    *)
(* lines.                                                                  *)
(***************************************************************************)
EXTENDS Linker, WellFoundedInduction, TLAPS

-----------------------------------------------------------------------------
(* A nonempty set of naturals has a least element: archiveRead's "first    *)
(* member that defines the name" exists.                                   *)
LEMMA LeastNatural ==
  ASSUME NEW T \in SUBSET Nat, T # {}
  PROVE  \E x \in T : \A y \in T : x <= y
<1>1. \E x \in T : \A y \in T : ~ (<<y, x>> \in OpToRel(<, Nat))
  BY NatLessThanWellFounded, WFMin
<1>2. \A x, y \in Nat : ~ (<<y, x>> \in OpToRel(<, Nat)) => x <= y
  BY DEF OpToRel
<1> QED BY <1>1, <1>2

(* The member symMap names is one that defines the name and parses.        *)
LEMMA SymMapIndexed ==
  ASSUME NEW f, NEW n, Indexers(f, n) # {}, Len(args[f].mem) \in Nat
  PROVE  /\ symMap(f, n) \in Indexers(f, n)
         /\ symMap(f, n) \in 1..Len(args[f].mem)
         /\ Defines(<<f, symMap(f, n)>>, n)
<1>1. Indexers(f, n) \in SUBSET Nat
  BY DEF Indexers
<1>2. \E m \in Indexers(f, n) : \A k \in Indexers(f, n) : m <= k
  BY <1>1, LeastNatural
<1>3. symMap(f, n) \in Indexers(f, n)
  BY <1>2 DEF symMap
<1> QED BY <1>3 DEF Indexers

(* The first archive with an unused member for a name exists when any      *)
(* does: ScanRef's choice is one of the resolvers.                         *)
LEMMA FirstResolver ==
  ASSUME NEW n, Resolvers(n) # {}, Len(archives) \in Nat
  PROVE  (CHOOSE a \in Resolvers(n) : \A b \in Resolvers(n) : a <= b) \in Resolvers(n)
<1>1. Resolvers(n) \in SUBSET Nat
  BY DEF Resolvers
<1> QED BY <1>1, LeastNatural

(* What the command lines promise about an input and its members.          *)
LEMMA InputFacts ==
  ASSUME cmdLine(args), NEW i \in 1..Len(args)
  PROVE  /\ Len(args[i].mem) \in Nat
         /\ args[i].kind = "obj" => Len(args[i].mem) = 1
         /\ args[i].kind \in {"obj", "ar"}
         /\ \A m \in 1..Len(args[i].mem) :
              /\ DOMAIN args[i].mem[m].tab \subseteq Names
              /\ \A n \in DOMAIN args[i].mem[m].tab : args[i].mem[m].tab[n] \in lnkSym
  BY DEF cmdLine, inputFile, objFile

(* Members an archive contributes are members the input has, and they      *)
(* define the name they were pulled for.                                   *)
LEMMA ResolverFacts ==
  ASSUME TypeOK, NEW n \in Names, NEW a \in Resolvers(n)
  PROVE  /\ archives[a] \in 1..Len(args)
         /\ symMap(archives[a], n) \in 1..Len(args[archives[a]].mem)
         /\ Defines(<<archives[a], symMap(archives[a], n)>>, n)
<1>1. a \in 1..Len(archives) /\ Indexers(archives[a], n) # {}
  BY DEF Resolvers
<1>2. archives[a] \in 1..Len(args)
  BY <1>1 DEF TypeOK, PullTypes, MergeTypes
<1>3. Len(args[archives[a]].mem) \in Nat
  BY <1>2, InputFacts DEF TypeOK, PullTypes, MergeTypes
<1> QED BY <1>1, <1>2, <1>3, SymMapIndexed

-----------------------------------------------------------------------------
(* Type correctness.                                                       *)

(* The types hold before the command line is read.                         *)
LEMMA InitTypeOK == Init => TypeOK
<1> SUFFICES ASSUME Init PROVE TypeOK
  OBVIOUS
<1>1. PullTypes
  BY CmdLinesAssumption DEF Init, PullTypes, Phases
<1>2. added \in BOOLEAN
  BY DEF Init
<1>3. MergeTypes
  BY DEF Init, MergeTypes, NoCommon, Address
<1> QED BY <1>1, <1>2, <1>3 DEF TypeOK

(* Steps that change neither the objects nor the merged tables.            *)
LEMMA SameTables ==
  ASSUME MergeTypes, objs' = objs, UNCHANGED <<realDef, weakDef, commons, symVA>>
  PROVE  MergeTypes'
<1>1. Loaded' = Loaded
  BY DEF Loaded
<1>2. Address' = Address
  BY <1>1 DEF Address
<1> QED BY <1>1, <1>2 DEF MergeTypes

(* A link that gives up keeps the types.                                   *)
LEMMA FailTypeOK ==
  ASSUME TypeOK, NEW why, Fail(why)
  PROVE  TypeOK'
<1>1. PullTypes'
  BY DEF TypeOK, PullTypes, Fail, pulling, Phases
<1>2. added' \in BOOLEAN
  BY DEF TypeOK, Fail, pulling
<1>3. MergeTypes'
  BY SameTables DEF TypeOK, Fail, merged
<1> QED BY <1>1, <1>2, <1>3 DEF TypeOK

(* Appending a member that exists keeps everything that refers to the      *)
(* loaded objects in its type.                                             *)
LEMMA AppendTypeOK ==
  ASSUME TypeOK, NEW o \in ObjId, o[1] \in 1..Len(args), o[2] \in 1..Len(args[o[1]].mem),
         args' = args, objs' = Append(objs, o),
         realDef' = realDef, weakDef' = weakDef, symVA' = symVA
  PROVE  /\ objs' \in Seq(ObjId)
         /\ Len(objs') = Len(objs) + 1
         /\ \A i \in 1..Len(objs') :
              /\ objs'[i][1] \in 1..Len(args)
              /\ objs'[i][2] \in 1..Len(args[objs'[i][1]].mem)
         /\ Loaded' = Loaded \cup {o}
         /\ realDef' \in [Names -> (Loaded \cup {NoObj})']
         /\ weakDef' \in [Names -> (Loaded \cup {NoObj})']
         /\ symVA' \in [Names -> Address']
<1>1. objs \in Seq(ObjId) /\ Len(objs) \in Nat
  BY DEF TypeOK, PullTypes, MergeTypes
<1>2. objs' \in Seq(ObjId) /\ Len(objs') = Len(objs) + 1
  BY <1>1
<1>3. \A i \in 1..Len(objs') : objs'[i] = IF i <= Len(objs) THEN objs[i] ELSE o
  BY <1>1
<1>4. \A i \in 1..Len(objs') :
              /\ objs'[i][1] \in 1..Len(args)
              /\ objs'[i][2] \in 1..Len(args[objs'[i][1]].mem)
  BY <1>1, <1>2, <1>3 DEF TypeOK, PullTypes, MergeTypes
<1>5. Loaded' = Loaded \cup {o}
  BY <1>1, <1>2, <1>3 DEF Loaded
<1>6. /\ realDef' \in [Names -> (Loaded \cup {NoObj})']
      /\ weakDef' \in [Names -> (Loaded \cup {NoObj})']
  BY <1>5 DEF TypeOK, PullTypes, MergeTypes
<1>7. Address \subseteq Address'
  BY <1>5 DEF Address, NoVA, DefVA, CommonVA, HelperVA
<1>8. symVA' \in [Names -> Address']
  BY <1>7 DEF TypeOK, MergeTypes
<1> QED BY <1>2, <1>4, <1>5, <1>6, <1>8

(* The alignment a tentative definition is given is never 0.               *)
LEMMA CommonAlignPositive ==
  ASSUME NEW al \in Nat
  PROVE  CommonAlign(al) \in Nat \ {0}
<1>1. CASE al \in {1, 2, 4, 8, 16, 32, 64, 128, 256, 512, 1024, 2048, 4096}
  BY <1>1 DEF CommonAlign
<1>2. CASE al \notin {1, 2, 4, 8, 16, 32, 64, 128, 256, 512, 1024, 2048, 4096}
  <2>1. CommonAlign(al) = 8
    BY <1>2 DEF CommonAlign
  <2> QED BY <2>1
<1> QED BY <1>1, <1>2

(* One step of the linker.                                                 *)
LEMMA NextTypeOK ==
  ASSUME TypeOK, Next
  PROVE  TypeOK'
<1>1. CASE LoadInput
  <2>1. CASE args[nxt].kind = "ar"
    <3>1. MergeTypes'
      BY <1>1, <2>1, SameTables DEF TypeOK, LoadInput, merged
    <3>2. added' \in BOOLEAN
      BY <1>1 DEF TypeOK, LoadInput
    <3>3. PullTypes'
      <4>1. /\ archives' = Append(archives, nxt) /\ nxt \in 1..Len(args)
            /\ UNCHANGED <<args, objs, pc, used, defined, todo>> /\ nxt' = nxt + 1
        BY <1>1, <2>1 DEF TypeOK, PullTypes, LoadInput, cmdLine
      <4>2. archives' \in Seq(Nat) /\ Len(archives') = Len(archives) + 1
        BY <4>1 DEF TypeOK, PullTypes
      <4>3. \A i \in 1..Len(archives') :
              archives'[i] = IF i <= Len(archives) THEN archives[i] ELSE nxt
        BY <4>1 DEF TypeOK, PullTypes
      <4>4. \A i \in 1..Len(archives') :
              archives'[i] \in 1..Len(args) /\ args[archives'[i]].kind = "ar"
        BY <2>1, <4>1, <4>2, <4>3 DEF TypeOK, PullTypes
      <4> QED BY <4>1, <4>2, <4>4 DEF TypeOK, PullTypes
    <3> QED BY <3>1, <3>2, <3>3 DEF TypeOK
  <2>2. CASE args[nxt].kind # "ar"
    <3> DEFINE o == <<nxt, 1>>
    <3>1. nxt \in 1..Len(args) /\ objs' = Append(objs, o) /\ UNCHANGED <<args, archives>>
      BY <1>1, <2>2 DEF TypeOK, PullTypes, LoadInput, cmdLine
    <3>2. o \in ObjId /\ o[1] \in 1..Len(args) /\ o[2] \in 1..Len(args[o[1]].mem)
      <4>1. Len(args[nxt].mem) = 1
        BY <2>2, <3>1, InputFacts DEF TypeOK, PullTypes
      <4>2. nxt \in Nat
        BY DEF TypeOK, PullTypes
      <4>3. o \in ObjId
        BY <4>2 DEF ObjId
      <4>4. o[1] = nxt /\ o[2] = 1
        OBVIOUS
      <4>5. o[1] \in 1..Len(args)
        BY <3>1, <4>4
      <4> HIDE DEF o
      <4>6. Len(args[o[1]].mem) = 1
        BY <4>1, <4>4
      <4>7. \A n : n = 1 => 1 \in 1..n
        BY SMT
      <4>8. o[2] \in 1..Len(args[o[1]].mem)
        BY <4>4, <4>6, <4>7
      <4> QED BY <4>3, <4>5, <4>8
    <3>3. UNCHANGED <<pc, used, defined, todo, added, realDef, weakDef, commons, symVA>>
      BY <1>1 DEF LoadInput, merged
    <3> HIDE DEF o
    <3>4. PullTypes'
      BY <1>1, <3>1, <3>2, <3>3, AppendTypeOK DEF TypeOK, PullTypes, LoadInput
    <3>5. MergeTypes'
      BY <3>1, <3>2, <3>3, AppendTypeOK DEF TypeOK, MergeTypes
    <3>6. added' \in BOOLEAN
      BY <3>3 DEF TypeOK
    <3> QED BY <3>4, <3>5, <3>6 DEF TypeOK
  <2> QED BY <2>1, <2>2
<1>2. CASE LoadError
  BY <1>2, FailTypeOK DEF LoadError
<1>3. CASE LoadEnd
  <2>1. PullTypes'
    BY <1>3 DEF TypeOK, PullTypes, LoadEnd, pulling, Phases
  <2>2. added' \in BOOLEAN
    BY <1>3 DEF TypeOK, LoadEnd, pulling
  <2>3. MergeTypes'
    BY <1>3, SameTables DEF TypeOK, LoadEnd, merged
  <2> QED BY <2>1, <2>2, <2>3 DEF TypeOK
<1>4. CASE ForcePull
  <2>1. CASE nxt \in Resolvers(StdioInit)
    <3> DEFINE o == <<archives[nxt], symMap(archives[nxt], StdioInit)>>
    <3>1. /\ objs' = Append(objs, o) /\ used' = used \cup {o}
          /\ UNCHANGED <<args, pc, archives, defined, todo, added, realDef, weakDef, commons, symVA>>
          /\ nxt' = nxt + 1
      BY <1>4, <2>1 DEF ForcePull, Pull, merged
    <3>2. o[1] \in 1..Len(args) /\ o[2] \in 1..Len(args[o[1]].mem)
      BY <2>1, ResolverFacts, NamesAssumption
    <3>3. Len(args) \in Nat /\ Len(args[o[1]].mem) \in Nat
      BY <3>2, InputFacts DEF TypeOK, PullTypes, cmdLine
    <3>4. o \in ObjId
      BY <3>2, <3>3 DEF ObjId
    <3> HIDE DEF o
    <3>5. PullTypes'
      BY <3>1, <3>2, <3>4, AppendTypeOK DEF TypeOK, PullTypes
    <3>6. MergeTypes'
      BY <3>1, <3>2, <3>4, AppendTypeOK DEF TypeOK, MergeTypes
    <3>7. added' \in BOOLEAN
      BY <3>1 DEF TypeOK
    <3> QED BY <3>5, <3>6, <3>7 DEF TypeOK
  <2>2. CASE nxt \notin Resolvers(StdioInit)
    <3>1. PullTypes'
      BY <1>4, <2>2 DEF TypeOK, PullTypes, ForcePull
    <3>2. added' \in BOOLEAN
      BY <1>4 DEF TypeOK, ForcePull
    <3>3. MergeTypes'
      BY <1>4, <2>2, SameTables DEF TypeOK, ForcePull, merged
    <3> QED BY <3>1, <3>2, <3>3 DEF TypeOK
  <2> QED BY <2>1, <2>2
<1>5. CASE ForceEnd
  <2>1. PullTypes'
    BY <1>5 DEF TypeOK, PullTypes, ForceEnd, pulling, Phases
  <2>2. added' \in BOOLEAN
    BY <1>5 DEF TypeOK, ForceEnd, pulling
  <2>3. MergeTypes'
    BY <1>5, SameTables DEF TypeOK, ForceEnd, merged
  <2> QED BY <2>1, <2>2, <2>3 DEF TypeOK
<1>6. CASE StartRound
  <2>1. PullTypes'
    BY <1>6 DEF TypeOK, PullTypes, StartRound, DefinedNames, Phases
  <2>2. added' \in BOOLEAN
    BY <1>6 DEF StartRound
  <2>3. MergeTypes'
    BY <1>6, SameTables DEF TypeOK, StartRound, merged
  <2> QED BY <2>1, <2>2, <2>3 DEF TypeOK
<1>7. ASSUME NEW r \in todo, ScanRef(r) PROVE TypeOK'
  <2>1. CASE Resolvers(r[2]) = {}
    <3>1. PullTypes'
      BY <1>7, <2>1 DEF TypeOK, PullTypes, ScanRef
    <3>2. added' \in BOOLEAN
      BY <1>7, <2>1 DEF TypeOK, ScanRef
    <3>3. MergeTypes'
      BY <1>7, <2>1, SameTables DEF TypeOK, ScanRef, merged
    <3> QED BY <3>1, <3>2, <3>3 DEF TypeOK
  <2>2. CASE Resolvers(r[2]) # {}
    <3>1. r[2] \in Names
      BY <1>7 DEF TypeOK, PullTypes
    <3>2. PICK a \in Resolvers(r[2]) :
            Pull(<<archives[a], symMap(archives[a], r[2])>>) /\ added' = TRUE
      <4> DEFINE first == CHOOSE a \in Resolvers(r[2]) : \A b \in Resolvers(r[2]) : a <= b
      <4>1. Len(archives) \in Nat
        BY DEF TypeOK, PullTypes
      <4>2. first \in Resolvers(r[2])
        BY <2>2, <4>1, FirstResolver
      <4>3. Pull(<<archives[first], symMap(archives[first], r[2])>>) /\ added' = TRUE
        BY <1>7, <2>2 DEF ScanRef
      <4> HIDE DEF first
      <4> QED BY <4>2, <4>3
    <3> DEFINE o == <<archives[a], symMap(archives[a], r[2])>>
    <3>3. /\ objs' = Append(objs, o) /\ used' = used \cup {o} /\ todo' = todo \ {r}
          /\ UNCHANGED <<args, pc, nxt, archives, defined, realDef, weakDef, commons, symVA>>
      BY <1>7, <3>2 DEF ScanRef, Pull, merged
    <3>4. o[1] \in 1..Len(args) /\ o[2] \in 1..Len(args[o[1]].mem)
      BY <3>1, <3>2, ResolverFacts
    <3>5. Len(args) \in Nat /\ Len(args[o[1]].mem) \in Nat
      BY <3>4, InputFacts DEF TypeOK, PullTypes, cmdLine
    <3>6. o \in ObjId
      BY <3>4, <3>5 DEF ObjId
    <3> HIDE DEF o
    <3>7. PullTypes'
      BY <3>3, <3>4, <3>6, AppendTypeOK DEF TypeOK, PullTypes
    <3>8. MergeTypes'
      BY <3>3, <3>4, <3>6, AppendTypeOK DEF TypeOK, MergeTypes
    <3>9. added' \in BOOLEAN
      BY <3>2
    <3> QED BY <3>7, <3>8, <3>9 DEF TypeOK
  <2> QED BY <2>1, <2>2
<1>8. CASE EndRound
  <2>1. PullTypes'
    BY <1>8 DEF TypeOK, PullTypes, EndRound, pulling, Phases
  <2>2. added' \in BOOLEAN
    BY <1>8 DEF TypeOK, EndRound, pulling
  <2>3. MergeTypes'
    BY <1>8, SameTables DEF TypeOK, EndRound, merged
  <2> QED BY <2>1, <2>2, <2>3 DEF TypeOK
<1>9. CASE MergeObj
  <2> DEFINE o == objs[nxt]
  <2>1. nxt \in 1..Len(objs) /\ o \in Loaded
    BY <1>9 DEF MergeObj, TypeOK, PullTypes, Loaded
  <2>2. DOMAIN Tab(o) \subseteq Names /\ \A n \in DOMAIN Tab(o) : Tab(o)[n] \in lnkSym
    BY <2>1, InputFacts DEF TypeOK, PullTypes, Tab
  <2>3. \A n \in Names : CommonDef(o, n) =>
          Tab(o)[n].size \in Nat /\ CommonAlign(Tab(o)[n].value) \in Nat
    <3>1. \A n \in Names : CommonDef(o, n) => Tab(o)[n].size \in Nat /\ Tab(o)[n].value \in Nat
      BY <2>2 DEF CommonDef, lnkSym
    <3> QED BY <3>1, CommonAlignPositive
  <2>4. UNCHANGED <<args, pc, objs, archives, used, defined, todo, added, symVA>> /\ nxt' = nxt + 1
    BY <1>9 DEF MergeObj, pulling
  <2>5. Loaded' = Loaded /\ Address' = Address
    BY <2>4 DEF Loaded, Address
  <2>6. commons' \in [Names -> [size : Nat, align : Nat]]
    <3>1. \A n \in Names : CommonDef(o, n) =>
            [size  |-> MaxNat(commons[n].size, Tab(o)[n].size),
             align |-> MaxNat(commons[n].align, CommonAlign(Tab(o)[n].value))]
                \in [size : Nat, align : Nat]
      BY <2>3 DEF MaxNat, TypeOK, MergeTypes
    <3> QED BY <1>9, <3>1 DEF MergeObj, TypeOK, MergeTypes
  <2>7. /\ realDef' \in [Names -> Loaded \cup {NoObj}]
        /\ weakDef' \in [Names -> Loaded \cup {NoObj}]
    BY <1>9, <2>1 DEF MergeObj, Winner, TypeOK, MergeTypes
  <2>8. MergeTypes'
    BY <2>4, <2>5, <2>6, <2>7 DEF TypeOK, MergeTypes
  <2>9. PullTypes'
    BY <2>4 DEF TypeOK, PullTypes
  <2>10. added' \in BOOLEAN
    BY <2>4 DEF TypeOK
  <2> QED BY <2>8, <2>9, <2>10 DEF TypeOK
<1>10. CASE DuplicateError
  BY <1>10, FailTypeOK DEF DuplicateError
<1>11. CASE Suppress
  <2>1. PullTypes'
    BY <1>11 DEF TypeOK, PullTypes, Suppress, pulling, Phases
  <2>2. added' \in BOOLEAN
    BY <1>11 DEF TypeOK, Suppress, pulling
  <2>3. Loaded' = Loaded /\ Address' = Address
    BY <1>11 DEF Suppress, Loaded, Address
  <2>4. MergeTypes'
    BY <1>11, <2>3 DEF TypeOK, MergeTypes, Suppress, NoCommon
  <2> QED BY <2>1, <2>2, <2>4 DEF TypeOK
<1>12. CASE BuildSymVA
  <2>1. PullTypes'
    BY <1>12 DEF TypeOK, PullTypes, BuildSymVA, pulling, Phases
  <2>2. added' \in BOOLEAN
    BY <1>12 DEF TypeOK, BuildSymVA, pulling
  <2>3. Loaded' = Loaded /\ Address' = Address
    BY <1>12 DEF BuildSymVA, Loaded, Address
  <2>4. \A n \in Names : symVA'[n] \in Address
    BY <1>12 DEF BuildSymVA, Address, TypeOK, MergeTypes, NoVA, DefVA, CommonVA, HelperVA, NoObj
  <2>5. symVA' \in [Names -> Address]
    BY <1>12, <2>4 DEF BuildSymVA
  <2>6. MergeTypes'
    BY <1>12, <2>3, <2>5 DEF TypeOK, MergeTypes, BuildSymVA
  <2> QED BY <2>1, <2>2, <2>6 DEF TypeOK
<1>13. CASE ResolveEntry
  <2>1. PullTypes'
    BY <1>13 DEF TypeOK, PullTypes, ResolveEntry, pulling, Phases
  <2>2. added' \in BOOLEAN
    BY <1>13 DEF TypeOK, ResolveEntry, pulling
  <2>3. MergeTypes'
    BY <1>13, SameTables DEF TypeOK, ResolveEntry, merged
  <2> QED BY <2>1, <2>2, <2>3 DEF TypeOK
<1>14. CASE NoMainError \/ NoStdioInitError \/ OpenError
  BY <1>14, FailTypeOK DEF NoMainError, NoStdioInitError, OpenError
<1>15. CASE RelocObj
  <2>1. PullTypes'
    BY <1>15 DEF TypeOK, PullTypes, RelocObj, pulling
  <2>2. added' \in BOOLEAN
    BY <1>15 DEF TypeOK, RelocObj, pulling
  <2>3. MergeTypes'
    BY <1>15, SameTables DEF TypeOK, RelocObj
  <2> QED BY <2>1, <2>2, <2>3 DEF TypeOK
<1>16. CASE OpenOutput \/ WriteSection \/ WriteFails \/ EndWrite
  <2>1. PullTypes'
    <3>1. /\ UNCHANGED <<args, objs, archives, used, defined, todo>>
          /\ pc' \in {"write", "done", "error"} /\ nxt' \in {1, nxt, nxt + 1}
      BY <1>16 DEF OpenOutput, WriteSection, WriteFails, EndWrite, pulling
    <3>2. nxt' \in Nat \ {0} /\ pc' \in Phases
      BY <3>1 DEF TypeOK, PullTypes, Phases
    <3> QED BY <3>1, <3>2 DEF TypeOK, PullTypes
  <2>2. added' \in BOOLEAN
    BY <1>16 DEF TypeOK, OpenOutput, WriteSection, WriteFails, EndWrite, pulling
  <2>3. MergeTypes'
    BY <1>16, SameTables DEF TypeOK, OpenOutput, WriteSection, WriteFails, EndWrite, merged
  <2> QED BY <2>1, <2>2, <2>3 DEF TypeOK
<1> QED BY <1>1, <1>2, <1>3, <1>4, <1>5, <1>6, <1>7, <1>8, <1>9, <1>10, <1>11, <1>12,
           <1>13, <1>14, <1>15, <1>16 DEF Next

(* The types of linkWithObjs' variables are never broken.                  *)
THEOREM TypeCorrect == Spec => []TypeOK
<1>1. TypeOK /\ UNCHANGED vars => TypeOK'
  <2> SUFFICES ASSUME TypeOK, UNCHANGED vars PROVE TypeOK'
    OBVIOUS
  <2>1. PullTypes'
    BY DEF TypeOK, PullTypes, vars
  <2>2. added' \in BOOLEAN
    BY DEF TypeOK, vars
  <2>3. MergeTypes'
    BY SameTables DEF TypeOK, vars
  <2> QED BY <2>1, <2>2, <2>3 DEF TypeOK
<1> QED BY <1>1, InitTypeOK, NextTypeOK, PTL DEF Spec

-----------------------------------------------------------------------------
(* The pull loop reaches its fixpoint.                                     *)

Unindexed(n) == \A a \in 1..Len(archives) : Indexers(archives[a], n) = {}

(* While a round has pulled nothing, what it has looked at is satisfied:   *)
(* the round that ends the loop is one in which this held to the end.      *)
RoundInv ==
  pc = "scan" /\ ~added =>
    \A k \in 1..Len(objs) : \A n \in Names :
      Undefined(objs[k], n) => n \in DefinedNames \/ Unindexed(n) \/ <<k, n>> \in todo

(* A member that has been used is loaded: that an archive has no unused    *)
(* member left for a name means that the name is defined.                  *)
UsedLoaded == used \subseteq Loaded

PullInv == UsedLoaded /\ RoundInv /\ PullClosed

(* The vocabulary of the pull loop depends on args, objs and archives.     *)
LEMMA SameObjects ==
  ASSUME UNCHANGED <<args, objs, archives>>
  PROVE  /\ Loaded' = Loaded
         /\ DefinedNames' = DefinedNames
         /\ \A n : Unindexed(n)' = Unindexed(n)
         /\ \A o, n : Undefined(o, n)' = Undefined(o, n)
<1>1. Loaded' = Loaded
  BY DEF Loaded
<1>2. \A o, n : Defines(o, n)' = Defines(o, n) /\ Undefined(o, n)' = Undefined(o, n)
  BY DEF Defines, Undefined, Tab
<1>3. DefinedNames' = DefinedNames
  BY <1>1, <1>2 DEF DefinedNames
<1>4. \A f, n : Indexers(f, n)' = Indexers(f, n)
  BY <1>2 DEF Indexers
<1>5. \A n : Unindexed(n)' = Unindexed(n)
  BY <1>4 DEF Unindexed
<1> QED BY <1>1, <1>2, <1>3, <1>5

(* A name with no resolver left is satisfied.                              *)
LEMMA NoResolver ==
  ASSUME TypeOK, UsedLoaded, NEW n \in Names, Resolvers(n) = {}
  PROVE  n \in DefinedNames \/ Unindexed(n)
<1> SUFFICES ASSUME NEW a \in 1..Len(archives), Indexers(archives[a], n) # {}
             PROVE  n \in DefinedNames
  BY DEF Unindexed
<1>1. <<archives[a], symMap(archives[a], n)>> \in used
  BY DEF Resolvers
<1>2. Len(args[archives[a]].mem) \in Nat
  BY InputFacts DEF TypeOK, PullTypes
<1>3. Defines(<<archives[a], symMap(archives[a], n)>>, n)
  BY <1>2, SymMapIndexed
<1> QED BY <1>1, <1>3 DEF UsedLoaded, DefinedNames

(* Outside the pull loop nothing it depends on changes.                    *)
LEMMA QuietPullInv ==
  ASSUME TypeOK, PullInv, UNCHANGED <<args, objs, archives, used>>,
         pc' # "scan", pc' \in Pulled => pc \in Pulled
  PROVE  PullInv'
<1>1. UsedLoaded'
  BY SameObjects DEF PullInv, UsedLoaded
<1>2. RoundInv'
  BY DEF RoundInv
<1>3. PullClosed'
  <2> SUFFICES ASSUME pc \in Pulled, NEW o \in Loaded, NEW n \in Names, Undefined(o, n)
               PROVE  n \in DefinedNames \/ Unindexed(n)
    BY SameObjects DEF PullClosed, Unindexed
  <2> QED BY DEF PullInv, PullClosed, Unindexed
<1> QED BY <1>1, <1>2, <1>3 DEF PullInv

(* Pulling a member marks it used and loads it.                            *)
LEMMA PullUsedLoaded ==
  ASSUME TypeOK, UsedLoaded, NEW o, Pull(o)
  PROVE  UsedLoaded'
<1>1. objs' = Append(objs, o) /\ used' = used \cup {o}
  BY DEF Pull
<1>2. \A i \in 1..Len(objs) : objs'[i] = objs[i] /\ i \in 1..Len(objs')
  BY <1>1 DEF TypeOK, PullTypes
<1>3. objs'[Len(objs) + 1] = o /\ Len(objs) + 1 \in 1..Len(objs')
  BY <1>1 DEF TypeOK, PullTypes
<1>4. Loaded \cup {o} \subseteq Loaded'
  BY <1>2, <1>3 DEF Loaded
<1> QED BY <1>1, <1>4 DEF UsedLoaded

(* One step of the linker.                                                 *)
LEMMA NextPullInv ==
  ASSUME TypeOK, TypeOK', PullInv, Next
  PROVE  PullInv'
<1>1. CASE LoadInput
  <2>1. pc' = "load" /\ used' = used /\ args' = args
    BY <1>1 DEF LoadInput
  <2>2. objs \in Seq(ObjId)
    BY DEF TypeOK, PullTypes
  <2>3. objs' = objs \/ objs' = Append(objs, <<nxt, 1>>)
    BY <1>1 DEF LoadInput
  <2>4. Loaded \subseteq Loaded'
    <3>1. CASE objs' = objs
      BY <3>1 DEF Loaded
    <3>2. CASE objs' = Append(objs, <<nxt, 1>>)
      <4>1. Len(objs) \in Nat /\ Len(objs') = Len(objs) + 1
        BY <2>2, <3>2
      <4>2. \A i \in 1..Len(objs) : i \in 1..Len(objs') /\ objs'[i] = objs[i]
        BY <2>2, <3>2, <4>1
      <4> QED BY <4>2 DEF Loaded
    <3> QED BY <2>3, <3>1, <3>2
  <2> QED BY <2>1, <2>4 DEF PullInv, UsedLoaded, RoundInv, PullClosed, Pulled
<1>2. CASE LoadError \/ LoadEnd \/ ForceEnd \/ DuplicateError \/ NoMainError
           \/ NoStdioInitError \/ OpenError \/ ResolveEntry
  BY <1>2, QuietPullInv DEF LoadError, LoadEnd, ForceEnd, DuplicateError, NoMainError,
     NoStdioInitError, OpenError, ResolveEntry, Fail, pulling, Pulled
<1>3. CASE ForcePull
  <2>1. pc' = "force" /\ args' = args
    BY <1>3 DEF ForcePull
  <2>2. UsedLoaded'
    <3>1. CASE objs' = objs /\ used' = used
      BY <3>1 DEF PullInv, UsedLoaded, Loaded
    <3>2. ASSUME NEW o, Pull(o) PROVE UsedLoaded'
      BY <3>2, PullUsedLoaded DEF PullInv
    <3> QED BY <1>3, <3>1, <3>2 DEF ForcePull
  <2> QED BY <2>1, <2>2 DEF PullInv, RoundInv, PullClosed, Pulled
<1>4. CASE StartRound
  <2>1. UNCHANGED <<args, objs, archives, used>> /\ pc' = "scan"
    BY <1>4 DEF StartRound
  <2>2. todo' = {r \in (1..Len(objs)) \X Names :
                   Undefined(objs[r[1]], r[2]) /\ r[2] \notin DefinedNames}
    BY <1>4 DEF StartRound
  <2>3. UsedLoaded'
    BY <2>1, SameObjects DEF PullInv, UsedLoaded
  <2>4. RoundInv'
    BY <2>1, <2>2, SameObjects DEF RoundInv
  <2> QED BY <2>1, <2>3, <2>4 DEF PullInv, PullClosed, Pulled
<1>5. ASSUME NEW r \in todo, ScanRef(r) PROVE PullInv'
  <2>1. args' = args /\ pc = "scan" /\ pc' = "scan" /\ todo' = todo \ {r}
    BY <1>5 DEF ScanRef
  <2>2. r \in (1..Len(objs)) \X Names
    BY <1>5 DEF TypeOK, PullTypes
  <2>3. CASE Resolvers(r[2]) = {}
    <3>1. UNCHANGED <<args, objs, archives, used>> /\ added' = added
      BY <1>5, <2>3 DEF ScanRef
    <3>2. UsedLoaded'
      BY <3>1, SameObjects DEF PullInv, UsedLoaded
    <3>3. RoundInv'
      <4> SUFFICES ASSUME ~added, NEW k \in 1..Len(objs), NEW n \in Names, Undefined(objs[k], n)
                   PROVE  n \in DefinedNames \/ Unindexed(n) \/ <<k, n>> \in todo \ {r}
        BY <2>1, <3>1, SameObjects DEF RoundInv
      <4>1. n \in DefinedNames \/ Unindexed(n) \/ <<k, n>> \in todo
        BY <2>1 DEF PullInv, RoundInv
      <4>2. CASE <<k, n>> = r
        BY <2>3, <4>2, NoResolver DEF PullInv
      <4> QED BY <4>1, <4>2
    <3> QED BY <2>1, <3>2, <3>3 DEF PullInv, PullClosed, Pulled
  <2>4. CASE Resolvers(r[2]) # {}
    <3>1. PICK o : Pull(o) /\ added'
      BY <1>5, <2>4 DEF ScanRef
    <3>2. UsedLoaded'
      BY <3>1, PullUsedLoaded DEF PullInv
    <3>3. RoundInv'
      BY <3>1 DEF RoundInv
    <3> QED BY <2>1, <3>2, <3>3 DEF PullInv, PullClosed, Pulled
  <2> QED BY <2>3, <2>4
<1>6. CASE EndRound
  <2>1. UNCHANGED <<args, objs, archives, used>> /\ pc = "scan" /\ todo = {}
    BY <1>6 DEF EndRound, pulling
  <2>2. CASE added
    BY <1>6, <2>1, <2>2, QuietPullInv DEF EndRound, Pulled
  <2>3. CASE ~added
    <3>1. pc' = "merge"
      BY <1>6, <2>3 DEF EndRound
    <3>2. UsedLoaded' /\ RoundInv'
      BY <2>1, <3>1, SameObjects DEF PullInv, UsedLoaded, RoundInv
    <3>3. ASSUME NEW o \in Loaded, NEW n \in Names, Undefined(o, n)
          PROVE  n \in DefinedNames \/ Unindexed(n)
      <4>1. PICK k \in 1..Len(objs) : o = objs[k]
        BY DEF Loaded
      <4> QED BY <2>1, <2>3, <3>3, <4>1 DEF PullInv, RoundInv
    <3>4. PullClosed'
      BY <2>1, <3>3, SameObjects DEF PullClosed, Unindexed
    <3> QED BY <3>2, <3>4 DEF PullInv
  <2> QED BY <2>2, <2>3
<1>7. CASE MergeObj \/ Suppress \/ BuildSymVA \/ RelocObj \/ OpenOutput \/ WriteSection
           \/ WriteFails \/ EndWrite
  BY <1>7, QuietPullInv DEF MergeObj, Suppress, BuildSymVA, RelocObj, OpenOutput, WriteSection,
     WriteFails, EndWrite, pulling, Pulled
<1> QED BY <1>1, <1>2, <1>3, <1>4, <1>5, <1>6, <1>7 DEF Next

(* Past the pull loop, every strong undefined reference of a loaded object *)
(* is defined by a loaded object, or no archive could have helped.         *)
THEOREM PullReachesFixpoint == Spec => []PullClosed
<1>1. Init => PullInv
  BY DEF Init, PullInv, UsedLoaded, RoundInv, PullClosed, Pulled
<1>2. PullInv /\ TypeOK /\ UNCHANGED vars => PullInv'
  <2> SUFFICES ASSUME PullInv, UNCHANGED vars PROVE PullInv'
    OBVIOUS
  <2>1. UNCHANGED <<args, objs, archives, used, pc, todo, added>>
    BY DEF vars
  <2> QED BY <2>1, SameObjects DEF PullInv, UsedLoaded, RoundInv, PullClosed, Unindexed
<1>3. PullInv => PullClosed
  BY DEF PullInv
<1> QED BY <1>1, <1>2, <1>3, NextPullInv, TypeCorrect, PTL DEF Spec
=============================================================================
