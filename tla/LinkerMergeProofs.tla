------------------------- MODULE LinkerMergeProofs -------------------------
(***************************************************************************)
(* Proofs about how Linker merges definitions: the incremental tables of   *)
(* linkWithObjs agree with the precedence rules read off all the objects,  *)
(* whatever their number, order and contents.  And about what surrounds    *)
(* the merge: members are loaded on demand, a COMMON slot covers its       *)
(* definitions, references to a name get one address, no indexed           *)
(* definition is missed, and a link that succeeds has written its output.   *)
(***************************************************************************)
EXTENDS LinkerProofs

Strongs(n, k) == {i \in 1..k : StrongDef(objs[i], n)}
Users(n, k)   == {i \in 1..k : StrongDef(objs[i], n) /\ ~fromArchive(objs[i])}
Weaks(n, k)   == {i \in 1..k : WeakDef(objs[i], n)}
Commons(n, k) == {i \in 1..k : CommonDef(objs[i], n)}

(* What the tables say of a name once k objects are merged.                *)
RealOK(n, k) ==
  IF Strongs(n, k) = {} THEN realDef[n] = NoObj
  ELSE \E i \in Strongs(n, k) :
         /\ realDef[n] = objs[i]
         /\ Users(n, k) = {} => \A j \in Strongs(n, k) : j <= i
         /\ \A j \in Users(n, k) : j = i

WeakOK(n, k) ==
  IF Weaks(n, k) = {} THEN weakDef[n] = NoObj
  ELSE \E i \in Weaks(n, k) : weakDef[n] = objs[i] /\ \A j \in Weaks(n, k) : i <= j

CommonOK(n, k) == IsCommon(commons[n]) <=> Commons(n, k) # {}

(* And once the losers are suppressed.                                     *)
SuppressedOK(n) ==
  LET k == Len(objs)
  IN  /\ RealOK(n, k)
      /\ IsCommon(commons[n]) <=> Commons(n, k) # {} /\ Strongs(n, k) = {}
      /\ IF Strongs(n, k) # {} \/ Commons(n, k) # {} THEN weakDef[n] = NoObj
         ELSE WeakOK(n, k)

Untouched ==
  /\ realDef = [n \in Names |-> NoObj]
  /\ weakDef = [n \in Names |-> NoObj]
  /\ commons = [n \in Names |-> NoCommon]

MergeInv ==
  /\ pc \in {"load", "force", "round", "scan"} => Untouched
  /\ pc = "merge" => nxt - 1 \in 0..Len(objs) /\ \A n \in Names :
       RealOK(n, nxt - 1) /\ WeakOK(n, nxt - 1) /\ CommonOK(n, nxt - 1)
  /\ pc = "symva" => \A n \in Names : SuppressedOK(n)
  /\ err # "none" => pc = "error" \/ (pc = "write" /\ err = "write")
  /\ WinnerPrecedence
  /\ DuplicateIffError

-----------------------------------------------------------------------------
(* What an object defines depends on the inputs and objects alone.         *)
LEMMA SameMergeWords ==
  ASSUME UNCHANGED <<args, objs>>
  PROVE  /\ \A o, n : /\ StrongDef(o, n)' = StrongDef(o, n)
                      /\ WeakDef(o, n)' = WeakDef(o, n)
                      /\ CommonDef(o, n)' = CommonDef(o, n)
         /\ \A o : fromArchive(o)' = fromArchive(o)
  BY DEF StrongDef, WeakDef, CommonDef, fromArchive, Tab

(* What a merge step leaves: the sets of the longer prefix.                *)
LEMMA NextPrefix ==
  ASSUME UNCHANGED <<args, objs>>, nxt \in Nat, nxt' = nxt + 1, NEW n
  PROVE  /\ Strongs(n, nxt - 1)' = Strongs(n, nxt) /\ Users(n, nxt - 1)' = Users(n, nxt)
         /\ Weaks(n, nxt - 1)' = Weaks(n, nxt) /\ Commons(n, nxt - 1)' = Commons(n, nxt)
<1>1. nxt' - 1 = nxt
  OBVIOUS
<1> QED BY <1>1, SameMergeWords DEF Strongs, Users, Weaks, Commons

(* An object's id is never the one that stands for "none".                 *)
LEMMA ObjIsObj ==
  ASSUME TypeOK, NEW i \in 1..Len(objs)
  PROVE  objs[i] # NoObj
<1>1. objs[i][1] \in 1..Len(args) /\ Len(args) \in Nat
  BY DEF TypeOK, PullTypes, cmdLine
<1>2. objs[i][1] # 0
  BY <1>1
<1> QED BY <1>2 DEF NoObj

(* One more object merged keeps the strong definitions' table right.       *)
LEMMA MergeReal ==
  ASSUME TypeOK, MergeInv, MergeObj, NEW n \in Names
  PROVE  RealOK(n, nxt - 1)'
<1> DEFINE k == nxt - 1
           o == objs[nxt]
<1>1. /\ pc = "merge" /\ nxt \in 1..Len(objs) /\ UNCHANGED <<args, objs>> /\ nxt' = nxt + 1
      /\ ~Clash(o, n)
      /\ realDef'[n] = IF StrongDef(o, n) THEN Winner(realDef[n], o) ELSE realDef[n]
  BY DEF MergeObj, TypeOK, PullTypes
<1>2. RealOK(n, k)
  BY <1>1 DEF MergeInv
<1>3. k \in Nat /\ nxt = k + 1 /\ nxt \in Nat
  BY <1>1
<1>4. Strongs(n, nxt - 1)' = Strongs(n, nxt) /\ Users(n, nxt - 1)' = Users(n, nxt)
  BY <1>1, <1>3, NextPrefix
<1>5. SUFFICES IF Strongs(n, nxt) = {} THEN realDef'[n] = NoObj
               ELSE \E i \in Strongs(n, nxt) :
                      /\ realDef'[n] = objs[i]
                      /\ Users(n, nxt) = {} => \A j \in Strongs(n, nxt) : j <= i
                      /\ \A j \in Users(n, nxt) : j = i
  BY <1>1, <1>4 DEF RealOK
<1>6. CASE ~StrongDef(o, n)
  <2>1. Strongs(n, nxt) = Strongs(n, k) /\ Users(n, nxt) = Users(n, k)
    BY <1>3, <1>6 DEF Strongs, Users
  <2> QED BY <1>1, <1>2, <1>6, <2>1 DEF RealOK
<1>7. CASE StrongDef(o, n)
  <2>1. /\ Strongs(n, nxt) = Strongs(n, k) \cup {nxt}
        /\ Users(n, nxt) = Users(n, k) \cup (IF fromArchive(o) THEN {} ELSE {nxt})
    BY <1>3, <1>7 DEF Strongs, Users
  <2>2. realDef'[n] = Winner(realDef[n], o)
    BY <1>1, <1>7
  <2>3. \A i \in Strongs(n, k) : i \in Nat /\ i <= nxt /\ i \in 1..Len(objs)
    BY <1>1, <1>3 DEF Strongs
  <2>4. Users(n, k) \subseteq Strongs(n, k)
    BY DEF Strongs, Users
  <2>5. CASE Strongs(n, k) = {}
    <3>1. realDef'[n] = o
      BY <1>2, <2>2, <2>5 DEF RealOK, Winner
    <3> QED BY <1>3, <2>1, <2>4, <2>5, <3>1
  <2>6. CASE Strongs(n, k) # {}
    <3>1. PICK i \in Strongs(n, k) :
             /\ realDef[n] = objs[i]
             /\ Users(n, k) = {} => \A j \in Strongs(n, k) : j <= i
             /\ \A j \in Users(n, k) : j = i
      BY <1>2, <2>6 DEF RealOK
    <3>2. realDef[n] # NoObj
      BY <2>3, <3>1, ObjIsObj
    <3>3. CASE fromArchive(objs[i])
      <4>1. Users(n, k) = {}
        BY <3>1, <3>3 DEF Users
      <4>2. realDef'[n] = o
        BY <2>2, <3>1, <3>3 DEF Winner
      <4> QED BY <1>3, <2>1, <2>3, <4>1, <4>2
    <3>4. CASE ~fromArchive(objs[i])
      <4>1. fromArchive(o)
        BY <1>1, <1>7, <3>1, <3>2, <3>4 DEF Clash
      <4>2. realDef'[n] = objs[i]
        BY <2>2, <3>1, <3>2, <3>4, <4>1 DEF Winner
      <4>3. i \in Users(n, k)
        BY <3>1, <3>4 DEF Users, Strongs
      <4> QED BY <2>1, <3>1, <4>1, <4>2, <4>3
    <3> QED BY <3>3, <3>4
  <2> QED BY <2>5, <2>6
<1> QED BY <1>6, <1>7

(* The first weak definition keeps the name.                               *)
LEMMA MergeWeak ==
  ASSUME TypeOK, MergeInv, MergeObj, NEW n \in Names
  PROVE  WeakOK(n, nxt - 1)'
<1> DEFINE k == nxt - 1
           o == objs[nxt]
<1>1. /\ pc = "merge" /\ nxt \in 1..Len(objs) /\ UNCHANGED <<args, objs>> /\ nxt' = nxt + 1
      /\ weakDef'[n] = IF WeakDef(o, n) /\ weakDef[n] = NoObj THEN o ELSE weakDef[n]
  BY DEF MergeObj, TypeOK, PullTypes
<1>2. WeakOK(n, k)
  BY <1>1 DEF MergeInv
<1>3. k \in Nat /\ nxt = k + 1 /\ nxt \in Nat
  BY <1>1
<1>4. Weaks(n, nxt - 1)' = Weaks(n, nxt)
  BY <1>1, <1>3, NextPrefix
<1>5. SUFFICES IF Weaks(n, nxt) = {} THEN weakDef'[n] = NoObj
               ELSE \E i \in Weaks(n, nxt) :
                      weakDef'[n] = objs[i] /\ \A j \in Weaks(n, nxt) : i <= j
  BY <1>1, <1>4 DEF WeakOK
<1>6. Weaks(n, nxt) = Weaks(n, k) \cup (IF WeakDef(o, n) THEN {nxt} ELSE {})
  BY <1>3 DEF Weaks
<1>7. CASE Weaks(n, k) = {}
  BY <1>1, <1>2, <1>3, <1>6, <1>7 DEF WeakOK
<1>8. CASE Weaks(n, k) # {}
  <2>1. PICK i \in Weaks(n, k) : weakDef[n] = objs[i] /\ \A j \in Weaks(n, k) : i <= j
    BY <1>2, <1>8 DEF WeakOK
  <2>2. i \in Nat /\ i <= nxt /\ i \in 1..Len(objs)
    BY <1>1, <1>3 DEF Weaks
  <2>3. weakDef'[n] = objs[i]
    BY <1>1, <2>1, <2>2, ObjIsObj
  <2> QED BY <1>6, <2>1, <2>2, <2>3
<1> QED BY <1>7, <1>8

(* A name has a COMMON slot exactly when some merged object has it         *)
(* tentatively: the slot's alignment is never 0.                           *)
LEMMA MergeCommon ==
  ASSUME TypeOK, MergeInv, MergeObj, NEW n \in Names
  PROVE  CommonOK(n, nxt - 1)'
<1> DEFINE k == nxt - 1
           o == objs[nxt]
<1>1. /\ pc = "merge" /\ nxt \in 1..Len(objs) /\ UNCHANGED <<args, objs>> /\ nxt' = nxt + 1
      /\ commons'[n] = IF CommonDef(o, n)
                THEN [size  |-> MaxNat(commons[n].size, Tab(o)[n].size),
                      align |-> MaxNat(commons[n].align, CommonAlign(Tab(o)[n].value))]
                ELSE commons[n]
  BY DEF MergeObj, TypeOK, PullTypes
<1>2. CommonOK(n, k)
  BY <1>1 DEF MergeInv
<1>3. k \in Nat /\ nxt = k + 1 /\ nxt \in Nat
  BY <1>1
<1>4. Commons(n, nxt - 1)' = Commons(n, nxt)
  BY <1>1, <1>3, NextPrefix
<1>5. Commons(n, nxt) = Commons(n, k) \cup (IF CommonDef(o, n) THEN {nxt} ELSE {})
  BY <1>3 DEF Commons
<1>6. CASE CommonDef(o, n)
  <2>1. Tab(o)[n] \in lnkSym
    BY <1>1, <1>6, InputFacts DEF TypeOK, PullTypes, Tab, CommonDef
  <2>2. CommonAlign(Tab(o)[n].value) \in Nat \ {0}
    BY <2>1, CommonAlignPositive DEF lnkSym
  <2>3. commons[n].align \in Nat
    BY DEF TypeOK, MergeTypes
  <2>4. MaxNat(commons[n].align, CommonAlign(Tab(o)[n].value)) # 0
    BY <2>2, <2>3 DEF MaxNat
  <2>5. commons'[n].align # 0
    BY <1>1, <1>6, <2>4
  <2>6. commons'[n] # NoCommon
    BY <2>5 DEF NoCommon
  <2> QED BY <1>4, <1>5, <1>6, <2>6 DEF CommonOK, IsCommon
<1>7. CASE ~CommonDef(o, n)
  BY <1>1, <1>2, <1>4, <1>5, <1>7 DEF CommonOK, IsCommon
<1> QED BY <1>6, <1>7

-----------------------------------------------------------------------------
(* Steps that leave the objects, the error and the tables alone.           *)
LEMMA SamePrecedence ==
  ASSUME UNCHANGED <<args, objs>>
  PROVE  /\ \A n \in Names : Precedence(n)' = Precedence(n)
         /\ UserDuplicates' = UserDuplicates
<1>1. \A n \in Names : Precedence(n)' = Precedence(n)
  BY DEF Precedence, StrongDef, WeakDef, CommonDef, fromArchive, Tab
<1>2. UserDuplicates' = UserDuplicates
  BY SameMergeWords DEF UserDuplicates
<1> QED BY <1>1, <1>2

(* Merged strong definitions leave no room for two of explicit objects.    *)
LEMMA RealNoDuplicates ==
  ASSUME TypeOK, \A n \in Names : RealOK(n, Len(objs))
  PROVE  UserDuplicates = {}
<1> SUFFICES ASSUME NEW n \in Names, NEW i \in 1..Len(objs), NEW j \in 1..Len(objs),
                    i \in Users(n, Len(objs)), j \in Users(n, Len(objs))
             PROVE  i = j
  BY DEF UserDuplicates, Users
<1>1. Users(n, Len(objs)) \subseteq Strongs(n, Len(objs))
  BY DEF Users, Strongs
<1> QED BY <1>1 DEF RealOK

(* Suppression turns the merged tables into the final ones.                *)
LEMMA SuppressStep ==
  ASSUME TypeOK, MergeInv, Suppress, NEW n \in Names
  PROVE  SuppressedOK(n)'
<1> DEFINE k == Len(objs)
<1>1. /\ UNCHANGED <<args, objs, realDef>> /\ nxt - 1 = k
      /\ RealOK(n, k) /\ WeakOK(n, k) /\ CommonOK(n, k)
  <2>1. nxt - 1 \in 0..Len(objs) /\ nxt > Len(objs) /\ nxt \in Nat /\ Len(objs) \in Nat
    BY DEF Suppress, MergeInv, TypeOK, PullTypes
  <2>2. nxt - 1 = k
    BY <2>1
  <2> QED BY <2>2 DEF Suppress, MergeInv
<1>2. /\ commons'[n] = IF realDef[n] # NoObj THEN NoCommon ELSE commons[n]
      /\ weakDef'[n] = IF realDef[n] # NoObj \/ IsCommon(commons'[n]) THEN NoObj ELSE weakDef[n]
  BY DEF Suppress
<1>3. /\ Strongs(n, Len(objs))' = Strongs(n, k) /\ Users(n, Len(objs))' = Users(n, k)
      /\ Weaks(n, Len(objs))' = Weaks(n, k) /\ Commons(n, Len(objs))' = Commons(n, k)
  BY <1>1, SameMergeWords DEF Strongs, Users, Weaks, Commons
<1>4. realDef[n] = NoObj <=> Strongs(n, k) = {}
  <2>1. \A i \in Strongs(n, k) : objs[i] # NoObj
    BY ObjIsObj DEF Strongs
  <2> QED BY <1>1, <2>1 DEF RealOK
<1>5. RealOK(n, Len(objs))'
  BY <1>1, <1>3 DEF RealOK
<1>6. IsCommon(commons'[n]) <=> Commons(n, k) # {} /\ Strongs(n, k) = {}
  BY <1>1, <1>2, <1>4 DEF CommonOK, IsCommon
<1>7. CASE Strongs(n, k) # {} \/ Commons(n, k) # {}
  <2>1. weakDef'[n] = NoObj
    BY <1>2, <1>4, <1>6, <1>7
  <2> QED BY <1>3, <1>5, <1>6, <1>7, <2>1 DEF SuppressedOK, IsCommon
<1>8. CASE Strongs(n, k) = {} /\ Commons(n, k) = {}
  <2>1. weakDef'[n] = weakDef[n]
    BY <1>2, <1>4, <1>6, <1>8
  <2>2. WeakOK(n, Len(objs))'
    BY <1>1, <1>3, <2>1 DEF WeakOK
  <2> QED BY <1>3, <1>5, <1>6, <1>8, <2>2 DEF SuppressedOK, IsCommon
<1> QED BY <1>7, <1>8

(* The final tables give every name the address precedence gives it.       *)
LEMMA BuildStep ==
  ASSUME TypeOK, MergeInv, BuildSymVA, NEW n \in Names
  PROVE  {symVA'[n]} = Precedence(n)
<1> DEFINE k == Len(objs)
<1>1. /\ SuppressedOK(n)
      /\ symVA'[n] = IF IsCommon(commons[n])      THEN CommonVA(n)
           ELSE IF realDef[n] # NoObj   THEN DefVA(realDef[n], n)
           ELSE IF weakDef[n] # NoObj   THEN DefVA(weakDef[n], n)
           ELSE IF n \in Helpers        THEN HelperVA(n)
           ELSE NoVA
  BY DEF BuildSymVA, MergeInv
<1>2. Precedence(n) =
        IF Users(n, k) # {}        THEN {DefVA(objs[i], n) : i \in Users(n, k)}
        ELSE IF Strongs(n, k) # {}
          THEN {DefVA(objs[i], n) : i \in {m \in Strongs(n, k) : \A j \in Strongs(n, k) : j <= m}}
        ELSE IF Commons(n, k) # {} THEN {CommonVA(n)}
        ELSE IF Weaks(n, k) # {}
          THEN {DefVA(objs[i], n) : i \in {m \in Weaks(n, k) : \A j \in Weaks(n, k) : m <= j}}
        ELSE IF n \in Helpers THEN {HelperVA(n)}
        ELSE {NoVA}
  BY DEF Precedence, Users, Strongs, Weaks, Commons
<1>3. Users(n, k) \subseteq Strongs(n, k) /\ Strongs(n, k) \subseteq Nat /\ Weaks(n, k) \subseteq Nat
  BY DEF Users, Strongs, Weaks
<1>4. \A i \in Strongs(n, k) \cup Weaks(n, k) : objs[i] # NoObj
  BY ObjIsObj DEF Strongs, Weaks
<1>5. CASE Strongs(n, k) # {}
  <2>1. PICK i \in Strongs(n, k) :
             /\ realDef[n] = objs[i]
             /\ Users(n, k) = {} => \A j \in Strongs(n, k) : j <= i
             /\ \A j \in Users(n, k) : j = i
    BY <1>1, <1>5 DEF SuppressedOK, RealOK
  <2>2. symVA'[n] = DefVA(objs[i], n)
    BY <1>1, <1>4, <1>5, <2>1 DEF SuppressedOK
  <2>3. CASE Users(n, k) # {}
    <3>1. Users(n, k) = {i}
      BY <2>1, <2>3
    <3> QED BY <1>2, <2>2, <3>1
  <2>4. CASE Users(n, k) = {}
    <3>1. {m \in Strongs(n, k) : \A j \in Strongs(n, k) : j <= m} = {i}
      BY <1>3, <2>1, <2>4
    <3> QED BY <1>2, <1>5, <2>2, <2>4, <3>1
  <2> QED BY <2>3, <2>4
<1>6. CASE Strongs(n, k) = {} /\ Commons(n, k) # {}
  BY <1>1, <1>2, <1>3, <1>6 DEF SuppressedOK
<1>7. CASE Strongs(n, k) = {} /\ Commons(n, k) = {} /\ Weaks(n, k) # {}
  <2>1. PICK i \in Weaks(n, k) : weakDef[n] = objs[i] /\ \A j \in Weaks(n, k) : i <= j
    BY <1>1, <1>7 DEF SuppressedOK, WeakOK
  <2>2. symVA'[n] = DefVA(objs[i], n)
    BY <1>1, <1>4, <1>7, <2>1 DEF SuppressedOK, RealOK
  <2>3. {m \in Weaks(n, k) : \A j \in Weaks(n, k) : m <= j} = {i}
    BY <1>3, <2>1
  <2> QED BY <1>2, <1>3, <1>7, <2>2, <2>3
<1>8. CASE Strongs(n, k) = {} /\ Commons(n, k) = {} /\ Weaks(n, k) = {}
  BY <1>1, <1>2, <1>3, <1>8 DEF SuppressedOK, RealOK, WeakOK
<1> QED BY <1>5, <1>6, <1>7, <1>8

(* The error and the properties, for a step that neither enters nor leaves *)
(* the merge and does not fail.                                            *)
LEMMA QuietMergeInv ==
  ASSUME MergeInv, UNCHANGED <<args, objs, symVA, err>>, pc' # "merge", pc' # "symva",
         pc' \in {"load", "force", "round", "scan"} => Untouched',
         pc' \in {"entry", "reloc", "write", "done"} => pc \in {"entry", "reloc", "write", "done"},
         err # "none" => pc' = "error"
  PROVE  MergeInv'
<1>1. WinnerPrecedence'
  BY SamePrecedence DEF MergeInv, WinnerPrecedence
<1>2. DuplicateIffError'
  BY SamePrecedence DEF MergeInv, DuplicateIffError
<1> QED BY <1>1, <1>2 DEF MergeInv

(* One step of the linker.                                                 *)
LEMMA NextMergeInv ==
  ASSUME TypeOK, MergeInv, Next
  PROVE  MergeInv'
<1>1. CASE LoadInput \/ ForcePull \/ StartRound \/ \E r \in todo : ScanRef(r)
  <2>1. /\ pc \in {"load", "force", "round", "scan"} /\ pc' \in {"load", "force", "round", "scan"}
        /\ UNCHANGED <<realDef, weakDef, commons, err>>
    BY <1>1 DEF LoadInput, ForcePull, StartRound, ScanRef, merged
  <2>2. err = "none"
    BY <2>1 DEF MergeInv
  <2>3. Untouched'
    BY <2>1 DEF MergeInv, Untouched
  <2> QED BY <2>1, <2>2, <2>3 DEF MergeInv, WinnerPrecedence, DuplicateIffError
<1>2. CASE LoadError \/ NoMainError \/ NoStdioInitError \/ OpenError
  <2>1. /\ pc' = "error" /\ pc # "error" /\ UNCHANGED <<args, objs>> /\ err' # "duplicate"
    BY <1>2 DEF LoadError, NoMainError, NoStdioInitError, OpenError, Fail
  <2> QED BY <2>1 DEF MergeInv, WinnerPrecedence, DuplicateIffError
<1>3. CASE LoadEnd \/ ForceEnd
  <2>1. /\ pc \in {"load", "force"} /\ pc' \in {"force", "round"}
        /\ UNCHANGED <<args, objs, realDef, weakDef, commons, symVA, err>>
    BY <1>3 DEF LoadEnd, ForceEnd, merged
  <2>2. Untouched' /\ err = "none"
    BY <2>1 DEF MergeInv, Untouched
  <2> QED BY <2>1, <2>2, QuietMergeInv
<1>4. CASE EndRound
  <2>1. /\ pc = "scan" /\ UNCHANGED <<args, objs, realDef, weakDef, commons, symVA, err>>
        /\ err = "none" /\ Untouched
    BY <1>4 DEF EndRound, merged, MergeInv
  <2>2. Untouched'
    BY <2>1 DEF Untouched
  <2>3. CASE pc' = "round"
    BY <2>1, <2>2, <2>3, QuietMergeInv
  <2>4. CASE pc' = "merge" /\ nxt' = 1
    <3>1. nxt' - 1 = 0
      BY <2>4
    <3>2. ASSUME NEW n \in Names
          PROVE  (RealOK(n, nxt - 1) /\ WeakOK(n, nxt - 1) /\ CommonOK(n, nxt - 1))'
      <4>1. realDef'[n] = NoObj /\ weakDef'[n] = NoObj /\ commons'[n] = NoCommon
        BY <2>2 DEF Untouched
      <4>2. /\ Strongs(n, nxt - 1)' = {} /\ Weaks(n, nxt - 1)' = {} /\ Commons(n, nxt - 1)' = {}
        BY <3>1 DEF Strongs, Weaks, Commons
      <4> QED BY <4>1, <4>2 DEF RealOK, WeakOK, CommonOK, IsCommon, NoCommon
    <3>3. nxt' - 1 \in 0..Len(objs')
      BY <2>1, <3>1 DEF TypeOK, PullTypes
    <3> QED BY <2>1, <2>4, <3>2, <3>3 DEF MergeInv, WinnerPrecedence, DuplicateIffError
  <2> QED BY <1>4, <2>3, <2>4 DEF EndRound
<1>5. CASE MergeObj
  <2>1. /\ pc = "merge" /\ pc' = "merge" /\ UNCHANGED <<args, objs, err>> /\ nxt' = nxt + 1
        /\ nxt <= Len(objs) /\ nxt \in Nat \ {0} /\ Len(objs) \in Nat
    BY <1>5 DEF MergeObj, TypeOK, PullTypes
  <2>2. err = "none"
    BY <2>1 DEF MergeInv
  <2>3. nxt' - 1 \in 0..Len(objs')
    BY <2>1
  <2> QED BY <1>5, <2>1, <2>2, <2>3, MergeReal, MergeWeak, MergeCommon
          DEF MergeInv, WinnerPrecedence, DuplicateIffError
<1>6. CASE DuplicateError
  <2>1. /\ pc = "merge" /\ pc' = "error" /\ UNCHANGED <<args, objs>> /\ nxt <= Len(objs)
    BY <1>6 DEF DuplicateError, Fail
  <2>2. PICK n \in Names : Clash(objs[nxt], n)
    BY <1>6 DEF DuplicateError
  <2>3. RealOK(n, nxt - 1) /\ nxt \in Nat \ {0} /\ Len(objs) \in Nat
    BY <2>1 DEF MergeInv, TypeOK, PullTypes
  <2>4. Strongs(n, nxt - 1) # {}
    BY <2>2, <2>3 DEF RealOK, Clash
  <2>5. PICK i \in Strongs(n, nxt - 1) : realDef[n] = objs[i]
    BY <2>3, <2>4 DEF RealOK
  <2>6. i \in 1..Len(objs) /\ nxt \in 1..Len(objs) /\ i # nxt /\ StrongDef(objs[i], n)
    BY <2>1, <2>3 DEF Strongs
  <2>7. n \in UserDuplicates
    BY <2>2, <2>5, <2>6 DEF UserDuplicates, Clash
  <2>8. UserDuplicates' # {}
    BY <2>1, <2>7, SamePrecedence
  <2> QED BY <2>1, <2>8 DEF MergeInv, WinnerPrecedence, DuplicateIffError
<1>7. CASE Suppress
  <2>1. /\ pc = "merge" /\ pc' = "symva" /\ UNCHANGED <<args, objs, err>> /\ err = "none"
    BY <1>7 DEF Suppress, MergeInv
  <2>2. \A n \in Names : SuppressedOK(n)'
    BY <1>7, SuppressStep
  <2>3. UserDuplicates = {}
    <3>1. nxt - 1 = Len(objs)
      BY <1>7 DEF Suppress, MergeInv, TypeOK, PullTypes
    <3> QED BY <2>1, <3>1, RealNoDuplicates DEF MergeInv
  <2>4. UserDuplicates' = {}
    BY <2>1, <2>3, SamePrecedence
  <2> QED BY <2>1, <2>2, <2>4 DEF MergeInv, WinnerPrecedence, DuplicateIffError
<1>8. CASE BuildSymVA
  <2>1. /\ pc = "symva" /\ pc' = "entry" /\ UNCHANGED <<args, objs, err>> /\ err = "none"
    BY <1>8 DEF BuildSymVA, MergeInv
  <2>2. \A n \in Names : {symVA'[n]} = Precedence(n)'
    BY <1>8, <2>1, BuildStep, SamePrecedence
  <2>3. UserDuplicates' = {}
    BY <2>1, SamePrecedence DEF MergeInv, DuplicateIffError
  <2> QED BY <2>1, <2>2, <2>3 DEF MergeInv, WinnerPrecedence, DuplicateIffError
<1>9. CASE ResolveEntry \/ RelocObj \/ OpenOutput \/ EndWrite
  <2>1. /\ pc \in {"entry", "reloc", "write"} /\ pc' \in {"reloc", "write", "done", "error"}
        /\ UNCHANGED <<args, objs, symVA, err>>
        /\ pc = "write" /\ err # "none" => pc' = "error"
    BY <1>9 DEF ResolveEntry, RelocObj, OpenOutput, EndWrite, merged
  <2>2. err # "none" => pc' = "error"
    BY <2>1 DEF MergeInv
  <2> QED BY <2>1, <2>2, QuietMergeInv
<1>10. CASE WriteSection \/ WriteFails
  <2>1. /\ pc = "write" /\ pc' = "write" /\ UNCHANGED <<args, objs, symVA>>
        /\ err' \in {"none", "write", err}
    BY <1>10 DEF WriteSection, WriteFails
  <2>2. err \in {"none", "write"} /\ err' \in {"none", "write"}
    BY <2>1 DEF MergeInv
  <2>3. WinnerPrecedence'
    BY <2>1, SamePrecedence DEF MergeInv, WinnerPrecedence
  <2>4. DuplicateIffError'
    BY <2>1, <2>2, SamePrecedence DEF MergeInv, DuplicateIffError
  <2> QED BY <2>1, <2>2, <2>3, <2>4 DEF MergeInv
<1> QED BY <1>1, <1>2, <1>3, <1>4, <1>5, <1>6, <1>7, <1>8, <1>9, <1>10 DEF Next

(* The merge tables' invariant holds of every link.                        *)
LEMMA MergeInvariant == Spec => []MergeInv
<1>1. Init => MergeInv
  BY DEF Init, MergeInv, Untouched, WinnerPrecedence, DuplicateIffError
<1>2. MergeInv /\ UNCHANGED vars => MergeInv'
  <2> SUFFICES ASSUME MergeInv, UNCHANGED vars PROVE MergeInv'
    OBVIOUS
  <2>1. UNCHANGED <<args, pc, nxt, objs, realDef, weakDef, commons, symVA, err>>
    BY DEF vars
  <2>2. WinnerPrecedence' /\ DuplicateIffError' /\ (err # "none" => pc = "error" \/ (pc = "write" /\ err = "write"))'
    BY <2>1, SamePrecedence DEF MergeInv, WinnerPrecedence, DuplicateIffError
  <2>3. (pc \in {"load", "force", "round", "scan"} => Untouched)'
    BY <2>1 DEF MergeInv, Untouched
  <2>4. (pc = "merge" => nxt - 1 \in 0..Len(objs) /\ \A n \in Names :
           RealOK(n, nxt - 1) /\ WeakOK(n, nxt - 1) /\ CommonOK(n, nxt - 1))'
    BY <2>1, SameMergeWords DEF MergeInv, RealOK, WeakOK, CommonOK, IsCommon, Strongs, Users, Weaks, Commons
  <2>5. (pc = "symva" => \A n \in Names : SuppressedOK(n))'
    BY <2>1, SameMergeWords DEF MergeInv, SuppressedOK, RealOK, WeakOK, IsCommon, Strongs, Users, Weaks, Commons
  <2> QED BY <2>2, <2>3, <2>4, <2>5 DEF MergeInv
<1> QED BY <1>1, <1>2, NextMergeInv, TypeCorrect, PTL DEF Spec

(* "ALL references resolve to the single chosen winner": the global symbol *)
(* table is the one the precedence rules define.                           *)
THEOREM WinnerIsPrecedence == Spec => []WinnerPrecedence
<1>1. MergeInv => WinnerPrecedence
  BY DEF MergeInv
<1> QED BY <1>1, MergeInvariant, PTL

(* The linker reports a duplicate definition exactly when two explicit     *)
(* objects define a name strongly.                                         *)
THEOREM DuplicatesReported == Spec => []DuplicateIffError
<1>1. MergeInv => DuplicateIffError
  BY DEF MergeInv
<1> QED BY <1>1, MergeInvariant, PTL

-----------------------------------------------------------------------------
(* The output file.                                                        *)

(* What the writes have done: without a failure the sections so far, and  *)
(* after one a beginning of them with perhaps a part of the next.          *)
SectionNames == {"headers", "code", "rodata", "data", "part", "previous"}
Beginning ==
  \A i \in 1..Len(out) : out[i] = Image[i] \/ (err = "write" /\ i = Len(out))
OutputInv ==
  /\ out \in Seq(SectionNames)
  /\ pc = "write" \/ err = "write" => Len(out) <= 4 /\ Beginning
  /\ pc = "write" => nxt \in 1..5 /\ err \in {"none", "write"}
  /\ pc = "write" /\ err = "none" => Len(out) = nxt - 1
  /\ pc \notin {"write", "error"} => err = "none"
  /\ pc = "done" => out = Image

(* The first step on the output truncates it; each write keeps the         *)
(* beginning a beginning.                                                  *)
LEMMA NextOutputInv ==
  ASSUME OutputInv, Next
  PROVE  OutputInv'
<1>1. CASE LoadError \/ DuplicateError \/ NoMainError \/ NoStdioInitError \/ OpenError
  <2>1. /\ pc \notin {"write", "error"} /\ pc' = "error" /\ out' = out
        /\ err' \in {"load", "duplicate", "undefined main", "undefined label", "open"}
    BY <1>1 DEF LoadError, DuplicateError, NoMainError, NoStdioInitError, OpenError, Fail, merged
  <2> QED BY <2>1 DEF OutputInv
<1>2. CASE \/ LoadInput \/ LoadEnd \/ ForcePull \/ ForceEnd \/ StartRound
           \/ (\E r \in todo : ScanRef(r)) \/ EndRound \/ MergeObj \/ Suppress
           \/ BuildSymVA \/ ResolveEntry \/ RelocObj
  <2>1. /\ pc \notin {"write", "done", "error"} /\ pc' \notin {"write", "done", "error"}
        /\ UNCHANGED <<out, err>>
    BY <1>2 DEF LoadInput, LoadEnd, ForcePull, ForceEnd, StartRound, ScanRef, EndRound,
       MergeObj, Suppress, BuildSymVA, ResolveEntry, RelocObj, merged
  <2> QED BY <2>1 DEF OutputInv
<1>3. CASE OpenOutput
  <2>1. pc = "reloc" /\ pc' = "write" /\ nxt' = 1 /\ out' = <<>> /\ err' = err
    BY <1>3 DEF OpenOutput
  <2>2. out' \in Seq(SectionNames) /\ Len(out') = 0
    BY <2>1
  <2> QED BY <2>1, <2>2 DEF OutputInv, Beginning
<1>4. CASE WriteSection \/ WriteFails
  <2>1. /\ pc = "write" /\ pc' = "write" /\ nxt' = nxt + 1 /\ nxt \in 1..4
        /\ out \in Seq(SectionNames) /\ Len(out) <= 4 /\ Beginning
        /\ err \in {"none", "write"} /\ (err = "none" => Len(out) = nxt - 1)
    BY <1>4 DEF WriteSection, WriteFails, Image, OutputInv
  <2>2. nxt' \in 1..5
    BY <2>1
  <2>3. CASE err = "write"
    <3>1. UNCHANGED <<out, err>>
      BY <1>4, <2>3 DEF WriteSection, WriteFails, MayWrite
    <3> QED BY <2>1, <2>2, <2>3, <3>1 DEF OutputInv, Beginning
  <2>4. CASE err = "none"
    <3>1. \A i \in 1..Len(out) : out[i] = Image[i]
      BY <2>1, <2>4 DEF Beginning
    <3>2. Image[nxt] \in SectionNames
      BY <2>1 DEF Image, SectionNames
    <3>3. ASSUME NEW w \in SectionNames, out' = Append(out, w)
          PROVE  /\ out' \in Seq(SectionNames) /\ Len(out') = nxt /\ out'[nxt] = w
                 /\ \A i \in 1..(nxt - 1) : out'[i] = Image[i]
      BY <2>1, <2>4, <3>1, <3>3
    <3>4. CASE WriteSection
      <4>1. out' = Append(out, Image[nxt]) /\ err' = "none"
        BY <2>4, <3>4 DEF WriteSection, MayWrite
      <4>2. /\ out' \in Seq(SectionNames) /\ Len(out') = nxt /\ out'[nxt] = Image[nxt]
            /\ \A i \in 1..(nxt - 1) : out'[i] = Image[i]
        BY <3>2, <3>3, <4>1
      <4>3. \A i \in 1..Len(out') : out'[i] = Image[i]
        BY <2>1, <4>2
      <4> QED BY <2>1, <2>2, <4>1, <4>2, <4>3 DEF OutputInv, Beginning
    <3>5. CASE WriteFails /\ out' = out
      <4>1. err' = "write"
        BY <3>5 DEF WriteFails
      <4> QED BY <2>1, <2>2, <3>1, <3>5, <4>1 DEF OutputInv, Beginning
    <3>6. CASE WriteFails /\ out' = Append(out, "part")
      <4>1. err' = "write" /\ "part" \in SectionNames
        BY <3>6 DEF WriteFails, SectionNames
      <4>2. /\ out' \in Seq(SectionNames) /\ Len(out') = nxt
            /\ \A i \in 1..(nxt - 1) : out'[i] = Image[i]
        BY <3>3, <3>6, <4>1
      <4>3. \A i \in 1..Len(out') : out'[i] = Image[i] \/ i = Len(out')
        BY <2>1, <4>2
      <4> QED BY <2>1, <2>2, <4>1, <4>2, <4>3 DEF OutputInv, Beginning
    <3> QED BY <1>4, <3>4, <3>5, <3>6 DEF WriteFails
  <2> QED BY <2>1, <2>3, <2>4
<1>5. CASE EndWrite
  <2>1. /\ pc = "write" /\ nxt > 4 /\ UNCHANGED <<out, err>>
        /\ pc' = IF err = "none" THEN "done" ELSE "error"
    BY <1>5 DEF EndWrite, Image, merged
  <2>2. ASSUME err = "none" PROVE out = Image
    <3>1. out \in Seq(SectionNames) /\ Len(out) = 4 /\ \A i \in 1..4 : out[i] = Image[i]
      BY <2>1, <2>2 DEF OutputInv, Beginning
    <3> QED BY <3>1 DEF Image
  <2> QED BY <2>1, <2>2 DEF OutputInv, Beginning
<1> QED BY <1>1, <1>2, <1>3, <1>4, <1>5 DEF Next

(* A link that linkWithObjs reports as done has written every section in   *)
(* its place, and one that fails while writing leaves a beginning of them: *)
(* no failed write is followed by another one.                             *)
THEOREM OutputIsWhole == Spec => []OutputWhole
<1>1. Init => OutputInv
  <2> SUFFICES ASSUME Init PROVE OutputInv
    OBVIOUS
  <2>1. pc = "load" /\ err = "none" /\ out = <<"previous">>
    BY DEF Init
  <2>2. out \in Seq(SectionNames)
    BY <2>1 DEF SectionNames
  <2> QED BY <2>1, <2>2 DEF OutputInv
<1>2. OutputInv /\ UNCHANGED vars => OutputInv'
  BY DEF OutputInv, Beginning, vars
<1>3. OutputInv => OutputWhole
  BY DEF OutputInv, OutputWhole, Beginning
<1> QED BY <1>1, <1>2, <1>3, NextOutputInv, PTL DEF Spec

-----------------------------------------------------------------------------
(* Members are pulled on demand.                                           *)

(* What a round has still to look at are references of loaded objects to   *)
(* names no explicit object defines: members pulled meanwhile come from    *)
(* archives.                                                               *)
DemandInv ==
  pc = "scan" => \A r \in todo :
    /\ Undefined(objs[r[1]], r[2])
    /\ \A o \in Loaded : fromArchive(o) \/ ~Defines(o, r[2])

(* What ScanRef appends, when it appends anything.                         *)
LEMMA ScanPulls ==
  ASSUME TypeOK, NEW r \in todo, ScanRef(r), Resolvers(r[2]) # {}
  PROVE  \E o \in ObjId :
           /\ objs' = Append(objs, o) /\ o[1] \in 1..Len(args) /\ o[2] \in 1..Len(args[o[1]].mem)
           /\ fromArchive(o) /\ Defines(o, r[2])
<1> DEFINE a == CHOOSE a \in Resolvers(r[2]) : \A b \in Resolvers(r[2]) : a <= b
           o == <<archives[a], symMap(archives[a], r[2])>>
<1>1. r[2] \in Names /\ Len(archives) \in Nat
  BY DEF TypeOK, PullTypes
<1>2. a \in Resolvers(r[2])
  BY <1>1, FirstResolver
<1>3. a \in 1..Len(archives)
  BY <1>2 DEF Resolvers
<1>4. archives[a] \in 1..Len(args) /\ args[archives[a]].kind = "ar"
  BY <1>3 DEF TypeOK, PullTypes
<1>5. symMap(archives[a], r[2]) \in 1..Len(args[archives[a]].mem) /\ Defines(o, r[2])
  BY <1>1, <1>2, ResolverFacts
<1>6. objs' = Append(objs, o)
  BY DEF ScanRef, Pull
<1>7. o \in ObjId
  BY <1>4, <1>5 DEF ObjId
<1> HIDE DEF a
<1> QED BY <1>4, <1>5, <1>6, <1>7 DEF fromArchive

(* One step of the linker keeps the round's references wanted.             *)
LEMMA NextDemandInv ==
  ASSUME TypeOK, DemandInv, Next
  PROVE  DemandInv'
<1>1. CASE StartRound
  <2>1. /\ UNCHANGED <<args, objs, archives>>
        /\ todo' = {r \in (1..Len(objs)) \X Names :
                      Undefined(objs[r[1]], r[2]) /\ r[2] \notin DefinedNames}
    BY <1>1 DEF StartRound
  <2>2. /\ Loaded' = Loaded /\ \A o, n : Undefined(o, n)' = Undefined(o, n)
        /\ \A o, n : Defines(o, n)' = Defines(o, n)
    BY <2>1, SameObjects DEF Defines, Tab
  <2> QED BY <2>1, <2>2 DEF DemandInv, DefinedNames
<1>2. ASSUME NEW r \in todo, ScanRef(r) PROVE DemandInv'
  <2>1. pc = "scan" /\ args' = args /\ todo' \subseteq todo /\ todo \subseteq (1..Len(objs)) \X Names
    BY <1>2 DEF ScanRef, TypeOK, PullTypes
  <2>2. \A o, n : /\ Undefined(o, n)' = Undefined(o, n) /\ Defines(o, n)' = Defines(o, n)
                  /\ fromArchive(o)' = fromArchive(o)
    BY <2>1 DEF Undefined, Defines, Tab, fromArchive
  <2>3. CASE Resolvers(r[2]) = {}
    <3>1. objs' = objs
      BY <1>2, <2>3 DEF ScanRef
    <3>2. Loaded' = Loaded
      BY <3>1 DEF Loaded
    <3> QED BY <2>1, <2>2, <3>1, <3>2 DEF DemandInv
  <2>4. CASE Resolvers(r[2]) # {}
    <3>1. PICK o \in ObjId : objs' = Append(objs, o) /\ fromArchive(o)
      BY <1>2, <2>4, ScanPulls
    <3>2. objs \in Seq(ObjId)
      BY DEF TypeOK, PullTypes
    <3>3. /\ Len(objs) \in Nat /\ Len(objs') = Len(objs) + 1
          /\ \A i \in 1..Len(objs) : objs'[i] = objs[i]
          /\ \A i \in 1..Len(objs') : i \in 1..Len(objs) \/ objs'[i] = o
      BY <3>1, <3>2
    <3>4. \A x \in Loaded' : x \in Loaded \/ x = o
      BY <3>3 DEF Loaded
    <3>5. \A q \in todo' : q \in todo /\ objs'[q[1]] = objs[q[1]]
      BY <2>1, <3>3
    <3> QED BY <2>1, <2>2, <3>1, <3>4, <3>5 DEF DemandInv
  <2> QED BY <2>3, <2>4
<1>3. CASE ~StartRound /\ ~\E r \in todo : ScanRef(r)
  <2>1. pc' # "scan"
    BY <1>3 DEF Next, LoadInput, LoadError, LoadEnd, ForcePull, ForceEnd, EndRound, MergeObj,
       DuplicateError, Suppress, BuildSymVA, ResolveEntry, NoMainError, NoStdioInitError,
       RelocObj, OpenOutput, OpenError, WriteSection, WriteFails, EndWrite, Fail
  <2> QED BY <2>1 DEF DemandInv
<1> QED BY <1>1, <1>2, <1>3

(* "Archive members are lazy-linked": the pull loop adds a member only for *)
(* a name some loaded object needs and no explicit object defines.         *)
THEOREM MembersPulledOnDemand == Spec => PullOnDemand
<1> DEFINE Wanted ==
      pc = "scan" /\ objs' # objs =>
       LET m == objs'[Len(objs')]
       IN  \E n \in Names :
             /\ Defines(m, n)
             /\ \E o \in Loaded : Undefined(o, n)
             /\ \A o \in Loaded :
                  fromArchive(o) \/ ~(StrongDef(o, n) \/ CommonDef(o, n) \/ WeakDef(o, n))
<1>1. Init => DemandInv
  BY DEF Init, DemandInv
<1>2. DemandInv /\ UNCHANGED vars => DemandInv'
  BY DEF DemandInv, vars, Undefined, Defines, Tab, fromArchive, Loaded
<1>3. TypeOK /\ DemandInv /\ [Next]_vars => [Wanted]_vars
  <2> SUFFICES ASSUME TypeOK, DemandInv, Next, pc = "scan", objs' # objs
               PROVE  Wanted
    OBVIOUS
  <2>1. PICK r \in todo : ScanRef(r)
    BY DEF Next, LoadInput, LoadError, LoadEnd, ForcePull, ForceEnd, StartRound, EndRound, MergeObj,
       DuplicateError, Suppress, BuildSymVA, ResolveEntry, NoMainError, NoStdioInitError,
       RelocObj, OpenOutput, OpenError, WriteSection, WriteFails, EndWrite, Fail
  <2>2. Resolvers(r[2]) # {}
    BY <2>1 DEF ScanRef
  <2>3. PICK o \in ObjId : objs' = Append(objs, o) /\ Defines(o, r[2])
    BY <2>1, <2>2, ScanPulls
  <2>4. objs'[Len(objs')] = o
    BY <2>3 DEF TypeOK, PullTypes
  <2>5. r[1] \in 1..Len(objs) /\ r[2] \in Names
    BY <2>1 DEF TypeOK, PullTypes
  <2>6. objs[r[1]] \in Loaded
    BY <2>5 DEF Loaded
  <2>7. \A p \in Loaded : ~Defines(p, r[2]) =>
          ~(StrongDef(p, r[2]) \/ CommonDef(p, r[2]) \/ WeakDef(p, r[2]))
    BY DEF Defines, isLinkableDef, StrongDef, CommonDef, WeakDef, Storage
  <2> QED BY <2>1, <2>3, <2>4, <2>5, <2>6, <2>7 DEF DemandInv
<1> QED BY <1>1, <1>2, <1>3, NextDemandInv, TypeCorrect, PTL DEF Spec, PullOnDemand

-----------------------------------------------------------------------------
(* COMMON slots.                                                           *)

(* The slot of a name covers every tentative definition among the first k  *)
(* objects, and is as large as one of them.                                *)
CoverOK(n, k) ==
  /\ \A i \in Commons(n, k) :
       /\ Tab(objs[i])[n].size <= commons[n].size
       /\ CommonAlign(Tab(objs[i])[n].value) <= commons[n].align
  /\ Commons(n, k) # {} => \E i \in Commons(n, k) : Tab(objs[i])[n].size = commons[n].size

CoverInv ==
  /\ pc = "merge" => \A n \in Names : CoverOK(n, nxt - 1)
  /\ pc \in {"symva", "entry", "reloc", "write", "done"} =>
       \A n \in Names : IsCommon(commons[n]) => CoverOK(n, Len(objs)) /\ Commons(n, Len(objs)) # {}

(* One more object merged keeps the slot of a name large enough.           *)
LEMMA MergeCover ==
  ASSUME TypeOK, MergeInv, CoverInv, MergeObj, NEW n \in Names
  PROVE  CoverOK(n, nxt - 1)'
<1> DEFINE k == nxt - 1
           o == objs[nxt]
           was == commons[n]
           now == commons'[n]
<1>1. /\ pc = "merge" /\ nxt \in 1..Len(objs) /\ UNCHANGED <<args, objs>> /\ nxt' = nxt + 1
      /\ now = IF CommonDef(o, n)
               THEN [size  |-> MaxNat(was.size, Tab(o)[n].size),
                     align |-> MaxNat(was.align, CommonAlign(Tab(o)[n].value))]
               ELSE was
  BY DEF MergeObj, TypeOK, PullTypes
<1>2. CoverOK(n, k) /\ CommonOK(n, k)
  BY <1>1 DEF CoverInv, MergeInv
<1>3. k \in Nat /\ nxt = k + 1 /\ nxt \in Nat
  BY <1>1
<1>4. Commons(n, nxt - 1)' = Commons(n, nxt)
  BY <1>1, <1>3, NextPrefix
<1>5. Commons(n, nxt) = Commons(n, k) \cup (IF CommonDef(o, n) THEN {nxt} ELSE {})
  BY <1>3 DEF Commons
<1>6. \A i \in Commons(n, nxt) :
        /\ Tab(objs[i])[n].size \in Nat
        /\ CommonAlign(Tab(objs[i])[n].value) \in Nat
  <2> SUFFICES ASSUME NEW i \in Commons(n, nxt)
               PROVE  /\ Tab(objs[i])[n].size \in Nat
                      /\ CommonAlign(Tab(objs[i])[n].value) \in Nat
    OBVIOUS
  <2>1. i \in 1..Len(objs) /\ n \in DOMAIN Tab(objs[i])
    BY <1>1 DEF Commons, CommonDef
  <2>2. Tab(objs[i])[n] \in lnkSym
    BY <2>1, InputFacts DEF TypeOK, PullTypes, Tab
  <2> QED BY <2>2, CommonAlignPositive DEF lnkSym
<1>7. was.size \in Nat /\ was.align \in Nat
  BY DEF TypeOK, MergeTypes
<1>8. \A e : Tab(e)' = Tab(e)
  BY <1>1 DEF Tab
<1> SUFFICES /\ \A i \in Commons(n, nxt) :
                  /\ Tab(objs[i])[n].size <= now.size
                  /\ CommonAlign(Tab(objs[i])[n].value) <= now.align
             /\ Commons(n, nxt) # {} => \E i \in Commons(n, nxt) : Tab(objs[i])[n].size = now.size
  BY <1>1, <1>4, <1>8 DEF CoverOK
<1>9. CASE ~CommonDef(o, n)
  <2>1. now = was /\ Commons(n, nxt) = Commons(n, k)
    BY <1>1, <1>5, <1>9
  <2> QED BY <1>2, <2>1 DEF CoverOK
<1>10. CASE CommonDef(o, n)
  <2> DEFINE sz == Tab(o)[n].size
             al == CommonAlign(Tab(o)[n].value)
  <2>1. nxt \in Commons(n, nxt) /\ sz \in Nat /\ al \in Nat
    BY <1>5, <1>6, <1>10
  <2>2. now.size = MaxNat(was.size, sz) /\ now.align = MaxNat(was.align, al)
    BY <1>1, <1>10
  <2> HIDE DEF sz, al, now, was
  <2>3. /\ now.size \in Nat /\ now.align \in Nat
        /\ was.size <= now.size /\ was.align <= now.align
        /\ sz <= now.size /\ al <= now.align
        /\ now.size = was.size \/ now.size = sz
        /\ was.size = 0 => now.size = sz
    BY <1>7, <2>1, <2>2 DEF MaxNat
  <2>4. ASSUME NEW i \in Commons(n, nxt)
        PROVE  /\ Tab(objs[i])[n].size <= now.size
               /\ CommonAlign(Tab(objs[i])[n].value) <= now.align
    <3>1. CASE i = nxt
      BY <2>3, <3>1 DEF sz, al
    <3>2. CASE i # nxt
      <4>1. /\ Tab(objs[i])[n].size <= was.size
            /\ CommonAlign(Tab(objs[i])[n].value) <= was.align
        BY <1>2, <1>5, <3>2 DEF CoverOK, was
      <4> QED BY <1>6, <1>7, <2>3, <4>1
    <3> QED BY <3>1, <3>2
  <2>5. \E i \in Commons(n, nxt) : Tab(objs[i])[n].size = now.size
    <3>1. CASE now.size = sz
      BY <2>1, <3>1 DEF sz
    <3>2. CASE now.size = was.size /\ Commons(n, k) # {}
      BY <1>2, <1>5, <3>2 DEF CoverOK, was
    <3>3. CASE Commons(n, k) = {}
      <4>1. was.size = 0
        BY <1>2, <3>3 DEF CommonOK, IsCommon, NoCommon, was
      <4> QED BY <2>3, <3>1, <4>1
    <3> QED BY <2>3, <3>1, <3>2, <3>3
  <2> QED BY <2>4, <2>5
<1> QED BY <1>9, <1>10

(* Nothing but the merge changes a slot.                                   *)
LEMMA SameCover ==
  ASSUME UNCHANGED <<args, objs>>, NEW n, commons'[n] = commons[n]
  PROVE  CoverOK(n, Len(objs))' = CoverOK(n, Len(objs)) /\ Commons(n, Len(objs))' = Commons(n, Len(objs))
  BY SameMergeWords DEF CoverOK, Commons, Tab

(* One step of the linker.                                                 *)
LEMMA NextCoverInv ==
  ASSUME TypeOK, MergeInv, CoverInv, Next
  PROVE  CoverInv'
<1>1. CASE MergeObj
  <2>1. pc' = "merge"
    BY <1>1 DEF MergeObj
  <2> QED BY <1>1, <2>1, MergeCover DEF CoverInv
<1>2. CASE Suppress
  <2>1. /\ pc = "merge" /\ pc' = "symva" /\ UNCHANGED <<args, objs>>
        /\ nxt > Len(objs) /\ nxt - 1 \in 0..Len(objs) /\ nxt \in Nat /\ Len(objs) \in Nat
    BY <1>2 DEF Suppress, MergeInv, TypeOK, PullTypes
  <2>2. nxt - 1 = Len(objs)
    BY <2>1
  <2>3. ASSUME NEW n \in Names, IsCommon(commons'[n])
        PROVE  CoverOK(n, Len(objs))' /\ Commons(n, Len(objs))' # {}
    <3>1. commons'[n] = commons[n]
      BY <1>2, <2>3 DEF Suppress, IsCommon
    <3>2. CoverOK(n, Len(objs)) /\ CommonOK(n, Len(objs))
      BY <2>1, <2>2 DEF CoverInv, MergeInv
    <3> QED BY <2>1, <2>3, <3>1, <3>2, SameCover DEF CommonOK
  <2> QED BY <2>1, <2>3 DEF CoverInv, IsCommon
<1>3. CASE \/ BuildSymVA \/ ResolveEntry \/ RelocObj \/ OpenOutput
           \/ WriteSection \/ WriteFails \/ EndWrite
  <2>1. /\ pc \in {"symva", "entry", "reloc", "write", "done"} /\ pc' # "merge" /\ UNCHANGED <<args, objs, commons>>
    BY <1>3 DEF BuildSymVA, ResolveEntry, RelocObj, OpenOutput, WriteSection, WriteFails, EndWrite, merged
  <2> QED BY <2>1, SameCover DEF CoverInv, IsCommon
<1>4. CASE EndRound
  <2>1. pc = "scan" /\ (pc' = "round" \/ (pc' = "merge" /\ nxt' = 1)) /\ UNCHANGED <<args, objs, commons>>
    BY <1>4 DEF EndRound, merged
  <2>2. CASE pc' = "merge" /\ nxt' = 1
    <3>1. nxt' - 1 = 0
      BY <2>2
    <3>2. \A n \in Names : Commons(n, nxt - 1)' = {}
      BY <3>1 DEF Commons
    <3> QED BY <2>2, <3>2 DEF CoverInv, CoverOK
  <2> QED BY <2>1, <2>2 DEF CoverInv
<1>5. CASE \/ LoadInput \/ LoadError \/ LoadEnd \/ ForcePull \/ ForceEnd \/ StartRound
           \/ (\E r \in todo : ScanRef(r)) \/ DuplicateError \/ NoMainError
           \/ NoStdioInitError \/ OpenError
  <2>1. pc' \in {"load", "force", "round", "scan", "error"}
    BY <1>5 DEF LoadInput, LoadError, LoadEnd, ForcePull, ForceEnd, StartRound, ScanRef,
       DuplicateError, NoMainError, NoStdioInitError, OpenError, Fail
  <2> QED BY <2>1 DEF CoverInv
<1> QED BY <1>1, <1>2, <1>3, <1>4, <1>5 DEF Next

(* The merged COMMON slot satisfies every tentative definition that shares *)
(* it, and is no larger than the largest of them.                          *)
THEOREM CommonSlotCovers == Spec => []CommonCovers
<1>1. Init => CoverInv
  BY DEF Init, CoverInv
<1>2. CoverInv /\ UNCHANGED vars => CoverInv'
  <2> SUFFICES ASSUME CoverInv, UNCHANGED vars PROVE CoverInv'
    OBVIOUS
  <2>1. UNCHANGED <<args, objs, commons, pc, nxt>>
    BY DEF vars
  <2>2. (pc = "merge" => \A n \in Names : CoverOK(n, nxt - 1))'
    <3>1. ASSUME NEW n \in Names, CoverOK(n, nxt - 1) PROVE CoverOK(n, nxt - 1)'
      <4>1. Commons(n, nxt - 1)' = Commons(n, nxt - 1) /\ \A o : Tab(o)' = Tab(o)
        BY <2>1, SameMergeWords DEF Commons, Tab
      <4> QED BY <2>1, <3>1, <4>1 DEF CoverOK
    <3> QED BY <2>1, <3>1 DEF CoverInv
  <2>3. (pc \in {"symva", "entry", "reloc", "write", "done"} =>
          \A n \in Names : IsCommon(commons[n]) => CoverOK(n, Len(objs)) /\ Commons(n, Len(objs)) # {})'
    BY <2>1, SameCover DEF CoverInv, IsCommon
  <2> QED BY <2>2, <2>3 DEF CoverInv
<1>3. CoverInv => CommonCovers
  BY DEF CoverInv, CommonCovers, CoverOK, Commons, Loaded
<1> QED BY <1>1, <1>2, <1>3, NextCoverInv, MergeInvariant, TypeCorrect, PTL DEF Spec

-----------------------------------------------------------------------------
(* Relocation.                                                             *)

(* What RelocObj gives the k-th object.                                    *)
RelocTable(k) == [n \in DOMAIN Tab(objs[k]) |-> RelocTarget(objs[k], n)]
RelocTables   == {RelocTable(k) : k \in 1..Len(objs)}

(* The surviving definition of a name is the one the global table has.     *)
SymOK(n) ==
  /\ realDef[n] # NoObj => symVA[n] = DefVA(realDef[n], n)
  /\ weakDef[n] # NoObj => symVA[n] = DefVA(weakDef[n], n)

(* The relocated objects are a prefix of the loaded ones.                  *)
RelocInv ==
  /\ reloc \in Seq(RelocTables) /\ Len(reloc) <= Len(objs)
  /\ pc \notin {"reloc", "write", "done", "error"} => reloc = <<>>
  /\ pc = "reloc" => Len(reloc) = nxt - 1
  /\ \A k \in 1..Len(reloc) : reloc[k] = RelocTable(k)
  /\ pc \in {"entry", "reloc", "write", "done"} \/ reloc # <<>> => \A n \in Names : SymOK(n)

(* The tables depend on args, objs, weakDef and symVA.                     *)
LEMMA SameRelocTables ==
  ASSUME UNCHANGED <<args, objs, weakDef, symVA>>
  PROVE  RelocTables' = RelocTables /\ \A k : RelocTable(k)' = RelocTable(k)
<1>1. \A k : RelocTable(k)' = RelocTable(k)
  BY DEF RelocTable, RelocTarget, fileSymVA, weakInterposedVA, Tab
<1> QED BY <1>1 DEF RelocTables

(* Whatever is not an object's own copy is relocated through the global    *)
(* table.                                                                  *)
LEMMA TargetIsGlobal ==
  ASSUME TypeOK, NEW k \in 1..Len(objs), NEW n \in DOMAIN Tab(objs[k]), n \in Names, SymOK(n),
         ~OwnCopy(objs[k], n)
  PROVE  RelocTarget(objs[k], n) = symVA[n]
<1> DEFINE o == objs[k]
           s == Tab(o)[n]
<1>1. o # NoObj
  BY ObjIsObj
<1>2. s \in lnkSym
  BY InputFacts DEF TypeOK, PullTypes, Tab
<1>3. s.bind \in {"LOCAL", "GLOBAL", "WEAK"} /\ s.sec \in Storage \cup {"COMMON", ""}
  BY <1>2 DEF lnkSym
<1>4. CASE s.sec \in Storage /\ s.bind = "GLOBAL"
  <2>1. realDef[n] = o
    BY <1>4 DEF OwnCopy, StrongDef
  <2>2. symVA[n] = DefVA(o, n)
    BY <1>1, <2>1 DEF SymOK
  <2>3. fileSymVA(o, n) = DefVA(o, n)
    BY <1>4 DEF fileSymVA, weakInterposedVA
  <2> QED BY <2>2, <2>3 DEF RelocTarget
<1>5. CASE s.sec \in Storage /\ s.bind = "WEAK"
  <2>1. CASE weakDef[n] = o
    <3>1. symVA[n] = DefVA(o, n)
      BY <1>1, <2>1 DEF SymOK
    <3>2. fileSymVA(o, n) = DefVA(o, n)
      BY <1>5, <2>1 DEF fileSymVA, weakInterposedVA
    <3> QED BY <3>1, <3>2 DEF RelocTarget
  <2>2. CASE weakDef[n] # o
    <3>1. fileSymVA(o, n) = symVA[n]
      BY <1>5, <2>2 DEF fileSymVA, weakInterposedVA, Storage
    <3> QED BY <3>1 DEF RelocTarget
  <2> QED BY <2>1, <2>2
<1>6. CASE s.sec \in Storage /\ s.bind = "LOCAL"
  BY <1>6 DEF OwnCopy
<1>7. CASE s.sec \notin Storage
  <2>1. fileSymVA(o, n) \in {symVA[n], NoVA}
    BY <1>7 DEF fileSymVA, weakInterposedVA
  <2> QED BY <2>1 DEF RelocTarget
<1> QED BY <1>3, <1>4, <1>5, <1>6, <1>7

(* The global table is built from the suppressed tables.                   *)
LEMMA BuildSymOK ==
  ASSUME TypeOK, MergeInv, BuildSymVA, NEW n \in Names
  PROVE  SymOK(n)'
<1> DEFINE k == Len(objs)
<1>1. /\ SuppressedOK(n) /\ UNCHANGED <<realDef, weakDef>>
      /\ symVA'[n] = IF IsCommon(commons[n])      THEN CommonVA(n)
           ELSE IF realDef[n] # NoObj   THEN DefVA(realDef[n], n)
           ELSE IF weakDef[n] # NoObj   THEN DefVA(weakDef[n], n)
           ELSE IF n \in Helpers        THEN HelperVA(n)
           ELSE NoVA
  BY DEF BuildSymVA, MergeInv
<1>2. realDef[n] # NoObj => ~IsCommon(commons[n]) /\ weakDef[n] = NoObj
  BY <1>1 DEF SuppressedOK, RealOK, IsCommon
<1>3. weakDef[n] # NoObj => ~IsCommon(commons[n]) /\ realDef[n] = NoObj
  BY <1>1, <1>2 DEF SuppressedOK, IsCommon
<1> QED BY <1>1, <1>2, <1>3 DEF SymOK

(* Steps that leave the relocated objects and what they depend on alone.   *)
LEMMA QuietRelocInv ==
  ASSUME RelocInv, UNCHANGED <<args, objs, realDef, weakDef, symVA, reloc>>,
         pc' \notin {"reloc", "write", "done", "error"} => reloc = <<>>,
         pc' = "reloc" => Len(reloc) = nxt' - 1,
         pc' \in {"entry", "reloc", "write", "done"} => pc \in {"entry", "reloc", "write", "done"}
  PROVE  RelocInv'
<1>1. reloc' \in Seq(RelocTables') /\ Len(reloc') <= Len(objs')
  BY SameRelocTables DEF RelocInv
<1>2. \A k \in 1..Len(reloc') : reloc'[k] = RelocTable(k)'
  BY SameRelocTables DEF RelocInv
<1>3. pc' \in {"entry", "reloc", "write", "done"} \/ reloc' # <<>> => \A n \in Names : SymOK(n)'
  BY DEF RelocInv, SymOK
<1> QED BY <1>1, <1>2, <1>3 DEF RelocInv

(* One step of the linker.                                                 *)
LEMMA NextRelocInv ==
  ASSUME TypeOK, TypeOK', MergeInv, RelocInv, Next
  PROVE  RelocInv'
<1>1. CASE \/ LoadInput \/ LoadEnd \/ ForcePull \/ ForceEnd \/ StartRound
           \/ (\E r \in todo : ScanRef(r)) \/ EndRound \/ MergeObj \/ Suppress
  <2>1. /\ pc \notin {"entry", "reloc", "write", "done", "error"} /\ pc' \notin {"entry", "reloc", "write", "done", "error"}
        /\ reloc' = reloc
    BY <1>1 DEF LoadInput, LoadEnd, ForcePull, ForceEnd, StartRound, ScanRef, EndRound,
       MergeObj, Suppress, merged
  <2>2. reloc' = <<>> /\ Len(objs') \in Nat
    BY <2>1 DEF RelocInv, TypeOK, PullTypes
  <2>3. Len(reloc') = 0 /\ reloc' \in Seq(RelocTables')
    BY <2>2
  <2> QED BY <2>1, <2>2, <2>3 DEF RelocInv
<1>2. CASE \/ LoadError \/ DuplicateError \/ NoMainError \/ NoStdioInitError \/ OpenError
           \/ OpenOutput \/ WriteSection \/ WriteFails \/ EndWrite
  <2>1. /\ UNCHANGED <<args, objs, realDef, weakDef, symVA, reloc>> /\ pc' \in {"write", "done", "error"}
        /\ pc' # "error" => pc \in {"reloc", "write"}
    BY <1>2 DEF LoadError, DuplicateError, NoMainError, NoStdioInitError, OpenError, OpenOutput,
       WriteSection, WriteFails, EndWrite, Fail, merged
  <2> QED BY <2>1, QuietRelocInv
<1>3. CASE BuildSymVA
  <2>1. pc = "symva" /\ pc' = "entry" /\ reloc' = reloc
    BY <1>3 DEF BuildSymVA
  <2>2. reloc' = <<>> /\ Len(objs') \in Nat
    BY <2>1 DEF RelocInv, TypeOK, PullTypes
  <2>3. Len(reloc') = 0 /\ reloc' \in Seq(RelocTables')
    BY <2>2
  <2> QED BY <1>3, <2>1, <2>2, <2>3, BuildSymOK DEF RelocInv
<1>4. CASE ResolveEntry
  <2>1. /\ UNCHANGED <<args, objs, realDef, weakDef, symVA, reloc>>
        /\ pc = "entry" /\ pc' = "reloc" /\ nxt' = 1
    BY <1>4 DEF ResolveEntry, merged
  <2>2. Len(reloc) = 0
    BY <2>1 DEF RelocInv
  <2> QED BY <2>1, <2>2, QuietRelocInv
<1>5. CASE RelocObj
  <2>1. /\ UNCHANGED <<args, objs, realDef, weakDef, symVA>>
        /\ pc = "reloc" /\ pc' = "reloc" /\ nxt' = nxt + 1 /\ nxt <= Len(objs)
        /\ reloc' = Append(reloc, RelocTable(nxt))
    BY <1>5 DEF RelocObj, RelocTable
  <2>2. reloc \in Seq(RelocTables) /\ Len(reloc) = nxt - 1 /\ nxt \in Nat \ {0} /\ Len(objs) \in Nat
    BY <2>1 DEF RelocInv, TypeOK, PullTypes
  <2>3. nxt \in 1..Len(objs)
    BY <2>1, <2>2
  <2>4. RelocTable(nxt) \in RelocTables
    BY <2>3 DEF RelocTables
  <2>5. reloc' \in Seq(RelocTables) /\ Len(reloc') = Len(reloc) + 1
    BY <2>1, <2>2, <2>4
  <2>6. Len(reloc') = nxt
    BY <2>2, <2>5
  <2>7. ASSUME NEW k \in 1..Len(reloc')
        PROVE  reloc'[k] = RelocTable(k)
    <3>1. CASE k = nxt
      <4>1. reloc'[Len(reloc) + 1] = RelocTable(nxt)
        BY <2>1, <2>2, <2>4
      <4> QED BY <2>2, <3>1, <4>1
    <3>2. CASE k # nxt
      <4>1. k \in 1..Len(reloc)
        BY <2>2, <2>6, <3>2
      <4>2. reloc'[k] = reloc[k]
        BY <2>1, <2>2, <2>4, <4>1
      <4> QED BY <4>1, <4>2 DEF RelocInv
    <3> QED BY <3>1, <3>2
  <2>8. \A n \in Names : SymOK(n)'
    BY <2>1 DEF RelocInv, SymOK
  <2>9. reloc' \in Seq(RelocTables') /\ \A k \in 1..Len(reloc') : reloc'[k] = RelocTable(k)'
    BY <2>1, <2>5, <2>7, SameRelocTables
  <2>10. Len(reloc') <= Len(objs') /\ Len(reloc') = nxt' - 1
    BY <2>1, <2>2, <2>6
  <2> QED BY <2>1, <2>8, <2>9, <2>10 DEF RelocInv
<1> QED BY <1>1, <1>2, <1>3, <1>4, <1>5 DEF Next

(* The relocated tables' invariant holds of every link.                    *)
LEMMA RelocInvariant == Spec => []RelocInv
<1>1. Init => RelocInv
  <2> SUFFICES ASSUME Init PROVE RelocInv
    OBVIOUS
  <2>1. reloc = <<>> /\ objs = <<>> /\ pc = "load"
    BY DEF Init
  <2>2. Len(reloc) = 0 /\ Len(objs) = 0 /\ reloc \in Seq(RelocTables)
    BY <2>1
  <2> QED BY <2>1, <2>2 DEF RelocInv
<1>2. RelocInv /\ UNCHANGED vars => RelocInv'
  <2> SUFFICES ASSUME RelocInv, UNCHANGED vars PROVE RelocInv'
    OBVIOUS
  <2>1. UNCHANGED <<args, objs, realDef, weakDef, symVA, reloc, pc, nxt>>
    BY DEF vars
  <2> QED BY <2>1, QuietRelocInv DEF RelocInv
<1> QED BY <1>1, <1>2, NextRelocInv, TypeCorrect, MergeInvariant, PTL DEF Spec

(* What a relocated object refers to, own copies apart, is the one address *)
(* the global table has for the name.                                      *)
LEMMA RelocIsGlobal ==
  ASSUME TypeOK, RelocInv, NEW k \in 1..Len(reloc), NEW n \in DOMAIN reloc[k], ~OwnCopy(objs[k], n)
  PROVE  n \in Names /\ reloc[k][n] = symVA[n]
<1>1. reloc[k] = RelocTable(k) /\ reloc \in Seq(RelocTables) /\ Len(reloc) <= Len(objs)
  BY DEF RelocInv
<1>2. Len(reloc) \in Nat /\ Len(objs) \in Nat
  BY <1>1 DEF TypeOK, PullTypes
<1>3. k \in 1..Len(objs) /\ reloc # <<>>
  BY <1>1, <1>2
<1>4. n \in DOMAIN Tab(objs[k]) /\ reloc[k][n] = RelocTarget(objs[k], n)
  BY <1>1 DEF RelocTable
<1>5. n \in Names
  BY <1>3, <1>4, InputFacts DEF TypeOK, PullTypes, Tab
<1>6. SymOK(n)
  BY <1>3, <1>5 DEF RelocInv
<1> QED BY <1>3, <1>4, <1>5, <1>6, TargetIsGlobal

(* Two objects that name the same thing are relocated to the same address, *)
(* an object's own copies apart.                                           *)
THEOREM OneAddressPerName == Spec => []OneAddress
<1>1. TypeOK /\ RelocInv => OneAddress
  <2> SUFFICES ASSUME TypeOK, RelocInv, NEW j \in 1..Len(reloc), NEW k \in 1..Len(reloc),
                      NEW n \in DOMAIN reloc[j] \cap DOMAIN reloc[k],
                      ~OwnCopy(objs[j], n), ~OwnCopy(objs[k], n)
               PROVE  reloc[j][n] = reloc[k][n]
    BY DEF OneAddress
  <2> QED BY RelocIsGlobal
<1> QED BY <1>1, RelocInvariant, TypeCorrect, PTL

-----------------------------------------------------------------------------
(* Nothing that an input defines is left unresolved.                       *)

(* A tentative definition is a strong one: no compiler writes a weak       *)
(* COMMON, which linkWithObjs counts as defined but gives no address.      *)
NoWeakCommon(c) ==
  \A i \in 1..Len(c) : \A m \in 1..Len(c[i].mem) : \A n \in DOMAIN c[i].mem[m].tab :
    c[i].mem[m].tab[n].bind = "WEAK" => c[i].mem[m].tab[n].sec # "COMMON"

(* The inputs that have been loaded: archives are searched, objects are in *)
(* the link.                                                               *)
InputLoaded(i) ==
  /\ args[i].kind = "ar" => \E a \in 1..Len(archives) : archives[a] = i
  /\ args[i].kind = "obj" => <<i, 1>> \in Loaded

LoadedInv ==
  /\ args \in CmdLines
  /\ pc = "load" => \A i \in 1..Len(args) : i < nxt => InputLoaded(i)
  /\ pc \notin {"load", "error"} => \A i \in 1..Len(args) : InputLoaded(i)

(* Loading more keeps what is loaded.                                      *)
LEMMA StillLoaded ==
  ASSUME TypeOK, args' = args, NEW i, InputLoaded(i),
         archives' = archives \/ \E x \in Nat : archives' = Append(archives, x),
         objs' = objs \/ \E o \in ObjId : objs' = Append(objs, o)
  PROVE  InputLoaded(i)'
<1>1. archives \in Seq(Nat) /\ objs \in Seq(ObjId)
  BY DEF TypeOK, PullTypes
<1>2. \A a \in 1..Len(archives) : a \in 1..Len(archives') /\ archives'[a] = archives[a]
  <2>1. ASSUME NEW x \in Nat, archives' = Append(archives, x)
        PROVE  \A a \in 1..Len(archives) : a \in 1..Len(archives') /\ archives'[a] = archives[a]
    BY <1>1, <2>1
  <2> QED BY <2>1
<1>3. \A k \in 1..Len(objs) : k \in 1..Len(objs') /\ objs'[k] = objs[k]
  <2>1. ASSUME NEW o \in ObjId, objs' = Append(objs, o)
        PROVE  \A k \in 1..Len(objs) : k \in 1..Len(objs') /\ objs'[k] = objs[k]
    BY <1>1, <2>1
  <2> QED BY <2>1
<1> QED BY <1>2, <1>3 DEF InputLoaded, Loaded

(* One step of the linker.                                                 *)
LEMMA NextLoadedInv ==
  ASSUME TypeOK, TypeOK', LoadedInv, Next
  PROVE  LoadedInv'
<1>1. CASE LoadInput
  <2>1. /\ pc = "load" /\ pc' = "load" /\ args' = args /\ nxt' = nxt + 1 /\ nxt <= Len(args)
        /\ nxt \in Nat \ {0} /\ Len(args) \in Nat
        /\ archives \in Seq(Nat) /\ objs \in Seq(ObjId) /\ <<nxt, 1>> \in ObjId
    BY <1>1 DEF LoadInput, TypeOK, PullTypes, cmdLine, ObjId
  <2>2. /\ archives' = archives \/ archives' = Append(archives, nxt)
        /\ objs' = objs \/ objs' = Append(objs, <<nxt, 1>>)
        /\ args[nxt].kind = "ar" => archives' = Append(archives, nxt)
        /\ args[nxt].kind = "obj" => objs' = Append(objs, <<nxt, 1>>)
    BY <1>1 DEF LoadInput
  <2>3. PICK j \in Nat : j = nxt
    BY <2>1
  <2>4. InputLoaded(j)'
    <3>1. args[j].kind = "ar" => Len(archives') \in 1..Len(archives') /\ archives'[Len(archives')] = j
      BY <2>1, <2>2, <2>3
    <3>2. args[j].kind = "obj" => Len(objs') \in 1..Len(objs') /\ objs'[Len(objs')] = <<j, 1>>
      BY <2>1, <2>2, <2>3
    <3> QED BY <2>1, <3>1, <3>2 DEF InputLoaded, Loaded
  <2>5. ASSUME NEW i \in 1..Len(args), i < nxt + 1
        PROVE  InputLoaded(i)'
    <3>1. CASE i = nxt
      BY <2>3, <2>4, <3>1
    <3>2. CASE i # nxt
      <4>1. i < nxt
        BY <2>1, <2>5, <3>2
      <4>2. InputLoaded(i)
        BY <2>1, <4>1 DEF LoadedInv
      <4> QED BY <2>1, <2>2, <4>2, StillLoaded
    <3> QED BY <3>1, <3>2
  <2> QED BY <2>1, <2>5 DEF LoadedInv
<1>2. CASE LoadEnd
  <2>1. pc = "load" /\ UNCHANGED <<args, objs, archives>> /\ pc' = "force" /\ nxt > Len(args)
    BY <1>2 DEF LoadEnd, pulling
  <2>2. nxt \in Nat /\ Len(args) \in Nat
    BY DEF TypeOK, PullTypes, cmdLine
  <2>3. \A i \in 1..Len(args) : InputLoaded(i)
    BY <2>1, <2>2 DEF LoadedInv
  <2>4. \A i \in 1..Len(args) : InputLoaded(i)'
    BY <2>1, <2>3, StillLoaded
  <2> QED BY <2>1, <2>4 DEF LoadedInv
<1>3. CASE ForcePull \/ (\E r \in todo : ScanRef(r))
  <2>1. /\ pc \in {"force", "scan"} /\ pc' = pc /\ UNCHANGED <<args, archives>>
    BY <1>3 DEF ForcePull, ScanRef
  <2>2. objs' = objs \/ \E o \in ObjId : objs' = Append(objs, o)
    <3>1. CASE ForcePull
      <4>1. CASE nxt \in Resolvers(StdioInit)
        <5> DEFINE o == <<archives[nxt], symMap(archives[nxt], StdioInit)>>
        <5>1. archives[nxt] \in 1..Len(args) /\ symMap(archives[nxt], StdioInit) \in 1..Len(args[archives[nxt]].mem)
          BY <4>1, ResolverFacts, NamesAssumption
        <5>2. objs' = Append(objs, o)
          BY <3>1, <4>1 DEF ForcePull, Pull
        <5>3. o \in ObjId
          BY <5>1 DEF ObjId
        <5> QED BY <5>2, <5>3
      <4> QED BY <3>1, <4>1 DEF ForcePull
    <3>2. ASSUME NEW r \in todo, ScanRef(r)
          PROVE  objs' = objs \/ \E o \in ObjId : objs' = Append(objs, o)
      <4>1. CASE Resolvers(r[2]) = {}
        BY <3>2, <4>1 DEF ScanRef
      <4>2. CASE Resolvers(r[2]) # {}
        BY <3>2, <4>2, ScanPulls
      <4> QED BY <4>1, <4>2
    <3> QED BY <1>3, <3>1, <3>2
  <2>3. \A i \in 1..Len(args) : InputLoaded(i)'
    BY <2>1, <2>2, StillLoaded DEF LoadedInv
  <2> QED BY <2>1, <2>3 DEF LoadedInv
<1>4. CASE \/ ForceEnd \/ StartRound \/ EndRound \/ MergeObj \/ Suppress \/ BuildSymVA
           \/ ResolveEntry \/ RelocObj \/ OpenOutput \/ WriteSection \/ WriteFails \/ EndWrite
  <2>1. /\ pc \notin {"load", "error"} /\ pc' # "load" /\ UNCHANGED <<args, objs, archives>>
    BY <1>4 DEF ForceEnd, StartRound, EndRound, MergeObj, Suppress, BuildSymVA, ResolveEntry,
       RelocObj, OpenOutput, WriteSection, WriteFails, EndWrite, pulling
  <2>2. \A i \in 1..Len(args) : InputLoaded(i)'
    BY <2>1, StillLoaded DEF LoadedInv
  <2> QED BY <2>1, <2>2 DEF LoadedInv
<1>5. CASE LoadError \/ DuplicateError \/ NoMainError \/ NoStdioInitError \/ OpenError
  <2>1. pc' = "error" /\ args' = args
    BY <1>5 DEF LoadError, DuplicateError, NoMainError, NoStdioInitError, OpenError, Fail
  <2> QED BY <2>1 DEF LoadedInv
<1> QED BY <1>1, <1>2, <1>3, <1>4, <1>5 DEF Next

(* A name without an address has no definition among the loaded objects.   *)
LEMMA NoAddressNoDefinition ==
  ASSUME TypeOK, WinnerPrecedence, pc = "done", NoWeakCommon(args), NEW n \in Names, symVA[n] = NoVA
  PROVE  n \notin DefinedNames
<1> SUFFICES ASSUME NEW o \in Loaded, Defines(o, n) PROVE FALSE
  BY DEF DefinedNames
<1>1. PICK k \in 1..Len(objs) : o = objs[k]
  BY DEF Loaded
<1>2. Precedence(n) = {NoVA}
  BY DEF WinnerPrecedence
<1>3. n \in DOMAIN Tab(o) /\ Tab(o)[n].bind \in {"GLOBAL", "WEAK"} /\ Tab(o)[n].sec # ""
  BY DEF Defines, isLinkableDef
<1>4. o[1] \in 1..Len(args) /\ o[2] \in 1..Len(args[o[1]].mem)
  BY <1>1 DEF TypeOK, PullTypes
<1>5. Tab(o)[n] \in lnkSym /\ (Tab(o)[n].bind = "WEAK" => Tab(o)[n].sec # "COMMON")
  <2>1. Tab(o)[n] \in lnkSym
    BY <1>3, <1>4, InputFacts DEF TypeOK, PullTypes, Tab
  <2>2. Tab(o)[n].bind = "WEAK" => Tab(o)[n].sec # "COMMON"
    BY <1>3, <1>4 DEF Tab, NoWeakCommon
  <2> QED BY <2>1, <2>2
<1>6. StrongDef(o, n) \/ CommonDef(o, n) \/ WeakDef(o, n)
  BY <1>3, <1>5 DEF lnkSym, StrongDef, CommonDef, WeakDef
<1> DEFINE K == Len(objs)
<1>7. k \in Strongs(n, K) \/ k \in Commons(n, K) \/ k \in Weaks(n, K)
  BY <1>1, <1>6 DEF Strongs, Commons, Weaks
<1>8. Precedence(n) =
        IF Users(n, K) # {}        THEN {DefVA(objs[i], n) : i \in Users(n, K)}
        ELSE IF Strongs(n, K) # {}
          THEN {DefVA(objs[i], n) : i \in {m \in Strongs(n, K) : \A j \in Strongs(n, K) : j <= m}}
        ELSE IF Commons(n, K) # {} THEN {CommonVA(n)}
        ELSE IF Weaks(n, K) # {}
          THEN {DefVA(objs[i], n) : i \in {m \in Weaks(n, K) : \A j \in Weaks(n, K) : m <= j}}
        ELSE IF n \in Helpers THEN {HelperVA(n)}
        ELSE {NoVA}
  BY DEF Precedence, Users, Strongs, Weaks, Commons
<1>9. /\ \A x, y : DefVA(x, y) # NoVA
      /\ \A y : CommonVA(y) # NoVA
  BY DEF DefVA, CommonVA, NoVA
<1> QED BY <1>2, <1>7, <1>8, <1>9

(* A successful link leaves a strong reference without an address only     *)
(* when no input defines the name, provided no input has a weak COMMON.    *)
THEOREM NothingMissed ==
  ASSUME \A c \in CmdLines : NoWeakCommon(c)
  PROVE  Spec => []NoMissedDefinition
<1>1. Init => LoadedInv
  <2> SUFFICES ASSUME Init PROVE LoadedInv
    OBVIOUS
  <2>1. pc = "load" /\ nxt = 1 /\ args \in CmdLines
    BY DEF Init
  <2>2. \A i \in 1..Len(args) : ~(i < nxt)
    BY <2>1
  <2> QED BY <2>1, <2>2 DEF LoadedInv
<1>2. LoadedInv /\ UNCHANGED vars => LoadedInv'
  <2> SUFFICES ASSUME LoadedInv, UNCHANGED vars PROVE LoadedInv'
    OBVIOUS
  <2>1. UNCHANGED <<args, objs, archives, pc, nxt>>
    BY DEF vars
  <2>2. \A i : InputLoaded(i)' = InputLoaded(i)
    BY <2>1 DEF InputLoaded, Loaded
  <2> QED BY <2>1, <2>2 DEF LoadedInv
<1>3. TypeOK /\ LoadedInv /\ RelocInv /\ WinnerPrecedence /\ PullClosed => NoMissedDefinition
  <2> SUFFICES ASSUME TypeOK, LoadedInv, RelocInv, WinnerPrecedence, PullClosed, pc = "done",
                      NEW k \in 1..Len(reloc), NEW n \in DOMAIN reloc[k],
                      Undefined(objs[k], n), reloc[k][n] = NoVA,
                      NEW i \in 1..Len(args)
               PROVE  Indexers(i, n) = {}
    BY DEF NoMissedDefinition
  <2>1. ~OwnCopy(objs[k], n)
    BY DEF OwnCopy, Undefined, Storage
  <2>2. n \in Names /\ symVA[n] = NoVA
    BY <2>1, RelocIsGlobal
  <2>3. NoWeakCommon(args)
    BY DEF LoadedInv
  <2>4. n \notin DefinedNames
    BY <2>2, <2>3, NoAddressNoDefinition
  <2>5. objs[k] \in Loaded
    <3>1. reloc \in Seq(RelocTables) /\ Len(reloc) <= Len(objs) /\ Len(objs) \in Nat
      BY DEF RelocInv, TypeOK, PullTypes
    <3>2. Len(reloc) \in Nat
      BY <3>1
    <3>3. k \in 1..Len(objs)
      BY <3>1, <3>2
    <3> QED BY <3>3 DEF Loaded
  <2>6. \A a \in 1..Len(archives) : Indexers(archives[a], n) = {}
    BY <2>2, <2>4, <2>5 DEF PullClosed, Pulled
  <2>7. InputLoaded(i)
    BY DEF LoadedInv
  <2>8. CASE args[i].kind = "ar"
    BY <2>6, <2>7, <2>8 DEF InputLoaded
  <2>9. CASE args[i].kind = "obj"
    <3>1. Len(args[i].mem) = 1
      BY <2>9, InputFacts DEF TypeOK, PullTypes
    <3>2. ~Defines(<<i, 1>>, n)
      BY <2>2, <2>4, <2>7, <2>9 DEF InputLoaded, DefinedNames
    <3>3. \A m \in 1..Len(args[i].mem) : m = 1
      BY <3>1
    <3> QED BY <3>2, <3>3 DEF Indexers
  <2> QED BY <2>8, <2>9, InputFacts DEF TypeOK, PullTypes
<1> QED BY <1>1, <1>2, <1>3, NextLoadedInv, RelocInvariant, WinnerIsPrecedence, PullReachesFixpoint,
           TypeCorrect, PTL DEF Spec
=============================================================================
