----------------------------- MODULE HeapProofs -----------------------------
(***************************************************************************)
(* Proofs about Heap: the heap stays apart from the storage of every       *)
(* program LayoutProofs covers, for any sequence of requests.              *)
(***************************************************************************)
EXTENDS Heap, LayoutProofs

-----------------------------------------------------------------------------
(* Register arithmetic: a sum of a break and an increment that fits is     *)
(* itself, one that does not is negative.                                  *)
LEMMA SignedFacts ==
  ASSUME NEW v \in Int, NEW m \in Nat, m = AddrMax
  PROVE  /\ Signed(v) \in Int /\ Signed(v) <= m
         /\ v \in (-m - 1)..m => Signed(v) = v
         /\ v \in (m + 1)..(2 * m + 1) => Signed(v) < 0
<1>1. 2 * (m + 1) \in Nat \ {0}
  OBVIOUS
<1>2. \A w \in Int : (w % (2 * (m + 1))) \in 0..(2 * m + 1)
  BY <1>1
<1>3. \A w \in 0..(2 * m + 1) : w % (2 * (m + 1)) = w
  BY <1>1
<1>4. \A w \in (2 * (m + 1))..(2 * (2 * m + 1)) : w % (2 * (m + 1)) = w - 2 * (m + 1)
  BY <1>1
<1>5. Signed(v) = ((v + m + 1) % (2 * (m + 1))) - (m + 1)
  BY DEF Signed
<1>6. v + m + 1 \in Int
  OBVIOUS
<1>7. Signed(v) \in Int /\ Signed(v) <= m
  <2>1. PICK r \in 0..(2 * m + 1) : r = (v + m + 1) % (2 * (m + 1))
    BY <1>2, <1>6
  <2>2. Signed(v) = r - (m + 1)
    BY <1>5, <2>1
  <2> QED BY <2>2
<1>8. v \in (-m - 1)..m => Signed(v) = v
  BY <1>3, <1>5
<1>9. v \in (m + 1)..(2 * m + 1) => Signed(v) < 0
  BY <1>4, <1>5
<1> QED BY <1>7, <1>8, <1>9

(* A program that has been linked is not linked any further.               *)
LEMMA DoneStops == ASSUME pc = "done" PROVE ~Next
  BY DEF Next, SkipGlobal, PlaceData, PlaceBss, PlaceCustom, EndUnit, StartLink, MergeUnit,
         StartCommons, AllocCommon, AssignBases, Placing

(* The slots of a linked program end before sbrk's break cell.             *)
LEMMA SlotsBelowCell ==
  ASSUME LayoutInv, pc = "done", NEW i \in 1..Len(slots)
  PROVE  /\ VA(slots[i]) \in Nat /\ slots[i].size \in Nat
         /\ VA(slots[i]) + slots[i].size <= bases.sbrk
<1>1. PICK x \in slot : x = slots[i] /\ SlotGood(x)
  <2>1. slots \in Seq(slot)
    BY DEF LayoutInv, TypeInv, TypeOK, CoreTypes
  <2> QED BY <2>1 DEF LayoutInv, SlotsInv
<1>2. x.size \in Nat /\ (x.sec \in {"data", "custom"} \/ x.sec \in {"bss", "common"})
  BY DEF slot, Sections
<1>3. CASE x.sec \in {"bss", "common"}
  BY <1>1, <1>2, <1>3, BssExtent
<1>4. CASE x.sec \in {"data", "custom"}
  <2>1. VA(x) \in Nat /\ VA(x) + x.size <= bases.bss
    BY <1>1, <1>4, DataBelowBss
  <2>2. bases.bss \in Nat /\ bases.sbrk \in Nat /\ totalBss \in Nat
    BY DoneTypes DEF LayoutInv
  <2>3. bases.sbrk + 8 = bases.bss + totalBss /\ totalBss >= 8
    BY DEF LayoutInv, BasesInv
  <2>4. bases.bss <= bases.sbrk
    BY <2>2, <2>3
  <2> QED BY <1>1, <1>2, <2>1, <2>2, <2>4
<1> QED BY <1>2, <1>3, <1>4

-----------------------------------------------------------------------------
(* The inductive invariant.  The cell, once set, is the kernel's break,    *)
(* the heap starts behind the break cell, and the regions are disjoint     *)
(* intervals between the start and the break.  A heap that starts beyond   *)
(* the largest address never moves.                                        *)
region == [from : Nat, to : Nat]

BreakInv ==
  /\ loaded \in BOOLEAN /\ startBrk \in Nat /\ brk \in Nat /\ sbrkCurBrk \in {0, brk}
  /\ loaded => pc = "done"
  /\ ~loaded => startBrk = 0
  /\ startBrk = 0 => brk = 0
  /\ startBrk # 0 => bases.sbrk + 8 <= startBrk /\ startBrk <= brk
  /\ brk > AddrMax => brk = startBrk

RegionsInv ==
  /\ regions \subseteq region
  /\ \A r \in regions : startBrk # 0 /\ startBrk <= r.from /\ r.from < r.to /\ r.to <= brk
  /\ \A r, s \in regions : r # s => r.to <= s.from \/ s.to <= r.from

HeapInv == LayoutInv /\ BreakInv /\ RegionsInv

(* The invariant says what is wanted of the regions.                       *)
LEMMA HeapInvApart == HeapInv => HeapApart
<1> SUFFICES ASSUME HeapInv PROVE HeapApart
  OBVIOUS
<1>1. sbrkCurBrk \in {0, brk}
  BY DEF HeapInv, BreakInv
<1>2. ASSUME NEW r \in regions
      PROVE  /\ r.from < r.to /\ r.to <= brk /\ bases.sbrk + 8 <= r.from
             /\ \A i \in 1..Len(slots) :
                  Disjoint(VA(slots[i]), slots[i].size, r.from, r.to - r.from)
             /\ \A s \in regions :
                  r # s => Disjoint(r.from, r.to - r.from, s.from, s.to - s.from)
  <2>1. r.from \in Nat /\ r.to \in Nat /\ startBrk \in Nat /\ brk \in Nat
    BY DEF HeapInv, RegionsInv, BreakInv, region
  <2>2. startBrk # 0 /\ startBrk <= r.from /\ r.from < r.to /\ r.to <= brk
    BY DEF HeapInv, RegionsInv
  <2>3. pc = "done" /\ bases.sbrk + 8 <= startBrk
    BY <2>2 DEF HeapInv, BreakInv
  <2>4. bases.sbrk \in Nat
    BY <2>3, DoneTypes DEF HeapInv, LayoutInv
  <2>5. bases.sbrk + 8 <= r.from
    BY <2>1, <2>2, <2>3, <2>4
  <2>6. ASSUME NEW i \in 1..Len(slots)
        PROVE  Disjoint(VA(slots[i]), slots[i].size, r.from, r.to - r.from)
    <3>1. /\ VA(slots[i]) \in Nat /\ slots[i].size \in Nat
          /\ VA(slots[i]) + slots[i].size <= bases.sbrk
      BY <2>3, SlotsBelowCell DEF HeapInv
    <3>2. VA(slots[i]) + slots[i].size <= r.from
      BY <2>1, <2>4, <2>5, <3>1
    <3> QED BY <3>2 DEF Disjoint
  <2>7. ASSUME NEW s \in regions, r # s
        PROVE  Disjoint(r.from, r.to - r.from, s.from, s.to - s.from)
    <3>1. r.to <= s.from \/ s.to <= r.from
      BY <2>7 DEF HeapInv, RegionsInv
    <3>2. s.from \in Nat /\ s.to \in Nat
      BY DEF HeapInv, RegionsInv, region
    <3>3. r.from + (r.to - r.from) = r.to /\ s.from + (s.to - s.from) = s.to
      BY <2>1, <3>2
    <3> QED BY <3>1, <3>3 DEF Disjoint
  <2> QED BY <2>2, <2>5, <2>6, <2>7
<1> QED BY <1>1, <1>2 DEF HeapApart

-----------------------------------------------------------------------------
(* It holds when the program starts.                                       *)
LEMMA HeapInitInv == HeapInit => HeapInv
<1> SUFFICES ASSUME HeapInit PROVE HeapInv
  OBVIOUS
<1>1. LayoutInv
  BY InitLayoutInv DEF HeapInit
<1>2. BreakInv
  BY HeapAssumption DEF HeapInit, BreakInv
<1>3. RegionsInv
  BY DEF HeapInit, RegionsInv
<1> QED BY <1>1, <1>2, <1>3 DEF HeapInv

(* Steps of the heap leave the linked program alone.                       *)
LEMMA SameProgramHeap ==
  ASSUME LayoutInv, UNCHANGED vars
  PROVE  LayoutInv' /\ pc' = pc /\ bases' = bases
<1>1. LayoutInv'
  BY NextLayoutInv
<1>2. pc' = pc /\ bases' = bases
  BY DEF vars, linking
<1> QED BY <1>1, <1>2

(* Linking happens before the program runs.                                *)
LEMMA LinkStep ==
  ASSUME HeapInv, Next, UNCHANGED heapVars
  PROVE  HeapInv'
<1>1. LayoutInv'
  BY NextLayoutInv DEF HeapInv
<1>2. ~loaded
  BY DoneStops DEF HeapInv, BreakInv
<1>3. UNCHANGED <<loaded, startBrk, brk, sbrkCurBrk, regions>>
  BY DEF heapVars
<1>4. BreakInv'
  BY <1>2, <1>3 DEF HeapInv, BreakInv
<1>5. RegionsInv'
  BY <1>3 DEF HeapInv, RegionsInv
<1> QED BY <1>1, <1>4, <1>5 DEF HeapInv

(* execve: the heap starts on the page behind BSS, and so behind the cell. *)
LEMMA LoadStep ==
  ASSUME HeapInv, Load
  PROVE  HeapInv'
<1>1. /\ pc = "done" /\ ~loaded /\ loaded' = TRUE /\ UNCHANGED vars /\ brk' = startBrk'
      /\ startBrk' \in {0, nextPage(bases.bss + totalBss)}
      /\ sbrkCurBrk' = sbrkCurBrk /\ regions' = regions
  BY DEF Load
<1>2. LayoutInv' /\ pc' = pc /\ bases' = bases
  BY <1>1, SameProgramHeap DEF HeapInv
<1>3. bases.bss \in Nat /\ bases.sbrk \in Nat /\ totalBss \in Nat
  BY <1>1, DoneTypes DEF HeapInv, LayoutInv
<1>4. bases.sbrk + 8 = bases.bss + totalBss
  BY <1>1 DEF HeapInv, LayoutInv, BasesInv
<1>5. startBrk = 0 /\ brk = 0 /\ sbrkCurBrk = 0 /\ regions = {}
  BY <1>1 DEF HeapInv, BreakInv, RegionsInv
<1>6. bases.bss + totalBss \in Nat /\ PageSize \in Nat \ {0}
  BY <1>3, LayoutAssumption
<1>7. /\ nextPage(bases.bss + totalBss) \in Nat
      /\ bases.bss + totalBss <= nextPage(bases.bss + totalBss)
  BY <1>6, AlignUpFacts DEF nextPage
<1>8. startBrk' \in Nat /\ (startBrk' # 0 => bases.sbrk + 8 <= startBrk')
  BY <1>1, <1>4, <1>7
<1>9. BreakInv'
  BY <1>1, <1>2, <1>5, <1>8 DEF BreakInv
<1>10. RegionsInv'
  BY <1>1, <1>5 DEF RegionsInv
<1> QED BY <1>2, <1>9, <1>10 DEF HeapInv

(* The break a call starts from is the kernel's.                           *)
LEMMA OldBrkIsBrk == ASSUME BreakInv PROVE OldBrk = brk
  BY DEF OldBrk, BreakInv

(* A request: granted, the break moves to it; refused, it stays; and the   *)
(* call takes the answer for a success only when it is one, or when the    *)
(* program gave memory back, or when the sum overflowed.                   *)
LEMMA MoveFacts ==
  ASSUME BreakInv, NEW inc \in Increments, inc # 0, OldBrk # 0,
         NEW req, req = Signed(OldBrk + inc), NEW act, act = BrkAfter(req)
  PROVE  /\ inc \in Int /\ brk \in Nat \ {0} /\ startBrk \in Nat \ {0}
         /\ act \in Nat /\ startBrk <= act
         /\ act # brk => act <= AddrMax /\ act >= req
         /\ brk > AddrMax => act = brk
         /\ brk + inc > AddrMax => act = brk
         /\ brk + inc <= AddrMax /\ act >= req /\ inc > 0 => act = brk + inc
         /\ brk + inc <= AddrMax /\ inc < 0 => act = brk + inc \/ act = brk
<1>1. inc \in (-AddrMax - 1)..AddrMax /\ AddrMax \in Nat /\ HeapLimit \in Nat
  BY HeapAssumption
<1>2. OldBrk = brk /\ brk \in Nat \ {0} /\ startBrk \in Nat \ {0}
  BY OldBrkIsBrk DEF BreakInv
<1>3. startBrk <= brk /\ (brk > AddrMax => brk = startBrk)
  BY <1>2 DEF BreakInv
<1>4. PICK m \in Nat : m = AddrMax
  BY <1>1
<1>5. PICK v \in Int : v = brk + inc
  BY <1>1, <1>2
<1>6. inc \in Int /\ inc <= m /\ -m - 1 <= inc
  BY <1>1, <1>4
<1>7. req = Signed(v)
  BY <1>2, <1>5
<1>8. /\ req \in Int /\ req <= m
      /\ v \in (-m - 1)..m => req = v
      /\ v \in (m + 1)..(2 * m + 1) => req < 0
  BY <1>4, <1>7, SignedFacts
<1>9. act = IF req \in startBrk..startBrk + HeapLimit THEN req ELSE brk
  BY <1>2 DEF BrkAfter
<1>10. act = brk \/ (act = req /\ startBrk <= req)
  BY <1>1, <1>2, <1>8, <1>9
<1>11. -m - 1 <= v
  BY <1>2, <1>5, <1>6
<1>12. CASE act = brk
  <2>1. brk + inc <= AddrMax /\ act >= req /\ inc > 0 => act = brk + inc
    BY <1>2, <1>4, <1>5, <1>6, <1>8, <1>11, <1>12
  <2> QED BY <1>2, <1>3, <1>6, <1>12, <2>1
<1>13. CASE act # brk
  <2>1. act = req /\ startBrk <= req
    BY <1>10, <1>13
  <2>2. act \in Nat /\ act <= AddrMax /\ act >= req
    BY <1>2, <1>4, <1>8, <2>1
  <2>3. ~(brk > AddrMax)
    BY <1>2, <1>3, <1>4, <1>8, <2>1
  <2>4. v <= m
    BY <1>2, <1>4, <1>5, <1>6, <1>8, <2>1, <2>3
  <2>5. act = v
    BY <1>8, <1>11, <2>1, <2>4
  <2> QED BY <1>2, <1>4, <1>5, <1>6, <2>1, <2>2, <2>3, <2>4, <2>5
<1> QED BY <1>12, <1>13

(* What the program owns after a success.                                  *)
LEMMA OwnedFacts ==
  ASSUME BreakInv, RegionsInv, NEW inc \in Int, inc # 0, startBrk \in Nat \ {0},
         NEW act \in Nat,
         brk + inc > AddrMax => act = brk,
         brk + inc <= AddrMax /\ inc > 0 => act = brk + inc,
         brk + inc <= AddrMax /\ inc < 0 => act = brk + inc \/ act = brk
  PROVE  /\ Owned(brk, inc) \subseteq region
         /\ \A r \in Owned(brk, inc) : startBrk <= r.from /\ r.from < r.to /\ r.to <= act
         /\ \A r, s \in Owned(brk, inc) : r # s => r.to <= s.from \/ s.to <= r.from
<1>1. brk \in Nat /\ startBrk <= brk /\ AddrMax \in Nat
  BY HeapAssumption DEF BreakInv
<1>2. \A r \in regions : /\ r \in region /\ r.from \in Nat /\ r.to \in Nat
                         /\ startBrk <= r.from /\ r.from < r.to /\ r.to <= brk
  BY DEF RegionsInv, region
<1>3. \A r, s \in regions : r # s => r.to <= s.from \/ s.to <= r.from
  BY DEF RegionsInv
<1>4. CASE brk + inc > AddrMax
  <2>1. Owned(brk, inc) = regions
    BY <1>4 DEF Owned
  <2> QED BY <1>2, <1>3, <1>4, <2>1
<1>5. CASE brk + inc <= AddrMax /\ inc > 0
  <2> DEFINE new == [from |-> brk, to |-> brk + inc]
  <2>1. Owned(brk, inc) = regions \cup {new}
    BY <1>1, <1>5 DEF Owned
  <2>2. new \in region /\ new.from = brk /\ new.to = brk + inc
    BY <1>1, <1>5 DEF region
  <2> HIDE DEF new
  <2>3. act = brk + inc /\ brk < brk + inc
    BY <1>1, <1>5
  <2>4. \A r \in regions : r.to <= new.from /\ r.to <= act
    BY <1>1, <1>2, <2>2, <2>3
  <2> QED BY <1>1, <1>2, <1>3, <2>1, <2>2, <2>3, <2>4
<1>6. CASE brk + inc <= AddrMax /\ inc < 0
  <2> DEFINE top == brk + inc
             kept == {s \in regions : s.from < top}
             cut(r) == [r EXCEPT !.to = IF r.to > top THEN top ELSE r.to]
  <2>1. Owned(brk, inc) = {cut(r) : r \in kept}
    BY <1>1, <1>6 DEF Owned
  <2>2. top \in Int /\ top <= act
    BY <1>1, <1>6
  <2> HIDE DEF top
  <2>3. ASSUME NEW r \in kept
        PROVE  /\ cut(r) \in region /\ cut(r).from = r.from /\ cut(r).to <= r.to
               /\ cut(r).to <= top /\ r.from < cut(r).to
    <3>1. r \in region /\ r.from \in Nat /\ r.to \in Nat /\ r.from < top /\ r.from < r.to
      BY <1>2
    <3>2. cut(r).from = r.from /\ cut(r).to = IF r.to > top THEN top ELSE r.to
      BY <3>1 DEF region
    <3>3. cut(r).to \in Nat
      BY <2>2, <3>1, <3>2
    <3>4. cut(r) \in region
      BY <2>2, <3>1, <3>3 DEF region
    <3> QED BY <2>2, <3>1, <3>2, <3>4
  <2>4. ASSUME NEW r \in Owned(brk, inc)
        PROVE  r \in region /\ startBrk <= r.from /\ r.from < r.to /\ r.to <= act
    <3>1. PICK q \in kept : r = cut(q)
      BY <2>1
    <3>2. /\ r \in region /\ r.from = q.from /\ r.to <= top /\ q.from < r.to
      BY <2>3, <3>1
    <3>3. startBrk <= q.from /\ r.to \in Nat
      BY <1>2, <3>2 DEF region
    <3> QED BY <2>2, <3>2, <3>3
  <2>5. ASSUME NEW r \in Owned(brk, inc), NEW s \in Owned(brk, inc), r # s
        PROVE  r.to <= s.from \/ s.to <= r.from
    <3>1. PICK q \in kept : r = cut(q)
      BY <2>1
    <3>2. PICK t \in kept : s = cut(t)
      BY <2>1
    <3>3. q # t
      BY <2>5, <3>1, <3>2
    <3>4. q.to <= t.from \/ t.to <= q.from
      BY <1>3, <3>3
    <3>5. r.from = q.from /\ r.to <= q.to /\ s.from = t.from /\ s.to <= t.to
      BY <2>3, <3>1, <3>2
    <3>6. /\ q.from \in Nat /\ q.to \in Nat /\ t.from \in Nat /\ t.to \in Nat
          /\ r.to \in Nat /\ s.to \in Nat
      BY <1>2, <2>4 DEF region
    <3> QED BY <3>4, <3>5, <3>6
  <2> QED BY <2>4, <2>5
<1> QED BY <1>1, <1>4, <1>5, <1>6

(* sbrk(inc): whatever the kernel answers, the cell stays its break and    *)
(* the regions stay disjoint and below it.                                 *)
LEMMA MoveStep ==
  ASSUME HeapInv, NEW inc \in Increments, SbrkMove(inc)
  PROVE  HeapInv'
<1> DEFINE req == Signed(OldBrk + inc)
           act == BrkAfter(req)
<1>1. /\ OldBrk # 0 /\ inc # 0 /\ UNCHANGED <<vars, loaded, startBrk>>
      /\ brk' = act
      /\ sbrkCurBrk' = (IF act >= req THEN act ELSE OldBrk)
      /\ regions' = (IF act >= req THEN Owned(OldBrk, inc) ELSE regions)
  BY DEF SbrkMove
<1>2. LayoutInv' /\ pc' = pc /\ bases' = bases
  BY <1>1, SameProgramHeap DEF HeapInv
<1>3. BreakInv /\ RegionsInv /\ OldBrk = brk
  BY OldBrkIsBrk DEF HeapInv
<1>4. /\ inc \in Int /\ brk \in Nat \ {0} /\ startBrk \in Nat \ {0}
      /\ act \in Nat /\ startBrk <= act
      /\ act # brk => act <= AddrMax /\ act >= req
      /\ brk > AddrMax => act = brk
      /\ brk + inc > AddrMax => act = brk
      /\ brk + inc <= AddrMax /\ act >= req /\ inc > 0 => act = brk + inc
      /\ brk + inc <= AddrMax /\ inc < 0 => act = brk + inc \/ act = brk
  BY <1>1, <1>3, MoveFacts
<1> HIDE DEF act, req
<1>5. BreakInv'
  <2>1. sbrkCurBrk' \in {0, brk'}
    BY <1>1, <1>3, <1>4
  <2>2. brk' > AddrMax => brk' = startBrk'
    <3>1. AddrMax \in Nat
      BY HeapAssumption
    <3> QED BY <1>1, <1>3, <1>4, <3>1 DEF BreakInv
  <2> QED BY <1>1, <1>2, <1>3, <1>4, <2>1, <2>2 DEF BreakInv
<1>6. RegionsInv'
  <2>1. CASE act >= req
    <3>1. /\ Owned(brk, inc) \subseteq region
          /\ \A r \in Owned(brk, inc) : startBrk <= r.from /\ r.from < r.to /\ r.to <= act
          /\ \A r, s \in Owned(brk, inc) : r # s => r.to <= s.from \/ s.to <= r.from
      BY <1>1, <1>3, <1>4, <2>1, OwnedFacts
    <3>2. regions' = Owned(brk, inc) /\ brk' = act /\ startBrk' = startBrk /\ startBrk # 0
      BY <1>1, <1>3, <1>4, <2>1
    <3> QED BY <3>1, <3>2 DEF RegionsInv
  <2>2. CASE ~(act >= req)
    <3>1. regions' = regions /\ brk' = brk /\ startBrk' = startBrk
      BY <1>1, <1>4, <2>2
    <3> QED BY <1>3, <3>1 DEF RegionsInv
  <2> QED BY <2>1, <2>2
<1> QED BY <1>2, <1>5, <1>6 DEF HeapInv

(* Every step keeps it, whatever the kernel answers.                       *)
LEMMA HeapNextInv == HeapInv /\ [HeapNext]_<<vars, heapVars>> => HeapInv'
<1> SUFFICES ASSUME HeapInv, [HeapNext]_<<vars, heapVars>> PROVE HeapInv'
  OBVIOUS
<1>1. ASSUME UNCHANGED <<vars, loaded, startBrk, brk, regions>>, sbrkCurBrk' \in {sbrkCurBrk, brk}
      PROVE  HeapInv'
  <2>1. LayoutInv' /\ pc' = pc /\ bases' = bases
    BY <1>1, SameProgramHeap DEF HeapInv
  <2>2. BreakInv'
    BY <1>1, <2>1 DEF HeapInv, BreakInv
  <2>3. RegionsInv'
    BY <1>1 DEF HeapInv, RegionsInv
  <2> QED BY <2>1, <2>2, <2>3 DEF HeapInv
<1>2. CASE Next /\ UNCHANGED heapVars
  BY <1>2, LinkStep
<1>3. CASE Load
  BY <1>3, LoadStep
<1>4. CASE SbrkNoBreak
  BY <1>1, <1>4 DEF SbrkNoBreak
<1>5. CASE SbrkQuery
  <2>1. sbrkCurBrk' = brk
    BY <1>5, OldBrkIsBrk DEF SbrkQuery, HeapInv
  <2> QED BY <1>1, <1>5, <2>1 DEF SbrkQuery
<1>6. ASSUME NEW inc \in Increments, SbrkMove(inc) PROVE HeapInv'
  BY <1>6, MoveStep
<1>7. CASE UNCHANGED <<vars, heapVars>>
  BY <1>1, <1>7 DEF heapVars
<1> QED BY <1>2, <1>3, <1>4, <1>5, <1>6, <1>7 DEF HeapNext

(* The heap stays apart: for every linked program and any sequence of      *)
(* sbrk calls, the cell sbrk_cur_brk is the kernel's break or unset, and   *)
(* what the program owns is below the break, behind the break cell, in no  *)
(* variable's slot and in no two regions at once.                          *)
THEOREM HeapStaysApart == HeapSpec => []HeapApart
<1>1. HeapInit => HeapInv
  BY HeapInitInv
<1>2. HeapInv /\ [HeapNext]_<<vars, heapVars>> => HeapInv'
  BY HeapNextInv
<1>3. HeapInv => HeapApart
  BY HeapInvApart
<1> QED BY <1>1, <1>2, <1>3, PTL DEF HeapSpec
=============================================================================
