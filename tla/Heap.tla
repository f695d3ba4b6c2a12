-------------------------------- MODULE Heap --------------------------------
(***************************************************************************)
(* The heap of a linked program: sbrk, which the linker emits into every   *)
(* executable (emitSbrkFn of src/elfgen.go), on top of the addresses       *)
(* Layout computes.  The break is kept twice: by the kernel, and in        *)
(* sbrk_cur_brk, the cell behind BSS.  A program is one thread, so a call  *)
(* is one step.                                                            *)
(*                                                                         *)
(* The kernel is external: it starts the heap behind the last segment (or  *)
(* offers none), and answers brk with the break it has afterwards, moved   *)
(* or not.  Registers are 64 bits wide, 2 * (AddrMax + 1) values here.     *)
(***************************************************************************)
EXTENDS Layout, Integers

CONSTANTS
  Increments,   \* arguments of sbrk considered
  HeapLimit,    \* bytes of heap the kernel grants
  AddrMax,      \* 2^63 - 1
  MaxSbrk       \* bound on the calls of sbrk

ASSUME HeapAssumption ==
  /\ HeapLimit \in Nat /\ MaxSbrk \in Nat /\ AddrMax \in Nat
  /\ Increments \subseteq -AddrMax - 1..AddrMax

VARIABLES
  loaded,       \* the program runs
  startBrk,     \* where the kernel's heap starts; 0 if there is none
  brk,          \* the kernel's break
  sbrkCurBrk,   \* the cell sbrk_cur_brk
  result,       \* what the last call returned
  regions,      \* what the program owns of what it was given: [from, to)
  sbrkCalls

heapVars == <<loaded, startBrk, brk, sbrkCurBrk, result, regions, sbrkCalls>>

-----------------------------------------------------------------------------
HeapInit ==
  /\ Init
  /\ loaded = FALSE /\ startBrk = 0 /\ brk = 0 /\ sbrkCurBrk = 0
  /\ result = 0 /\ regions = {} /\ sbrkCalls = 0

(* execve: the heap starts on the page after the end of BSS (p_memsz).     *)
Load ==
  /\ pc = "done" /\ ~loaded
  /\ loaded' = TRUE
  /\ startBrk' \in {0, nextPage(bases.bss + totalBss)} /\ brk' = startBrk'
  /\ UNCHANGED <<vars, sbrkCurBrk, result, regions, sbrkCalls>>

Signed(v) == ((v + AddrMax + 1) % (2 * (AddrMax + 1))) - (AddrMax + 1)

(* The brk system call: the break it leaves.  An address below the heap or *)
(* too far (negative ones are the largest) leaves it where it was.         *)
BrkAfter(addr) ==
  IF startBrk # 0 /\ addr \in startBrk..startBrk + HeapLimit THEN addr ELSE brk

(* The break the call starts from: the cell, or brk(0) on the first call.  *)
OldBrk == IF sbrkCurBrk = 0 THEN brk ELSE sbrkCurBrk

Running == loaded /\ sbrkCalls < MaxSbrk /\ sbrkCalls' = sbrkCalls + 1

SbrkNoBreak ==
  /\ Running /\ OldBrk = 0
  /\ result' = -1
  /\ UNCHANGED <<vars, loaded, startBrk, brk, sbrkCurBrk, regions>>

(* sbrk(0) reports the break.                                              *)
SbrkQuery ==
  /\ Running /\ OldBrk # 0
  /\ sbrkCurBrk' = OldBrk /\ result' = OldBrk
  /\ UNCHANGED <<vars, loaded, startBrk, brk, regions>>

(* What the program owns after a success: the bytes from the old break on  *)
(* when it asked for some (not counting a request that overflows), nothing *)
(* above the lower break when it gave back.                                *)
Owned(old, inc) ==
  IF old + inc > AddrMax THEN regions
  ELSE IF inc > 0 THEN regions \cup {[from |-> old, to |-> old + inc]}
  ELSE {[r EXCEPT !.to = IF r.to > old + inc THEN old + inc ELSE r.to] :
          r \in {s \in regions : s.from < old + inc}}

(* Mutant of SbrkMove: the cell keeps the old break.                       *)
SbrkMoveStale(inc) ==
  /\ Running /\ OldBrk # 0 /\ inc # 0
  /\ LET req == Signed(OldBrk + inc)
         act == BrkAfter(req)
     IN  /\ brk' = act /\ sbrkCurBrk' = OldBrk
         /\ result' = IF act >= req THEN OldBrk ELSE -1
         /\ regions' = IF act >= req THEN Owned(OldBrk, inc) ELSE regions
  /\ UNCHANGED <<vars, loaded, startBrk>>

(* sbrk(inc): brk is asked for the new break, and the call succeeds when   *)
(* its answer is not below it, compared as signed numbers.                 *)
SbrkMove(inc) ==
  /\ Running /\ OldBrk # 0 /\ inc # 0
  /\ LET req == Signed(OldBrk + inc)
         act == BrkAfter(req)
         ok  == act >= req
     IN  /\ brk' = act
         /\ sbrkCurBrk' = IF ok THEN act ELSE OldBrk
         /\ result' = IF ok THEN OldBrk ELSE -1
         /\ regions' = IF ok THEN Owned(OldBrk, inc) ELSE regions
  /\ UNCHANGED <<vars, loaded, startBrk>>

HeapNext ==
  \/ Next /\ UNCHANGED heapVars
  \/ Load \/ SbrkNoBreak \/ SbrkQuery
  \/ \E inc \in Increments : SbrkMove(inc)

HeapSpec == HeapInit /\ [][HeapNext]_<<vars, heapVars>>

-----------------------------------------------------------------------------
(* "Must happen before sbrkCurBrkVA is computed so the heap break lands    *)
(* after this storage" (linkWithObjs), and sbrk's cell stays the kernel's  *)
(* break: whatever sequence of requests is granted and refused, shrinking  *)
(* below the start of the heap included, what the program owns is memory   *)
(* the kernel gave, in no two regions at once and in no variable's slot.   *)
(* A request whose sum with the break overflows is excepted: the signed    *)
(* comparison takes its refusal for a success (elfgen.go:1703-1705).       *)
HeapApart ==
  /\ sbrkCurBrk \in {0, brk}
  /\ \A r \in regions :
       /\ r.from < r.to /\ r.to <= brk
       /\ bases.sbrk + 8 <= r.from
       /\ \A i \in 1..Len(slots) :
            Disjoint(VA(slots[i]), slots[i].size, r.from, r.to - r.from)
       /\ \A s \in regions : r # s => Disjoint(r.from, r.to - r.from, s.from, s.to - s.from)
=============================================================================
