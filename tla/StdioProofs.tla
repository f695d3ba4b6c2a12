----------------------------- MODULE StdioProofs -----------------------------
(***************************************************************************)
(* Proofs about Stdio, for every set of arguments, every buffer size and   *)
(* every number of calls and short writes.                                 *)
(***************************************************************************)
EXTENDS Stdio, SequenceTheorems, WellFoundedInduction, TLAPS

-----------------------------------------------------------------------------
(* Numbers.                                                                *)

(* A nonempty set of naturals has a least element.                         *)
LEMMA Least ==
  ASSUME NEW T \in SUBSET Nat, T # {}
  PROVE  \E m \in T : \A k \in T : m <= k
<1>1. PICK m \in T : \A k \in T : ~ (<<k, m>> \in OpToRel(<, Nat))
  BY NatLessThanWellFounded, WFMin
<1>2. \A k \in T : ~(k < m)
  BY <1>1 DEF OpToRel
<1>3. \A k \in T : m <= k
  BY <1>2
<1> QED BY <1>3

(* A recursion on the naturals: f is b on B, and elsewhere comes by s from *)
(* its value at the smaller argument P.                                    *)
Recursion(V, B, b, P, s) ==
  /\ B \in SUBSET Nat /\ b \in [B -> V] /\ P \in [Nat -> Nat] /\ s \in [Nat \X V -> V]
  /\ \A n \in Nat \ B : P[n] < n

Recurses(f, B, b, P, s) ==
  \A n \in Nat : f[n] = IF n \in B THEN b[n] ELSE s[<<n, f[P[n]]>>]

(* Such a function exists; the powers of ten and the decimal digits are.   *)
LEMMA RecursionOnNat ==
  ASSUME NEW V, NEW B, NEW b, NEW P, NEW s, Recursion(V, B, b, P, s)
  PROVE  \E f \in [Nat -> V] : Recurses(f, B, b, P, s)
<1> DEFINE Good(f, m) == /\ f \in [0..m -> V]
                         /\ \A n \in 0..m : f[n] = IF n \in B THEN b[n] ELSE s[<<n, f[P[n]]>>]
           Bad  == {m \in Nat : ~\E f : Good(f, m)}
           c(n) == CHOOSE f : Good(f, n)
           F    == [n \in Nat |-> c(n)[n]]
<1>0. /\ B \in SUBSET Nat /\ b \in [B -> V] /\ P \in [Nat -> Nat] /\ s \in [Nat \X V -> V]
      /\ \A n \in Nat \ B : P[n] < n
  BY DEF Recursion
<1> USE <1>0
<1>1. Bad = {}
  <2>0. Bad \in SUBSET Nat /\ \A m \in Nat : m \notin Bad <=> \E f : Good(f, m)
    OBVIOUS
  <2> SUFFICES ASSUME Bad # {} PROVE FALSE
    OBVIOUS
  <2>1. PICK m \in Bad : \A k \in Bad : m <= k
    BY Least
  <2> HIDE DEF Bad
  <2>2. CASE m = 0
    <3> DEFINE f == [n \in 0..0 |-> b[0]]
    <3>1. 0 \in B /\ b[0] \in V
      OBVIOUS
    <3>2. \A n \in 0..0 : n = 0 /\ f[n] = b[n] /\ n \in B
      BY <3>1
    <3>3. f \in [0..0 -> V]
      BY <3>1
    <3> HIDE DEF f
    <3>4. Good(f, 0)
      <4>1. \A n \in 0..0 : f[n] = IF n \in B THEN b[n] ELSE s[<<n, f[P[n]]>>]
        BY <3>2
      <4> QED BY <3>3, <4>1
    <3> HIDE DEF Good
    <3> QED BY <2>0, <2>1, <2>2, <3>4
  <2>3. CASE m # 0
    <3>1. m \in Nat /\ m - 1 \in Nat /\ m - 1 < m
      BY <2>0, <2>3
    <3>2. m - 1 \notin Bad
      BY <2>0, <2>1, <3>1
    <3>3. PICK f : Good(f, m - 1)
      BY <2>0, <3>1, <3>2
    <3>4. \A n \in 0..m : n # m => n \in 0..m - 1
      BY <3>1
    <3>5. m \notin B => P[m] \in 0..m - 1
      BY <3>1
    <3> DEFINE v == IF m \in B THEN b[m] ELSE s[<<m, f[P[m]]>>]
               g == [n \in 0..m |-> IF n = m THEN v ELSE f[n]]
    <3>6. v \in V
      BY <3>1, <3>3, <3>5
    <3>7. g \in [0..m -> V]
      BY <3>3, <3>4, <3>6
    <3>8. \A n \in 0..m - 1 : g[n] = f[n]
      BY <3>1
    <3>9. \A n \in 0..m - 1 : n \notin B => P[n] \in 0..m - 1
      BY <3>1
    <3>10. ASSUME NEW n \in 0..m PROVE g[n] = IF n \in B THEN b[n] ELSE s[<<n, g[P[n]]>>]
      <4>1. CASE n = m
        <5>1. m \in 0..m /\ g[m] = v
          BY <3>1
        <5>2. m \notin B => g[P[m]] = f[P[m]]
          BY <3>5, <3>8
        <5> HIDE DEF g
        <5> QED BY <4>1, <5>1, <5>2
      <4>2. CASE n # m
        <5>1. n \in 0..m - 1
          BY <3>4, <4>2
        <5>2. g[n] = f[n] /\ (n \notin B => g[P[n]] = f[P[n]])
          BY <3>8, <3>9, <5>1
        <5> HIDE DEF g
        <5> QED BY <3>3, <5>1, <5>2
      <4> QED BY <4>1, <4>2
    <3> HIDE DEF g
    <3>11. Good(g, m)
      BY <3>7, <3>10
    <3> HIDE DEF Good
    <3> QED BY <2>0, <2>1, <3>11
  <2> QED BY <2>2, <2>3
<1>2. \A n \in Nat : Good(c(n), n)
  BY <1>1
<1> HIDE DEF c
<1>3. ASSUME NEW f, NEW g, NEW m \in Nat, NEW k \in Nat, m <= k, Good(f, m), Good(g, k)
      PROVE  \A n \in 0..m : f[n] = g[n]
  <2> DEFINE D == {n \in 0..m : f[n] # g[n]}
  <2> SUFFICES ASSUME D # {} PROVE FALSE
    OBVIOUS
  <2>1. D \in SUBSET Nat
    OBVIOUS
  <2>2. PICK n \in D : \A j \in D : n <= j
    BY <2>1, Least
  <2>3. n \in 0..m /\ n \in 0..k /\ f[n] # g[n]
    BY <1>3
  <2>4. CASE n \in B
    BY <1>3, <2>3, <2>4
  <2>5. CASE n \notin B
    <3>1. P[n] \in Nat /\ P[n] < n
      BY <2>1, <2>5
    <3>2. P[n] \in 0..m /\ P[n] \notin D
      BY <2>1, <2>2, <2>3, <3>1
    <3>3. f[P[n]] = g[P[n]]
      BY <3>2
    <3> QED BY <1>3, <2>3, <2>5, <3>3
  <2> QED BY <2>4, <2>5
<1> HIDE DEF Bad
<1>6. \A n \in Nat : /\ c(n) \in [0..n -> V]
                     /\ \A k \in 0..n : c(n)[k] = IF k \in B THEN b[k] ELSE s[<<k, c(n)[P[k]]>>]
  BY <1>2
<1> HIDE DEF Good
<1>4. F \in [Nat -> V]
  <2>1. \A n \in Nat : n \in 0..n
    OBVIOUS
  <2> QED BY <1>6, <2>1
<1>5. ASSUME NEW n \in Nat PROVE F[n] = IF n \in B THEN b[n] ELSE s[<<n, F[P[n]]>>]
  <2>1. n \in 0..n /\ F[n] = c(n)[n]
    OBVIOUS
  <2>2. F[n] = IF n \in B THEN b[n] ELSE s[<<n, c(n)[P[n]]>>]
    BY <1>6, <2>1
  <2>3. CASE n \in B
    BY <2>2, <2>3
  <2>4. CASE n \notin B
    <3>1. PICK p \in Nat : p = P[n]
      OBVIOUS
    <3>2. p < n /\ p <= n /\ p \in 0..p
      BY <2>4, <3>1
    <3>3. Good(c(p), p) /\ Good(c(n), n)
      BY <1>2
    <3>4. c(p)[p] = c(n)[p]
      BY <1>3, <3>2, <3>3
    <3>5. F[p] = c(n)[p]
      BY <3>4
    <3> HIDE DEF F
    <3> QED BY <2>2, <2>4, <3>1, <3>5
  <2> QED BY <2>3, <2>4
<1> HIDE DEF F
<1> QED BY <1>4, <1>5 DEF Recurses

(* The powers of ten.                                                      *)
LEMMA Pow10Def ==
  /\ Pow10 \in [Nat -> Nat] /\ Pow10[0] = 1
  /\ \A n \in Nat : Pow10[n + 1] = 10 * Pow10[n] /\ Pow10[n] > 0
<1> DEFINE P == [n \in Nat |-> IF n = 0 THEN 0 ELSE n - 1]
           s == [p \in Nat \X Nat |-> 10 * p[2]]
           b == [n \in {0} |-> 1]
<1>1. P \in [Nat -> Nat] /\ s \in [Nat \X Nat -> Nat] /\ b \in [{0} -> Nat]
      /\ \A n \in Nat \ {0} : P[n] < n
  OBVIOUS
<1>2. Recursion(Nat, {0}, b, P, s)
  <2> HIDE DEF P, s, b
  <2> QED BY <1>1 DEF Recursion
<1>3. PICK f \in [Nat -> Nat] :
        \A n \in Nat : f[n] = IF n \in {0} THEN b[n] ELSE s[<<n, f[P[n]]>>]
  <2> HIDE DEF P, s, b
  <2>1. PICK f \in [Nat -> Nat] : Recurses(f, {0}, b, P, s)
    BY <1>2, RecursionOnNat
  <2> QED BY <2>1 DEF Recurses
<1>4. \A n \in Nat : f[n] = IF n = 0 THEN 1 ELSE 10 * f[n - 1]
  <2> SUFFICES ASSUME NEW n \in Nat PROVE f[n] = IF n = 0 THEN 1 ELSE 10 * f[n - 1]
    OBVIOUS
  <2>1. CASE n = 0
    BY <1>3, <2>1
  <2>2. CASE n # 0
    <3>1. P[n] = n - 1 /\ n - 1 \in Nat
      BY <2>2
    <3>2. f[n - 1] \in Nat
      BY <1>3, <3>1
    <3>3. s[<<n, f[n - 1]>>] = 10 * f[n - 1]
      BY <3>2
    <3> HIDE DEF s, P
    <3> QED BY <1>3, <2>2, <3>1, <3>3
  <2> QED BY <2>1, <2>2
<1>5. f = [n \in Nat |-> IF n = 0 THEN 1 ELSE 10 * f[n - 1]]
  BY <1>4
<1>6. \E g : g = [n \in Nat |-> IF n = 0 THEN 1 ELSE 10 * g[n - 1]]
  BY <1>5
<1>7. Pow10 = [n \in Nat |-> IF n = 0 THEN 1 ELSE 10 * Pow10[n - 1]]
  BY <1>6 DEF Pow10
<1>8. \A n \in Nat : Pow10[n] = IF n = 0 THEN 1 ELSE 10 * Pow10[n - 1]
  BY <1>7
<1> DEFINE D == {n \in Nat : ~(Pow10[n] \in Nat /\ Pow10[n] > 0)}
<1>9. D = {}
  <2> SUFFICES ASSUME D # {} PROVE FALSE
    OBVIOUS
  <2>1. PICK n \in D : \A k \in D : n <= k
    BY Least
  <2>2. n # 0
    BY <1>8
  <2>3. n - 1 \in Nat /\ n - 1 \notin D
    BY <2>1, <2>2
  <2>4. Pow10[n] = 10 * Pow10[n - 1] /\ Pow10[n - 1] \in Nat /\ Pow10[n - 1] > 0
    BY <1>8, <2>2, <2>3
  <2> QED BY <2>4
<1>10. \A n \in Nat : n + 1 \in Nat /\ n + 1 # 0 /\ (n + 1) - 1 = n
  OBVIOUS
<1>11. Pow10 \in [Nat -> Nat]
  BY <1>7, <1>9
<1> HIDE DEF D
<1>12. \A n \in Nat : Pow10[n + 1] = 10 * Pow10[n]
  BY <1>8, <1>10
<1> QED BY <1>8, <1>9, <1>11, <1>12 DEF D

(* A larger power has a larger exponent.                                   *)
LEMMA Pow10Less ==
  ASSUME NEW i \in Nat, NEW j \in Nat, Pow10[i] < Pow10[j]
  PROVE  i < j
<1> DEFINE D == {n \in Nat : \E m \in 0..n : Pow10[m] > Pow10[n]}
<1>1. D = {}
  <2> SUFFICES ASSUME D # {} PROVE FALSE
    OBVIOUS
  <2>1. PICK n \in D : \A k \in D : n <= k
    BY Least
  <2>2. PICK m \in 0..n : Pow10[m] > Pow10[n]
    OBVIOUS
  <2>3. n \in Nat /\ m \in Nat /\ m # n /\ Pow10[m] \in Nat /\ Pow10[n] \in Nat
    BY <2>2, Pow10Def
  <2>4. n - 1 \in Nat /\ m \in 0..n - 1 /\ (n - 1) + 1 = n
    BY <2>3
  <2>5. Pow10[n - 1] \in Nat /\ Pow10[n] = 10 * Pow10[n - 1]
    BY <2>4, Pow10Def
  <2>6. Pow10[m] > Pow10[n - 1]
    BY <2>2, <2>3, <2>5
  <2>7. n - 1 \in D
    BY <2>4, <2>6
  <2> QED BY <2>1, <2>4, <2>7
<1>2. CASE j <= i
  <2>1. j \in 0..i /\ ~(Pow10[j] > Pow10[i])
    BY <1>1, <1>2
  <2> QED BY <2>1, Pow10Def
<1> QED BY <1>2

(* Wrapping gives a long.                                                  *)
LEMMA WrapRange ==
  ASSUME NEW v \in Int
  PROVE  Wrap(v) \in Int /\ LongMin <= Wrap(v) /\ Wrap(v) <= LongMax
<1>1. LongMax \in Nat
  BY StdioAssumption
<1>2. PICK m \in Nat : m = 2 * (LongMax + 1) /\ m > 0
  BY <1>1
<1>3. (v - LongMin) % m \in 0..m - 1
  BY <1>1, <1>2 DEF LongMin
<1> QED BY <1>1, <1>2, <1>3 DEF Wrap, LongMin

-----------------------------------------------------------------------------
(* The states of the calls.                                                *)
Bytes  == 0..255
Arrays == [0..MemLen - 1 -> Bytes]

OutputFrames == [fn : {"output"}, neg : BOOLEAN, val : Int, buf : Seq(Bytes)]
ListFrames   == [fn : {"list"}, res : Int, list : Seq(Seq(Bytes)) \ {<<>>}]
LongFrames   == [fn : {"long"}, neg : BOOLEAN, descend : BOOLEAN, stack : Seq(Int) \ {<<>>}]
TextFrames   == [fn : {"vfprintf"}, text : Seq(Bytes)]
StrFrames    == [fn : {"str"}, text : Seq(Bytes), pos : Nat, end : Nat, nul : BOOLEAN,
                 old : Arrays, n : Int]

TypeInv ==
  /\ frame \in {Idle} \cup OutputFrames \cup ListFrames \cup LongFrames \cup TextFrames \cup StrFrames
  /\ \E S : calls \in Seq(S)
  /\ given \in Nat /\ shorts \in Nat
  /\ out \in Seq(Bytes) /\ rd \in Nat /\ rd <= Len(out)
  /\ line \in Seq(Bytes) /\ Len(line) < BufSize
  /\ mem \in Arrays

(* The digits that output() has still to write fit in its buffer: the part *)
(* of the number that is left is worth the digits written so far.          *)
DigitsOK(f) ==
  /\ Len(f.buf) >= 1 /\ Len(f.buf) + 1 <= BufLen
  /\ f.val > 0 => f.val * Pow10[Len(f.buf) - 1] <= LongMax

DigitInv == frame.fn = "output" => DigitsOK(frame)

(* sprintf and snprintf have put the beginning of the text t, as much as   *)
(* there is room for, into the array m.                                    *)
Done(f, t) == Len(t) - Len(f.text)
SprintfEnd == 2147483646
RoomOK(f, t) ==
  \/ f.n <= 0 /\ f.end = 0 /\ f.nul = FALSE
  \/ f.n > 0 /\ f.n <= MemLen /\ f.end = f.n - 1 /\ f.nul = TRUE
  \/ f.n = MemLen /\ f.end = SprintfEnd /\ f.nul = TRUE /\ Len(t) < MemLen
StrOK(f, t, m) ==
  /\ t \in Seq(Bytes) /\ Len(f.text) <= Len(t) /\ RoomOK(f, t)
  /\ \A i \in 1..Len(f.text) : f.text[i] = t[Done(f, t) + i]
  /\ f.pos = IF Done(f, t) <= f.end THEN Done(f, t) ELSE f.end
  /\ \A i \in 0..MemLen - 1 : m[i] = IF i < f.pos THEN t[i + 1] ELSE f.old[i]

Current == calls[Len(calls)].arg
StrInv  == frame.fn = "str" => StrOK(frame, Current, mem)

StdioInv == TypeInv /\ DigitInv /\ StrInv

(* A frame's function says which frames it is one of.                      *)
LEMMA FrameKinds ==
  ASSUME TypeInv
  PROVE  /\ frame.fn = "output"   => frame \in OutputFrames
         /\ frame.fn = "list"     => frame \in ListFrames
         /\ frame.fn = "long"     => frame \in LongFrames
         /\ frame.fn = "vfprintf" => frame \in TextFrames
         /\ frame.fn = "str"      => frame \in StrFrames
<1>1. /\ Idle.fn = "none"
      /\ \A f \in OutputFrames : f.fn = "output"
      /\ \A f \in ListFrames : f.fn = "list"
      /\ \A f \in LongFrames : f.fn = "long"
      /\ \A f \in TextFrames : f.fn = "vfprintf"
      /\ \A f \in StrFrames : f.fn = "str"
  BY DEF Idle, OutputFrames, ListFrames, LongFrames, TextFrames, StrFrames
<1>2. frame \in {Idle} \cup OutputFrames \cup ListFrames \cup LongFrames \cup TextFrames \cup StrFrames
  BY DEF TypeInv
<1> QED BY <1>1, <1>2

(* A write appends bytes to what the descriptor has accepted.              *)
LEMMA WriteFacts ==
  ASSUME TypeInv, NEW bytes \in Seq(Bytes), Write(bytes), rd' = rd
  PROVE  /\ out' \in Seq(Bytes) /\ rd' \in Nat /\ rd' <= Len(out')
         /\ shorts' \in Nat /\ given' \in Nat /\ UNCHANGED <<calls, mem>>
<1>1. /\ out \in Seq(Bytes) /\ rd \in Nat /\ rd <= Len(out) /\ given \in Nat /\ shorts \in Nat
      /\ Len(bytes) \in Nat /\ Len(out) \in Nat
  BY DEF TypeInv
<1>2. PICK k \in 0..Len(bytes) : out' = out \o SubSeq(bytes, 1, k)
                              /\ shorts' = IF k < Len(bytes) THEN shorts + 1 ELSE shorts
  BY DEF Write
<1>3. SubSeq(bytes, 1, k) \in Seq(Bytes)
  <2>1. \A i \in 1..k : bytes[i] \in Bytes
    BY <1>1
  <2> QED BY <1>1, <2>1, SubSeqProperties
<1>4. out' \in Seq(Bytes) /\ Len(out') = Len(out) + Len(SubSeq(bytes, 1, k))
  BY <1>1, <1>2, <1>3, ConcatProperties
<1>5. Len(SubSeq(bytes, 1, k)) \in Nat
  BY <1>3
<1>6. rd' <= Len(out')
  BY <1>1, <1>4, <1>5
<1>7. shorts' \in Nat /\ given' \in Nat
  BY <1>1, <1>2 DEF Write
<1> QED BY <1>1, <1>4, <1>6, <1>7 DEF Write

(* A call in progress that is neither output() nor a formatting one.       *)
Plain == {Idle} \cup ListFrames \cup LongFrames \cup TextFrames

(* Such a call needs only its types.                                       *)
LEMMA PlainInv ==
  ASSUME TypeInv', frame' \in Plain
  PROVE  StdioInv'
<1>1. \A f \in Plain : f.fn # "output" /\ f.fn # "str"
  BY DEF Plain, Idle, ListFrames, LongFrames, TextFrames
<1> QED BY <1>1 DEF StdioInv, DigitInv, StrInv

(* A write that leaves such a frame.                                       *)
LEMMA WriteStep ==
  ASSUME StdioInv, NEW bytes \in Seq(Bytes), Write(bytes), UNCHANGED readerVars, frame' \in Plain,
         line' \in Seq(Bytes), Len(line') < BufSize
  PROVE  StdioInv'
<1>1. rd' = rd
  BY DEF readerVars
<1>2. TypeInv
  BY DEF StdioInv
<1>3. TypeInv'
  BY <1>1, <1>2, WriteFacts DEF TypeInv, Plain
<1> QED BY <1>3, PlainInv

(* The start of a call.                                                    *)
LEMMA EnterTypes ==
  ASSUME TypeInv, NEW fn, NEW arg, NEW f, Enter(fn, arg, f), UNCHANGED readerVars,
         f \in {Idle} \cup OutputFrames \cup ListFrames \cup LongFrames \cup TextFrames \cup StrFrames
  PROVE  /\ TypeInv' /\ Current' = arg
         /\ \E S : calls \in Seq(S) /\ [fn |-> fn, arg |-> arg] \in S
<1>1. /\ frame' = f /\ given' = 0 /\ UNCHANGED <<out, line, shorts, mem, rd>>
      /\ calls' = Append(calls, [fn |-> fn, arg |-> arg])
  BY DEF Enter, readerVars
<1>2. PICK S : calls \in Seq(S)
  BY DEF TypeInv
<1>3. PICK T : T = S \cup {[fn |-> fn, arg |-> arg]}
  OBVIOUS
<1>4. calls \in Seq(T) /\ [fn |-> fn, arg |-> arg] \in T
  BY <1>2, <1>3, SeqMonotonic
<1>5. /\ calls' \in Seq(T) /\ Len(calls') = Len(calls) + 1
      /\ calls'[Len(calls) + 1] = [fn |-> fn, arg |-> arg]
  BY <1>1, <1>4, AppendProperties
<1>6. Current' = arg
  BY <1>5 DEF Current
<1>7. TypeInv'
  BY <1>1, <1>5 DEF TypeInv
<1> QED BY <1>4, <1>6, <1>7

(* The start of one of the plain calls.                                    *)
LEMMA EnterPlain ==
  ASSUME StdioInv, NEW fn, NEW arg, NEW f \in Plain, Enter(fn, arg, f), UNCHANGED readerVars
  PROVE  StdioInv'
<1>1. TypeInv /\ frame' = f
  BY DEF StdioInv, Enter
<1>2. TypeInv'
  BY <1>1, EnterTypes DEF Plain
<1> QED BY <1>1, <1>2, PlainInv

-----------------------------------------------------------------------------
(* output().                                                               *)

(* The frame it starts with.                                               *)
LEMMA CallOutputInv ==
  ASSUME StdioInv, NEW x \in Ints, CallOutput(x), UNCHANGED readerVars
  PROVE  StdioInv'
<1> DEFINE val == IF x < 0 THEN Wrap(0 - x) ELSE x
           f   == [fn |-> "output", neg |-> x < 0, val |-> val,
                   buf |-> IF val = 0 THEN <<Zero, NL>> ELSE <<NL>>]
<1>1. Enter("output", x, f)
  BY DEF CallOutput
<1>2. x \in Int /\ x <= LongMax /\ LongMax \in Nat /\ BufLen \in Nat /\ BufLen > 2
  BY StdioAssumption
<1>3. val \in Int /\ val <= LongMax
  BY <1>2, WrapRange
<1> HIDE DEF val
<1>4. f \in OutputFrames
  <2>1. Zero \in Bytes /\ NL \in Bytes
    BY DEF Bytes, Zero, NL
  <2>2. (IF val = 0 THEN <<Zero, NL>> ELSE <<NL>>) \in Seq(Bytes)
    BY <2>1
  <2>3. (x < 0) \in BOOLEAN
    OBVIOUS
  <2> QED BY <1>3, <2>2, <2>3 DEF OutputFrames
<1>5. DigitsOK(f)
  <2>1. CASE val = 0
    BY <1>2, <2>1 DEF DigitsOK
  <2>2. CASE val # 0
    <3>1. f.buf = <<NL>> /\ Len(f.buf) = 1 /\ f.val = val
      BY <2>2
    <3>2. Pow10[Len(f.buf) - 1] = 1
      BY <3>1, Pow10Def
    <3> QED BY <1>2, <1>3, <3>1, <3>2 DEF DigitsOK
  <2> QED BY <2>1, <2>2
<1>6. f.fn = "output"
  OBVIOUS
<1> HIDE DEF f
<1>7. TypeInv' /\ frame' = f
  BY <1>1, <1>4, EnterTypes DEF StdioInv, Enter
<1>8. DigitInv'
  BY <1>5, <1>7 DEF DigitInv, DigitsOK
<1>9. StrInv'
  BY <1>6, <1>7 DEF StrInv
<1> QED BY <1>7, <1>8, <1>9 DEF StdioInv

(* One digit more still leaves room for the sign.                          *)
LEMMA DigitRoom ==
  ASSUME NEW v \in Nat, v > 0, NEW n \in Nat, n >= 1, v * Pow10[n - 1] <= LongMax
  PROVE  n + 2 <= BufLen /\ (v \div 10) * Pow10[n] <= LongMax
<1>1. LongMax \in Nat /\ BufLen \in Nat /\ BufLen - 2 \in Nat /\ LongMax < Pow10[BufLen - 2]
  BY StdioAssumption
<1>2. n - 1 \in Nat /\ (n - 1) + 1 = n
  OBVIOUS
<1>3. PICK p \in Nat : p = Pow10[n - 1]
  BY <1>2, Pow10Def
<1>4. Pow10[n] = 10 * p /\ Pow10[BufLen - 2] \in Nat
  BY <1>1, <1>2, <1>3, Pow10Def
<1>5. p <= v * p
  BY <1>3
<1>6. Pow10[n - 1] < Pow10[BufLen - 2]
  BY <1>1, <1>3, <1>4, <1>5
<1>7. n - 1 < BufLen - 2
  BY <1>1, <1>2, <1>6, Pow10Less
<1>8. (v \div 10) * (10 * p) <= v * p
  <2>1. PICK q \in Nat, r \in 0..9 : v = 10 * q + r /\ q = v \div 10
    OBVIOUS
  <2>2. v * p = q * (10 * p) + r * p
    BY <2>1
  <2>3. r * p >= 0
    BY <2>1
  <2> QED BY <2>1, <2>2, <2>3
<1> QED BY <1>1, <1>3, <1>4, <1>7, <1>8

(* A digit is put in front.                                                *)
LEMMA OutputDigitInv ==
  ASSUME StdioInv, OutputDigit, UNCHANGED readerVars
  PROVE  StdioInv'
<1>1. /\ frame.fn = "output" /\ frame.val > 0
      /\ frame' = [frame EXCEPT !.buf = <<Zero + (frame.val % 10)>> \o @, !.val = @ \div 10]
      /\ UNCHANGED <<calls, given, out, line, shorts, mem, rd>>
  BY DEF OutputDigit, readerVars
<1>2. frame \in OutputFrames /\ DigitsOK(frame)
  BY <1>1, FrameKinds DEF StdioInv, DigitInv
<1>3. frame.val \in Nat /\ frame.buf \in Seq(Bytes)
  BY <1>1, <1>2 DEF OutputFrames
<1> DEFINE b == <<Zero + (frame.val % 10)>> \o frame.buf
<1>4. b \in Seq(Bytes) /\ Len(b) = Len(frame.buf) + 1
  <2>1. Zero + (frame.val % 10) \in Bytes
    <3>1. PICK v \in Nat : v = frame.val
      BY <1>3
    <3>2. v % 10 \in 0..9
      OBVIOUS
    <3>3. 48 + (v % 10) \in 0..255
      BY <3>2
    <3> QED BY <3>1, <3>3 DEF Bytes, Zero
  <2>2. <<Zero + (frame.val % 10)>> \in Seq(Bytes) /\ Len(<<Zero + (frame.val % 10)>>) = 1
    BY <2>1
  <2> HIDE DEF Bytes
  <2> QED BY <1>3, <2>2, ConcatProperties
<1> HIDE DEF b
<1>5. frame' = [fn |-> "output", neg |-> frame.neg, val |-> frame.val \div 10, buf |-> b]
  BY <1>1, <1>2 DEF b, OutputFrames
<1>6. frame' \in OutputFrames
  BY <1>2, <1>3, <1>4, <1>5 DEF OutputFrames
<1>7. DigitsOK(frame')
  <2>1. PICK v \in Nat, n \in Nat : v = frame.val /\ n = Len(frame.buf)
    BY <1>3
  <2>2. v > 0 /\ n >= 1 /\ v * Pow10[n - 1] <= LongMax
    BY <1>1, <1>2, <2>1 DEF DigitsOK
  <2>3. n + 2 <= BufLen /\ (v \div 10) * Pow10[n] <= LongMax
    BY <2>1, <2>2, DigitRoom
  <2>4. frame'.val = v \div 10 /\ Len(frame'.buf) = n + 1 /\ (n + 1) - 1 = n
    BY <1>4, <1>5, <2>1
  <2>5. /\ n + 1 >= 1 /\ (n + 1) + 1 <= BufLen
    BY <2>2, <2>3, StdioAssumption
  <2> QED BY <2>3, <2>4, <2>5 DEF DigitsOK
<1>8. TypeInv'
  BY <1>1, <1>6 DEF StdioInv, TypeInv
<1>9. DigitInv' /\ StrInv'
  <2>1. frame'.fn = "output"
    BY <1>5
  <2> QED BY <1>7, <2>1 DEF DigitInv, DigitsOK, StrInv
<1> QED BY <1>8, <1>9 DEF StdioInv

(* The number is written.                                                  *)
LEMMA OutputWriteInv ==
  ASSUME StdioInv, OutputWrite, UNCHANGED readerVars
  PROVE  StdioInv'
<1>1. frame \in OutputFrames
  BY FrameKinds DEF StdioInv, OutputWrite
<1> DEFINE bytes == IF frame.neg THEN <<Minus>> \o frame.buf ELSE frame.buf
<1>2. bytes \in Seq(Bytes)
  <2>1. Minus \in Bytes /\ frame.buf \in Seq(Bytes)
    BY <1>1 DEF OutputFrames, Bytes, Minus
  <2>2. <<Minus>> \in Seq(Bytes)
    BY <2>1
  <2>3. <<Minus>> \o frame.buf \in Seq(Bytes)
    BY <2>1, <2>2, ConcatProperties
  <2> QED BY <2>1, <2>3
<1>3. Write(bytes) /\ frame' \in Plain /\ line' = line
  BY DEF OutputWrite, Return, Plain
<1> QED BY <1>2, <1>3, WriteStep DEF StdioInv, TypeInv

-----------------------------------------------------------------------------
(* The lists of writes and the recursion.                                  *)

(* The calls that start them.                                              *)
LEMMA CallListInv ==
  ASSUME StdioInv, UNCHANGED readerVars,
         \/ \E c \in Chars : CallPrintChar(c) \/ CallPutchar(c)
         \/ \E s \in Strings : CallPrintString(s) \/ CallPuts(s)
  PROVE  StdioInv'
<1>1. ASSUME NEW c \in Chars, CallPrintChar(c) \/ CallPutchar(c) PROVE StdioInv'
  <2>1. c \in Int /\ Byte(c) \in Bytes
    BY StdioAssumption DEF Byte, Bytes
  <2>2. << <<Byte(c)>> >> \in Seq(Seq(Bytes)) \ {<<>>}
    BY <2>1
  <2>3. /\ [fn |-> "list", res |-> 0, list |-> << <<Byte(c)>> >>] \in Plain
        /\ [fn |-> "list", res |-> c, list |-> << <<Byte(c)>> >>] \in Plain
    BY <2>1, <2>2 DEF Plain, ListFrames
  <2> QED BY <1>1, <2>3, EnterPlain DEF CallPrintChar, CallPutchar
<1>2. ASSUME NEW s \in Strings, CallPrintString(s) \/ CallPuts(s) PROVE StdioInv'
  <2>1. s \in Seq(Bytes) /\ <<NL>> \in Seq(Bytes)
    BY StdioAssumption DEF NL, Bytes
  <2>2. <<s>> \in Seq(Seq(Bytes)) \ {<<>>} /\ <<s, <<NL>> >> \in Seq(Seq(Bytes)) \ {<<>>}
    BY <2>1
  <2>3. /\ [fn |-> "list", res |-> 0, list |-> <<s>>] \in Plain
        /\ [fn |-> "list", res |-> 0, list |-> <<s, <<NL>> >>] \in Plain
    BY <2>2 DEF Plain, ListFrames
  <2> QED BY <1>2, <2>3, EnterPlain DEF CallPrintString, CallPuts
<1> QED BY <1>1, <1>2

(* One write of a list.                                                    *)
LEMMA WriteNextInv ==
  ASSUME StdioInv, WriteNext, UNCHANGED readerVars
  PROVE  StdioInv'
<1>1. frame \in ListFrames
  BY FrameKinds DEF StdioInv, WriteNext
<1>2. frame.list \in Seq(Seq(Bytes)) /\ frame.list # <<>>
  BY <1>1 DEF ListFrames
<1>3. Head(frame.list) \in Seq(Bytes) /\ Tail(frame.list) \in Seq(Seq(Bytes))
      /\ Len(Tail(frame.list)) = Len(frame.list) - 1 /\ Len(frame.list) \in Nat
  BY <1>2, HeadTailProperties
<1>4. frame' \in Plain
  <2>1. CASE Len(frame.list) = 1
    BY <2>1 DEF WriteNext, Return, Plain
  <2>2. CASE Len(frame.list) # 1
    <3>1. Tail(frame.list) # <<>>
      <4>1. Len(frame.list) # 0
        BY <1>2, EmptySeq
      <4>2. Len(Tail(frame.list)) # 0
        BY <1>3, <2>2, <4>1
      <4> QED BY <1>3, <4>2, EmptySeq
    <3>2. frame' = [frame EXCEPT !.list = Tail(frame.list)]
      BY <2>2 DEF WriteNext
    <3>3. frame' \in ListFrames
      BY <1>1, <1>3, <3>1, <3>2 DEF ListFrames
    <3> QED BY <3>3 DEF Plain
  <2> QED BY <2>1, <2>2
<1>5. Write(Head(frame.list)) /\ line' = line
  BY DEF WriteNext
<1> QED BY <1>3, <1>4, <1>5, WriteStep DEF StdioInv, TypeInv

(* __stdio_print_long starts.                                              *)
LEMMA CallPrintLongInv ==
  ASSUME StdioInv, UNCHANGED readerVars, NEW n \in Ints, CallPrintLong(n)
  PROVE  StdioInv'
<1>1. n \in Int
  BY StdioAssumption
<1>2. PICK v \in Int : v = IF n < 0 THEN Wrap(0 - n) ELSE n
  BY <1>1, WrapRange
<1>3. <<v>> \in Seq(Int) \ {<<>>}
  OBVIOUS
<1>4. [fn |-> "long", neg |-> n < 0, descend |-> TRUE, stack |-> <<v>>] \in Plain
  BY <1>3 DEF Plain, LongFrames
<1>5. Enter("__stdio_print_long", n, [fn |-> "long", neg |-> n < 0, descend |-> TRUE, stack |-> <<v>>])
  BY <1>2 DEF CallPrintLong
<1> QED BY <1>4, <1>5, EnterPlain

(* Its steps.                                                              *)
LEMMA PrintLongInv ==
  ASSUME StdioInv, UNCHANGED readerVars, PrintSign \/ PrintPosDescend \/ PrintPosDigit
  PROVE  StdioInv'
<1>1. frame \in LongFrames
  BY FrameKinds DEF StdioInv, PrintSign, PrintPosDescend, PrintPosDigit
<1>2. frame.stack \in Seq(Int) /\ frame.stack # <<>>
  BY <1>1 DEF LongFrames
<1>3. Head(frame.stack) \in Int /\ Tail(frame.stack) \in Seq(Int)
      /\ Len(Tail(frame.stack)) = Len(frame.stack) - 1 /\ Len(frame.stack) \in Nat
  BY <1>2, HeadTailProperties
<1>4. CASE PrintSign
  <2>1. <<Minus>> \in Seq(Bytes)
    BY DEF Minus, Bytes
  <2>2. frame' \in LongFrames
    BY <1>1, <1>4 DEF PrintSign, LongFrames
  <2>3. Write(<<Minus>>) /\ line' = line /\ frame' \in Plain
    BY <1>4, <2>2 DEF PrintSign, Plain
  <2> QED BY <2>1, <2>3, WriteStep DEF StdioInv, TypeInv
<1>5. CASE PrintPosDescend
  <2>1. PICK n \in Int : n = Head(frame.stack)
    BY <1>3
  <2>2. <<n \div 10>> \o frame.stack \in Seq(Int) \ {<<>>}
    <3>1. <<n \div 10>> \in Seq(Int) /\ Len(<<n \div 10>>) = 1
      OBVIOUS
    <3>2. <<n \div 10>> \o frame.stack \in Seq(Int) /\ Len(<<n \div 10>> \o frame.stack) = 1 + Len(frame.stack)
      BY <1>2, <3>1, ConcatProperties
    <3> QED BY <1>3, <3>2, EmptySeq
  <2>3. \/ frame' = [frame EXCEPT !.stack = <<n \div 10>> \o frame.stack]
        \/ frame' = [frame EXCEPT !.descend = FALSE]
    BY <1>5, <2>1 DEF PrintPosDescend
  <2>4. frame' \in LongFrames
    BY <1>1, <2>2, <2>3 DEF LongFrames
  <2>5. TypeInv'
    BY <1>5, <2>4 DEF StdioInv, TypeInv, PrintPosDescend, readerVars
  <2> QED BY <2>4, <2>5, PlainInv DEF Plain
<1>6. CASE PrintPosDigit
  <2>1. Rem10(Head(frame.stack)) + Zero \in Int
    BY <1>3 DEF Rem10, Zero
  <2>2. <<Byte(Rem10(Head(frame.stack)) + Zero)>> \in Seq(Bytes)
    BY <2>1 DEF Byte, Bytes
  <2>3. frame' \in Plain
    <3>1. CASE Len(frame.stack) = 1
      BY <1>6, <3>1 DEF PrintPosDigit, Return, Plain
    <3>2. CASE Len(frame.stack) # 1
      <4>1. Tail(frame.stack) # <<>>
        <5>1. Len(frame.stack) # 0
          BY <1>2, EmptySeq
        <5>2. Len(Tail(frame.stack)) # 0
          BY <1>3, <3>2, <5>1
        <5> QED BY <1>3, <5>2, EmptySeq
      <4>2. frame' = [frame EXCEPT !.stack = Tail(frame.stack)]
        BY <1>6, <3>2 DEF PrintPosDigit
      <4>3. frame' \in LongFrames
        BY <1>1, <1>3, <4>1, <4>2 DEF LongFrames
      <4> QED BY <4>3 DEF Plain
    <3> QED BY <3>1, <3>2
  <2>4. Write(<<Byte(Rem10(Head(frame.stack)) + Zero)>>) /\ line' = line
    BY <1>6 DEF PrintPosDigit
  <2> QED BY <2>2, <2>3, <2>4, WriteStep DEF StdioInv, TypeInv
<1> QED BY <1>4, <1>5, <1>6

-----------------------------------------------------------------------------
(* printf and its relatives.                                               *)

(* The calls that go through vfprintf.                                     *)
LEMMA CallTextInv ==
  ASSUME StdioInv, UNCHANGED readerVars,
         \/ \E t \in Formats : CallPrintf(t) \/ CallFprintf(t)
         \/ \E s \in Strings : CallPrintDouble(s)
  PROVE  StdioInv'
<1>1. ASSUME NEW t \in Formats, CallPrintf(t) \/ CallFprintf(t) PROVE StdioInv'
  <2>1. [fn |-> "vfprintf", text |-> t] \in Plain
    BY StdioAssumption DEF Plain, TextFrames, Bytes
  <2> QED BY <1>1, <2>1, EnterPlain DEF CallPrintf, CallFprintf
<1>2. ASSUME NEW s \in Strings, CallPrintDouble(s) PROVE StdioInv'
  <2>1. s \in Seq(Bytes) /\ NL \in Bytes
    BY StdioAssumption DEF Bytes, NL
  <2>2. Append(s, NL) \in Seq(Bytes)
    BY <2>1, AppendProperties
  <2>3. [fn |-> "vfprintf", text |-> Append(s, NL)] \in Plain
    BY <2>2 DEF Plain, TextFrames
  <2> QED BY <1>2, <2>3, EnterPlain DEF CallPrintDouble
<1> QED BY <1>1, <1>2

(* A character goes into stdout's buffer, which is flushed before it is    *)
(* full.                                                                   *)
LEMMA BufioPutInv ==
  ASSUME StdioInv, BufioPut, UNCHANGED readerVars
  PROVE  StdioInv'
<1>1. frame \in TextFrames /\ frame.text # <<>> /\ TypeInv
  BY FrameKinds DEF StdioInv, BufioPut
<1>2. frame.text \in Seq(Bytes) /\ line \in Seq(Bytes) /\ Len(line) < BufSize /\ BufSize \in Nat /\ BufSize > 0
  BY <1>1, StdioAssumption DEF TextFrames, TypeInv
<1>3. Head(frame.text) \in Bytes /\ Tail(frame.text) \in Seq(Bytes)
  BY <1>1, <1>2, HeadTailProperties
<1> DEFINE l == Append(line, Head(frame.text))
<1>4. l \in Seq(Bytes) /\ Len(l) = Len(line) + 1
  BY <1>2, <1>3, AppendProperties
<1>5. frame' = [frame EXCEPT !.text = Tail(frame.text)]
  BY DEF BufioPut
<1>6. frame' \in TextFrames
  BY <1>1, <1>3, <1>5 DEF TextFrames
<1>7. frame' \in Plain
  BY <1>6 DEF Plain
<1> HIDE DEF l
<1>8. CASE Head(frame.text) = NL \/ Len(l) = BufSize
  <2>1. Write(l) /\ line' = <<>>
    BY <1>8 DEF BufioPut, l
  <2>2. line' \in Seq(Bytes) /\ Len(line') = 0
    BY <2>1
  <2> QED BY <1>2, <1>4, <1>7, <2>1, <2>2, WriteStep
<1>9. CASE ~(Head(frame.text) = NL \/ Len(l) = BufSize)
  <2>1. line' = l /\ UNCHANGED <<calls, given, out, shorts, mem, rd>>
    BY <1>9 DEF BufioPut, l, readerVars
  <2>2. Len(l) < BufSize
    BY <1>2, <1>4, <1>9
  <2>3. TypeInv'
    BY <1>1, <1>4, <1>6, <2>1, <2>2 DEF TypeInv
  <2> QED BY <1>7, <2>3, PlainInv
<1> QED BY <1>8, <1>9

(* Steps that only end a call, and the end of the program.                 *)
LEMMA EndInv ==
  ASSUME StdioInv, UNCHANGED readerVars, VfprintfReturn \/ Exit
  PROVE  StdioInv'
<1>1. frame' = Idle /\ UNCHANGED <<calls, given, out, line, shorts, mem, rd>>
  BY DEF VfprintfReturn, Exit, Return, readerVars
<1>2. TypeInv'
  BY <1>1 DEF StdioInv, TypeInv
<1> QED BY <1>1, <1>2, PlainInv DEF Plain

-----------------------------------------------------------------------------
(* sprintf and snprintf.                                                   *)

(* A formatting call starts with its whole text and an untouched array.    *)
LEMMA StartStr ==
  ASSUME StdioInv, UNCHANGED readerVars, NEW fn, NEW t \in Formats,
         NEW f \in StrFrames, Enter(fn, t, f),
         f.text = t, f.pos = 0, f.old = mem, RoomOK(f, t)
  PROVE  StdioInv'
<1>1. TypeInv' /\ Current' = t /\ frame' = f /\ mem' = mem
  BY EnterTypes DEF StdioInv, Enter
<1>2. t \in Seq(Bytes) /\ Len(t) \in Nat /\ MemLen \in Nat
  BY StdioAssumption DEF Bytes
<1>3. f.end \in Nat
  BY DEF StrFrames
<1>4. Done(f, t) = 0
  BY <1>2 DEF Done
<1>5. \A i \in 1..Len(f.text) : f.text[i] = t[Done(f, t) + i]
  BY <1>2, <1>4
<1>6. \A i \in 0..MemLen - 1 : mem[i] = IF i < f.pos THEN t[i + 1] ELSE f.old[i]
  <2>1. \A i \in 0..MemLen - 1 : ~(i < 0)
    BY <1>2
  <2> QED BY <2>1
<1>7. f.pos = IF Done(f, t) <= f.end THEN Done(f, t) ELSE f.end
  BY <1>3, <1>4
<1>8. Len(f.text) <= Len(t)
  BY <1>2
<1>9. StrOK(f, t, mem)
  BY <1>2, <1>5, <1>6, <1>7, <1>8 DEF StrOK
<1>10. StrInv'
  BY <1>1, <1>9 DEF StrInv
<1>11. DigitInv'
  <2>1. f.fn = "str"
    BY DEF StrFrames
  <2> QED BY <1>1, <2>1 DEF DigitInv
<1> QED BY <1>1, <1>10, <1>11 DEF StdioInv

(* sprintf and snprintf start.                                             *)
LEMMA CallStrInv ==
  ASSUME StdioInv, UNCHANGED readerVars, NEW t \in Formats,
         CallSprintf(t) \/ \E n \in Sizes : CallSnprintf(n, t)
  PROVE  StdioInv'
<1>1. t \in Seq(Bytes) /\ mem \in Arrays /\ MemLen \in Nat /\ Len(t) < MemLen
  BY StdioAssumption DEF StdioInv, TypeInv, Bytes
<1>2. CASE CallSprintf(t)
  <2> DEFINE f == [fn |-> "str", text |-> t, pos |-> 0, end |-> 2147483646,
                   nul |-> TRUE, old |-> mem, n |-> MemLen]
  <2>1. f \in StrFrames
    BY <1>1 DEF StrFrames
  <2>2. f.text = t /\ f.pos = 0 /\ f.old = mem /\ f.n = MemLen /\ f.end = SprintfEnd /\ f.nul = TRUE
    BY DEF SprintfEnd
  <2>3. Enter("sprintf", t, f)
    BY <1>2 DEF CallSprintf
  <2> HIDE DEF f
  <2>4. RoomOK(f, t)
    BY <1>1, <2>2 DEF RoomOK
  <2> QED BY <2>1, <2>2, <2>3, <2>4, StartStr
<1>3. ASSUME NEW n \in Sizes, CallSnprintf(n, t) PROVE StdioInv'
  <2> DEFINE f == [fn |-> "str", text |-> t, pos |-> 0, end |-> IF n <= 0 THEN 0 ELSE n - 1,
                   nul |-> n > 0, old |-> mem, n |-> n]
  <2>1. n \in Int /\ n <= MemLen
    BY StdioAssumption
  <2>2. f \in StrFrames
    <3>1. (IF n <= 0 THEN 0 ELSE n - 1) \in Nat /\ (n > 0) \in BOOLEAN
      BY <2>1
    <3> QED BY <1>1, <2>1, <3>1 DEF StrFrames
  <2>3. /\ f.text = t /\ f.pos = 0 /\ f.old = mem /\ f.n = n
        /\ f.end = (IF n <= 0 THEN 0 ELSE n - 1) /\ f.nul = (n > 0)
    OBVIOUS
  <2>4. Enter("snprintf", t, f)
    BY <1>3 DEF CallSnprintf
  <2> HIDE DEF f
  <2>5. RoomOK(f, t)
    <3>1. CASE n <= 0
      <4>1. (n > 0) = FALSE
        BY <2>1, <3>1
      <4>2. f.n <= 0 /\ f.end = 0
        BY <2>3, <3>1
      <4>3. f.nul = FALSE
        BY <2>3, <4>1, Zenon
      <4> QED BY <4>2, <4>3, Zenon DEF RoomOK
    <3>2. CASE ~(n <= 0)
      <4>1. n > 0
        BY <2>1, <3>2
      <4>2. f.n > 0 /\ f.n <= MemLen /\ f.end = f.n - 1
        BY <2>1, <2>3, <3>2, <4>1
      <4>3. f.nul = TRUE
        BY <2>3, <4>1, Zenon
      <4> QED BY <4>2, <4>3, Zenon DEF RoomOK
    <3> QED BY <3>1, <3>2
  <2> QED BY <2>2, <2>3, <2>4, <2>5, StartStr
<1> QED BY <1>2, <1>3

(* What there is room for lies in the array.                               *)
LEMMA StrRoom ==
  ASSUME NEW f \in StrFrames, NEW t, NEW m, StrOK(f, t, m)
  PROVE  /\ f.text # <<>> /\ f.pos # f.end => f.pos \in 0..MemLen - 1
         /\ f.nul = TRUE => f.pos \in 0..MemLen - 1
<1>1. /\ t \in Seq(Bytes) /\ f.text \in Seq(Bytes) /\ f.pos \in Nat /\ f.end \in Nat /\ f.n \in Int
      /\ MemLen \in Nat /\ MemLen <= 2147483647
  BY StdioAssumption DEF StrFrames, StrOK
<1>2. PICK lt \in Nat, lx \in Nat : lt = Len(t) /\ lx = Len(f.text)
  BY <1>1
<1>3. /\ lx <= lt /\ f.pos = (IF lt - lx <= f.end THEN lt - lx ELSE f.end)
      /\ f.text # <<>> => lx # 0
  BY <1>1, <1>2, EmptySeq DEF StrOK, Done
<1>4. \/ f.n <= 0 /\ f.end = 0 /\ f.nul = FALSE
      \/ f.n > 0 /\ f.n <= MemLen /\ f.end = f.n - 1 /\ f.nul = TRUE
      \/ f.n = MemLen /\ f.end = SprintfEnd /\ f.nul = TRUE /\ lt < MemLen
  BY <1>2 DEF StrOK, RoomOK
<1>5. \/ f.n <= 0 /\ f.end = 0
      \/ f.n > 0 /\ f.n <= MemLen /\ f.end = f.n - 1
      \/ f.n = MemLen /\ f.end = SprintfEnd /\ lt < MemLen
  BY <1>4
<1>6. f.text # <<>> /\ f.pos # f.end => f.pos \in 0..MemLen - 1
  BY <1>1, <1>2, <1>3, <1>5 DEF SprintfEnd
<1>7. f.nul = TRUE => \/ f.n > 0 /\ f.n <= MemLen /\ f.end = f.n - 1
                      \/ f.n = MemLen /\ f.end = SprintfEnd /\ lt < MemLen
  BY <1>4
<1>8. ASSUME \/ f.n > 0 /\ f.n <= MemLen /\ f.end = f.n - 1
             \/ f.n = MemLen /\ f.end = SprintfEnd /\ lt < MemLen
      PROVE  f.pos \in 0..MemLen - 1
  BY <1>1, <1>2, <1>3, <1>8 DEF SprintfEnd
<1> QED BY <1>6, <1>7, <1>8

(* A character is stored if there is room, and dropped if not.             *)
LEMMA FileStrPutInv ==
  ASSUME StdioInv, FileStrPut, UNCHANGED readerVars
  PROVE  StdioInv'
<1>1. /\ frame \in StrFrames /\ frame.text # <<>> /\ StrOK(frame, Current, mem) /\ mem \in Arrays
      /\ TypeInv
  BY FrameKinds DEF StdioInv, TypeInv, StrInv, FileStrPut
<1>2. UNCHANGED <<calls, given, out, line, shorts, rd>>
  BY DEF FileStrPut, readerVars
<1>3. PICK t, f, m : t = Current /\ f = frame /\ m = mem
  OBVIOUS
<1>4. /\ f \in StrFrames /\ f.text # <<>> /\ StrOK(f, t, m) /\ m \in Arrays
  BY <1>1, <1>3
<1>5. PICK g, w : g = frame' /\ w = mem'
  OBVIOUS
<1>6. IF f.pos # f.end
      THEN w = [m EXCEPT ![f.pos] = Head(f.text)] /\ g = [f EXCEPT !.text = Tail(@), !.pos = @ + 1]
      ELSE g = [f EXCEPT !.text = Tail(@)] /\ w = m
  BY <1>3, <1>5 DEF FileStrPut
<1>7. /\ f.text \in Seq(Bytes) /\ f.pos \in Nat /\ f.end \in Nat
      /\ t \in Seq(Bytes) /\ Len(f.text) <= Len(t) /\ RoomOK(f, t)
  BY <1>4 DEF StrFrames, StrOK
<1>8. PICK lt \in Nat, lx \in Nat : lt = Len(t) /\ lx = Len(f.text) /\ lx # 0
  BY <1>4, <1>7, EmptySeq
<1>9. /\ Head(f.text) = f.text[1] /\ Tail(f.text) \in Seq(Bytes) /\ Len(Tail(f.text)) = lx - 1
      /\ \A i \in 1..lx - 1 : Tail(f.text)[i] = f.text[i + 1]
  BY <1>4, <1>7, <1>8, HeadTailProperties
<1>10. PICK d \in Nat : d = lt - lx /\ Done(f, t) = d
  <2>1. lt - lx \in Nat
    BY <1>7, <1>8
  <2>2. Done(f, t) = lt - lx
    BY <1>8 DEF Done
  <2> QED BY <2>1, <2>2
<1>11. /\ \A i \in 1..lx : f.text[i] = t[d + i]
       /\ f.pos = (IF d <= f.end THEN d ELSE f.end)
       /\ \A i \in 0..MemLen - 1 : m[i] = IF i < f.pos THEN t[i + 1] ELSE f.old[i]
  BY <1>4, <1>8, <1>10 DEF StrOK
<1>12. Head(f.text) = t[d + 1] /\ Head(f.text) \in Bytes
  <2>1. 1 \in 1..lx
    BY <1>8
  <2>2. f.text[1] \in Bytes
    BY <1>7, <1>8, <2>1
  <2> QED BY <1>9, <1>11, <2>1, <2>2
<1>13. ASSUME f.pos # f.end
       PROVE  f.pos = d /\ d + 1 <= f.end /\ f.pos \in 0..MemLen - 1
  <2>1. f.pos \in 0..MemLen - 1
    BY <1>4, <1>13, StrRoom
  <2> QED BY <1>7, <1>10, <1>11, <1>13, <2>1
<1>14. /\ g \in StrFrames /\ g.text = Tail(f.text) /\ g.end = f.end /\ g.old = f.old
       /\ g.nul = f.nul /\ g.n = f.n
       /\ g.pos = IF f.pos # f.end THEN f.pos + 1 ELSE f.pos
  <2>1. CASE f.pos # f.end
    <3>1. g = [f EXCEPT !.text = Tail(f.text), !.pos = f.pos + 1] /\ f.pos + 1 \in Nat
      BY <1>6, <1>7, <2>1
    <3>2. g = [fn |-> "str", text |-> Tail(f.text), pos |-> f.pos + 1, end |-> f.end,
               nul |-> f.nul, old |-> f.old, n |-> f.n]
      BY <1>4, <3>1 DEF StrFrames
    <3>3. g \in StrFrames
      BY <1>4, <1>9, <3>1, <3>2 DEF StrFrames
    <3> QED BY <2>1, <3>2, <3>3
  <2>2. CASE f.pos = f.end
    BY <1>4, <1>6, <1>7, <1>9, <2>2 DEF StrFrames
  <2> QED BY <2>1, <2>2
<1>15. w \in Arrays
  BY <1>4, <1>6, <1>12 DEF Arrays
<1>16. Done(g, t) = d + 1 /\ Len(g.text) = lx - 1 /\ Len(g.text) <= Len(t)
  <2>1. Len(g.text) = lx - 1 /\ Len(t) = lt
    BY <1>8, <1>9, <1>14
  <2>2. d \in Int /\ lt - (lx - 1) = d + 1 /\ lx - 1 <= lt
    BY <1>7, <1>8, <1>10
  <2> QED BY <2>1, <2>2 DEF Done
<1>17. \A i \in 1..Len(g.text) : g.text[i] = t[Done(g, t) + i]
  <2> SUFFICES ASSUME NEW i \in 1..lx - 1 PROVE Tail(f.text)[i] = t[(d + 1) + i]
    BY <1>14, <1>16
  <2>1. i + 1 \in 1..lx /\ d + (i + 1) = (d + 1) + i
    BY <1>8, <1>10
  <2>2. Tail(f.text)[i] = f.text[i + 1]
    BY <1>9
  <2>3. f.text[i + 1] = t[d + (i + 1)]
    BY <1>11, <2>1
  <2> QED BY <2>1, <2>2, <2>3
<1>18. g.pos = IF Done(g, t) <= g.end THEN Done(g, t) ELSE g.end
  <2>1. CASE f.pos # f.end
    BY <1>7, <1>10, <1>13, <1>14, <1>16, <2>1
  <2>2. CASE f.pos = f.end
    <3>1. f.end <= d
      BY <1>7, <1>10, <1>11, <2>2
    <3> QED BY <1>7, <1>10, <1>14, <1>16, <2>2, <3>1
  <2> QED BY <2>1, <2>2
<1>19. ASSUME NEW i \in 0..MemLen - 1
       PROVE  w[i] = IF i < g.pos THEN t[i + 1] ELSE g.old[i]
  <2>1. m[i] = IF i < f.pos THEN t[i + 1] ELSE f.old[i]
    BY <1>11
  <2>2. CASE f.pos = f.end
    BY <1>6, <1>14, <2>1, <2>2
  <2>3. CASE f.pos # f.end
    <3>1. f.pos = d /\ g.pos = d + 1 /\ i \in Int /\ MemLen \in Nat
      BY <1>13, <1>14, <2>3, StdioAssumption
    <3>2. w = [m EXCEPT ![d] = Head(f.text)]
      BY <1>6, <2>3, <3>1
    <3>3. w[i] = IF i = d THEN Head(f.text) ELSE m[i]
      BY <1>4, <3>2 DEF Arrays
    <3>4. CASE i = d
      BY <1>10, <1>12, <3>1, <3>3, <3>4
    <3>5. CASE i # d
      <4>1. i < d <=> i < d + 1
        BY <1>10, <3>1, <3>5
      <4> QED BY <1>14, <2>1, <3>1, <3>3, <3>5, <4>1
    <3> QED BY <3>4, <3>5
  <2> QED BY <2>2, <2>3
<1>20. RoomOK(g, t)
  BY <1>7, <1>14, Zenon DEF RoomOK
<1>21. StrOK(g, t, w)
  BY <1>7, <1>16, <1>17, <1>18, <1>19, <1>20 DEF StrOK
<1>22. Current' = t
  BY <1>2, <1>3 DEF Current
<1>23. StrInv'
  BY <1>5, <1>21, <1>22 DEF StrInv
<1>24. DigitInv'
  <2>1. g.fn = "str"
    BY <1>14 DEF StrFrames
  <2> QED BY <1>5, <2>1 DEF DigitInv
<1>25. TypeInv'
  BY <1>1, <1>2, <1>5, <1>14, <1>15 DEF TypeInv
<1> QED BY <1>23, <1>24, <1>25 DEF StdioInv

(* The terminator is stored.                                               *)
LEMMA StrReturnInv ==
  ASSUME StdioInv, StrReturn, UNCHANGED readerVars
  PROVE  StdioInv'
<1>1. frame \in StrFrames /\ StrOK(frame, Current, mem) /\ mem \in Arrays /\ TypeInv
  BY FrameKinds DEF StdioInv, TypeInv, StrInv, StrReturn
<1>2. UNCHANGED <<calls, given, out, line, shorts, rd>> /\ frame' = Idle
  BY DEF StrReturn, Return, readerVars
<1>3. mem' \in Arrays
  <2>1. CASE frame.nul = TRUE
    <3>1. mem' = [mem EXCEPT ![frame.pos] = 0]
      BY <2>1 DEF StrReturn
    <3>2. 0 \in Bytes
      BY DEF Bytes
    <3> QED BY <1>1, <3>1, <3>2 DEF Arrays
  <2>2. CASE frame.nul = FALSE
    BY <1>1, <2>2 DEF StrReturn
  <2>3. frame.nul \in BOOLEAN
    BY <1>1 DEF StrFrames
  <2> QED BY <2>1, <2>2, <2>3
<1>4. TypeInv'
  BY <1>1, <1>2, <1>3 DEF TypeInv
<1> QED BY <1>2, <1>4, PlainInv DEF Plain

-----------------------------------------------------------------------------
(* The reader, and all steps together.                                     *)

(* input() takes bytes that are there.                                     *)
LEMMA ReaderInv ==
  ASSUME StdioInv, Reader
  PROVE  StdioInv'
<1>1. UNCHANGED <<frame, calls, given, out, line, shorts, mem>>
  BY DEF Reader, writerVars
<1>2. out \in Seq(Bytes) /\ rd \in Nat /\ rd <= Len(out) /\ Len(out) \in Nat
  BY DEF StdioInv, TypeInv
<1>3. rd' = rd \/ (rd < Len(out) /\ rd' = rd + 1)
  BY DEF Reader, CallInput, InputByte, InputEOF
<1>4. rd' \in Nat /\ rd' <= Len(out)
  BY <1>2, <1>3
<1>5. TypeInv'
  BY <1>1, <1>4 DEF StdioInv, TypeInv
<1>6. DigitInv' /\ StrInv'
  <2>1. Current' = Current
    BY <1>1 DEF Current
  <2>2. DigitInv /\ StrInv
    BY DEF StdioInv
  <2>3. DigitInv'
    BY <1>1, <2>2 DEF DigitInv
  <2>4. StrInv'
    BY <1>1, <2>1, <2>2 DEF StrInv
  <2> QED BY <2>3, <2>4
<1> QED BY <1>5, <1>6 DEF StdioInv

(* The program starts with an untouched array and no call.                 *)
LEMMA InitInv ==
  ASSUME Init
  PROVE  StdioInv
<1>1. MemLen \in Nat /\ BufSize \in Nat /\ BufSize > 0
  BY StdioAssumption
<1>2. mem \in Arrays
  BY <1>1 DEF Init, Arrays, Bytes
<1>3. out \in Seq(Bytes) /\ Len(out) = 0 /\ line \in Seq(Bytes) /\ Len(line) = 0
      /\ calls \in Seq(Nat)
  BY DEF Init
<1>4. TypeInv
  BY <1>1, <1>2, <1>3 DEF Init, TypeInv
<1>5. frame.fn = "none"
  BY DEF Init, Idle
<1> QED BY <1>4, <1>5 DEF StdioInv, DigitInv, StrInv

(* Every step preserves the invariant.                                     *)
LEMMA NextInv ==
  ASSUME StdioInv, [Next]_vars
  PROVE  StdioInv'
<1>1. CASE Call /\ UNCHANGED readerVars
  BY <1>1, CallOutputInv, CallPrintLongInv, CallListInv, CallTextInv, CallStrInv DEF Call
<1>2. CASE Writer /\ ~Call
  BY <1>2, OutputDigitInv, OutputWriteInv, WriteNextInv, PrintLongInv, BufioPutInv, EndInv,
     FileStrPutInv, StrReturnInv DEF Writer
<1>3. CASE Reader
  BY <1>3, ReaderInv
<1>4. CASE UNCHANGED vars
  <2>1. UNCHANGED <<frame, calls, given, out, line, shorts, mem, rd>>
    BY <1>4 DEF vars, writerVars, readerVars
  <2>2. TypeInv'
    BY <2>1 DEF StdioInv, TypeInv
  <2>3. Current' = Current
    BY <2>1 DEF Current
  <2>4. DigitInv' /\ StrInv'
    BY <2>1, <2>3 DEF StdioInv, DigitInv, StrInv
  <2> QED BY <2>2, <2>4 DEF StdioInv
<1> QED BY <1>1, <1>2, <1>3, <1>4 DEF Next, Writer

(* The invariant holds.                                                    *)
LEMMA StdioAlways == Spec => []StdioInv
<1>1. Init => StdioInv
  BY InitInv
<1>2. StdioInv /\ [Next]_vars => StdioInv'
  BY NextInv
<1> QED BY <1>1, <1>2, PTL DEF Spec

-----------------------------------------------------------------------------
(* The theorems.                                                           *)

(* Whatever is printed, the digits, the sign and the newline of output()   *)
(* stay inside its buffer, stdout's buffer is flushed before it overflows, *)
(* and only bytes leave the program (stdio.c:17-49, printf.c:46-128).      *)
THEOREM BufferStaysBounded == Spec => []BufferBound
<1>1. StdioInv => BufferBound
  <2> SUFFICES ASSUME StdioInv PROVE BufferBound
    OBVIOUS
  <2>1. /\ out \in Seq(Bytes) /\ rd \in Nat /\ rd <= Len(out) /\ Len(out) \in Nat
        /\ Len(line) < BufSize /\ mem \in Arrays
    BY DEF StdioInv, TypeInv
  <2>2. \A i \in DOMAIN mem : mem[i] \in 0..255
    BY <2>1 DEF Arrays, Bytes
  <2>3. ASSUME frame.fn = "output"
        PROVE  Len(frame.buf) + (IF frame.neg THEN 1 ELSE 0) <= BufLen
    <3>1. frame \in OutputFrames /\ DigitsOK(frame)
      BY <2>3, FrameKinds DEF StdioInv, DigitInv
    <3>2. PICK n \in Nat : n = Len(frame.buf)
      BY <3>1 DEF OutputFrames
    <3>3. n + 1 <= BufLen /\ BufLen \in Nat
      BY <3>1, <3>2, StdioAssumption DEF DigitsOK
    <3>4. (IF frame.neg THEN 1 ELSE 0) \in {0, 1}
      BY Zenon
    <3>5. \A k \in {0, 1} : n + k <= BufLen
      BY <3>3
    <3> QED BY <3>2, <3>4, <3>5
  <2>4. rd \in 0..Len(out)
    BY <2>1
  <2> QED BY <2>1, <2>2, <2>3, <2>4 DEF BufferBound, Bytes
<1> QED BY <1>1, StdioAlways, PTL

(* What a formatting call leaves behind when it returns.                   *)
Fitting(f, t) ==
  IF f.n <= 0 THEN 0 ELSE IF Len(t) < f.n THEN Len(t) ELSE f.n - 1
Fits(f, t, m, v, r) ==
  /\ r = Len(t)
  /\ \A i \in DOMAIN m : v[i] = CASE i < Fitting(f, t)                -> t[i + 1]
                                  [] i = Fitting(f, t) /\ f.n > 0     -> 0
                                  [] OTHER                            -> f.old[i]

(* A call whose text is used up has reached the end of what fits.          *)
LEMMA UsedUp ==
  ASSUME NEW f \in StrFrames, NEW t, NEW m, StrOK(f, t, m), f.text = <<>>
  PROVE  f.pos = Fitting(f, t) /\ (f.nul <=> f.n > 0)
<1>1. /\ t \in Seq(Bytes) /\ f.pos \in Nat /\ f.end \in Nat /\ f.n \in Int
      /\ MemLen \in Nat /\ RoomOK(f, t)
  BY StdioAssumption, SMT DEF StrFrames, StrOK
<1>2. PICK lt \in Nat : lt = Len(t)
  BY <1>1
<1>3. f.pos = (IF lt <= f.end THEN lt ELSE f.end)
  <2>1. Len(f.text) = 0
    OBVIOUS
  <2>2. Done(f, t) = lt
    BY <1>2, <2>1 DEF Done
  <2> QED BY <2>2 DEF StrOK
<1>4. CASE f.n <= 0 /\ f.end = 0 /\ f.nul = FALSE
  <2>1. f.pos = Fitting(f, t)
    BY <1>1, <1>3, <1>4 DEF Fitting
  <2>2. ~(f.n > 0)
    BY <1>1, <1>4
  <2> QED BY <1>4, <2>1, <2>2
<1>5. CASE f.n > 0 /\ f.n <= MemLen /\ f.end = f.n - 1 /\ f.nul = TRUE
  <2>1. f.pos = Fitting(f, t)
    <3>1. ~(f.n <= 0) /\ (lt < f.n <=> lt <= f.n - 1)
      BY <1>1, <1>2, <1>5
    <3> QED BY <1>2, <1>3, <1>5, <3>1 DEF Fitting
  <2> QED BY <1>5, <2>1
<1>6. CASE f.n = MemLen /\ f.end = SprintfEnd /\ f.nul = TRUE /\ Len(t) < MemLen
  <2>1. lt < f.n /\ f.n > 0 /\ ~(f.n <= 0) /\ lt <= f.end
    BY <1>1, <1>2, <1>6, StdioAssumption, SMT DEF SprintfEnd
  <2>2. f.pos = Fitting(f, t)
    BY <1>2, <1>3, <2>1 DEF Fitting
  <2> QED BY <1>6, <2>1, <2>2
<1> QED BY <1>1, <1>4, <1>5, <1>6 DEF RoomOK

(* The array is then as it should be.                                      *)
LEMMA ArrayFits ==
  ASSUME NEW f \in StrFrames, NEW t, NEW m \in Arrays, StrOK(f, t, m), f.text = <<>>,
         NEW v, v = IF f.nul THEN [m EXCEPT ![f.pos] = 0] ELSE m
  PROVE  Fits(f, t, m, v, Len(t))
<1>1. PICK w : w = f.pos
  OBVIOUS
<1>2. w = Fitting(f, t) /\ (f.nul <=> f.n > 0) /\ w \in Nat
  BY <1>1, UsedUp DEF StrFrames
<1>3. MemLen \in Nat /\ DOMAIN m = 0..MemLen - 1
  BY StdioAssumption DEF Arrays
<1> SUFFICES ASSUME NEW i \in 0..MemLen - 1
             PROVE  v[i] = CASE i < w              -> t[i + 1]
                             [] i = w /\ f.n > 0   -> 0
                             [] OTHER              -> f.old[i]
  BY <1>2, <1>3 DEF Fits
<1>4. m[i] = IF i < w THEN t[i + 1] ELSE f.old[i]
  BY <1>1 DEF StrOK
<1>5. CASE i < w
  <2>1. i # w
    BY <1>2, <1>5
  <2>2. v[i] = m[i]
    BY <1>1, <1>3, <2>1
  <2>3. v[i] = t[i + 1]
    BY <1>4, <1>5, <2>2
  <2> QED BY <1>5, <2>1, <2>3
<1>6. CASE ~(i < w) /\ i = w /\ f.n > 0
  <2>1. v[i] = 0
    BY <1>1, <1>2, <1>3, <1>6
  <2> QED BY <1>6, <2>1
<1>7. CASE ~(i < w) /\ ~(i = w /\ f.n > 0)
  <2>1. v[i] = m[i]
    BY <1>1, <1>2, <1>3, <1>7
  <2>2. v[i] = f.old[i]
    BY <1>4, <1>7, <2>1
  <2> QED BY <1>7, <2>2
<1> QED BY <1>5, <1>6, <1>7

(* Only its return ends a formatting call.                                 *)
LEMMA StrEnds ==
  ASSUME StdioInv, [Next]_vars, frame.fn = "str", frame' = Idle
  PROVE  StrReturn
<1>1. /\ Idle.fn # "str" /\ Idle.fn = "none"
      /\ \A f \in StrFrames : f # Idle
  BY DEF Idle, StrFrames
<1>2. ~Call
  <2>1. \A fn, arg, f : ~Enter(fn, arg, f)
    BY <1>1 DEF Enter
  <2>2. \A x : ~CallOutput(x) /\ ~CallPrintLong(x) /\ ~CallPrintChar(x) /\ ~CallPutchar(x)
    BY <2>1 DEF CallOutput, CallPrintLong, CallPrintChar, CallPutchar
  <2>3. \A t : ~CallPrintString(t) /\ ~CallPuts(t) /\ ~CallPrintDouble(t) /\ ~CallPrintf(t) /\ ~CallFprintf(t)
    BY <2>1 DEF CallPrintString, CallPuts, CallPrintDouble, CallPrintf, CallFprintf
  <2>4. \A t : ~CallSprintf(t) /\ \A n : ~CallSnprintf(n, t)
    BY <2>1, SMT DEF CallSprintf, CallSnprintf
  <2> QED BY <2>2, <2>3, <2>4 DEF Call
<1>3. ~OutputDigit /\ ~OutputWrite /\ ~WriteNext /\ ~PrintSign /\ ~PrintPosDescend /\ ~PrintPosDigit
      /\ ~BufioPut /\ ~VfprintfReturn
  BY DEF OutputDigit, OutputWrite, WriteNext, PrintSign, PrintPosDescend, PrintPosDigit,
     BufioPut, VfprintfReturn
<1>4. ~Exit
  BY <1>1 DEF Exit
<1>5. ~FileStrPut
  <2> SUFFICES ASSUME FileStrPut PROVE FALSE
    OBVIOUS
  <2>1. frame \in StrFrames
    BY FrameKinds DEF StdioInv
  <2>2. \/ frame' = [frame EXCEPT !.text = Tail(@), !.pos = @ + 1]
        \/ frame' = [frame EXCEPT !.text = Tail(@)]
    BY DEF FileStrPut
  <2>3. frame'.fn = "str"
    BY <2>1, <2>2 DEF StrFrames
  <2> QED BY <1>1, <2>3
<1>6. ~Reader /\ ~UNCHANGED vars
  BY <1>1 DEF Reader, vars, writerVars
<1> QED BY <1>2, <1>3, <1>4, <1>5, <1>6 DEF Next, Writer

(* When sprintf or snprintf returns, the array holds as much of the text   *)
(* as fits, its terminator and nothing else new, and the result is the     *)
(* length of the whole text (printf.c:79-128).                             *)
THEOREM FormatsFit == Spec => FormatFits
<1> DEFINE FitsStep ==
      (frame.fn = "str" /\ frame' = Idle) =>
        LET t == calls[Len(calls)].arg
            w == IF frame.n <= 0 THEN 0 ELSE IF Len(t) < frame.n THEN Len(t) ELSE frame.n - 1
        IN  /\ ret' = Len(t)
            /\ \A i \in DOMAIN mem :
                 mem'[i] = CASE i < w                  -> t[i + 1]
                             [] i = w /\ frame.n > 0   -> 0
                             [] OTHER                  -> frame.old[i]
<1>1. StdioInv /\ [Next]_vars => FitsStep
  <2> SUFFICES ASSUME StdioInv, [Next]_vars, frame.fn = "str", frame' = Idle PROVE FitsStep
    OBVIOUS
  <2>1. StrReturn
    BY StrEnds
  <2>2. frame \in StrFrames /\ StrOK(frame, Current, mem) /\ mem \in Arrays
    BY FrameKinds DEF StdioInv, TypeInv, StrInv
  <2>3. /\ frame.text = <<>> /\ ret' = Len(Current)
        /\ mem' = IF frame.nul THEN [mem EXCEPT ![frame.pos] = 0] ELSE mem
    BY <2>1 DEF StrReturn, Return, Current
  <2>4. PICK f, t, m, v : f = frame /\ t = Current /\ m = mem /\ v = mem'
    OBVIOUS
  <2>5. Fits(f, t, m, v, Len(t))
    BY <2>2, <2>3, <2>4, ArrayFits
  <2>6. Fits(frame, Current, mem, mem', ret')
    BY <2>3, <2>4, <2>5
  <2> QED BY <2>6 DEF Fits, Fitting, Current
<1>2. StdioInv /\ [Next]_vars => [FitsStep]_vars
  BY <1>1
<1>3. [][FitsStep]_vars => FormatFits
  BY PTL DEF FormatFits
<1> HIDE DEF FitsStep
<1> QED BY <1>2, <1>3, StdioAlways, PTL DEF Spec

-----------------------------------------------------------------------------
(* The output functions implement ByteStream.                              *)

(* The decimal digits of a number.                                         *)
LEMMA DigitsDef ==
  /\ Digits \in [Nat -> Seq(Bytes)]
  /\ \A n \in Nat : /\ n < 10 => Digits[n] = <<Zero + n>>
                    /\ n >= 10 => Digits[n] = Append(Digits[n \div 10], Zero + (n % 10))
<1> DEFINE V == Seq(Bytes)
           P == [n \in Nat |-> n \div 10]
           s == [p \in Nat \X V |-> Append(p[2], Zero + (p[1] % 10))]
           b == [n \in 0..9 |-> <<Zero + n>>]
           D(f) == [n \in Nat |-> IF n < 10 THEN <<Zero + n>> ELSE Append(f[n \div 10], Zero + (n % 10))]
<1>1. P \in [Nat -> Nat] /\ \A n \in Nat \ (0..9) : P[n] < n
  OBVIOUS
<1>2. b \in [0..9 -> V]
  <2>1. \A n \in 0..9 : Zero + n \in Bytes
    BY DEF Zero, Bytes
  <2>2. \A n \in 0..9 : <<Zero + n>> \in V
    BY <2>1
  <2> HIDE DEF V
  <2> QED BY <2>2
<1>3. \A n \in Nat, v \in V : Append(v, Zero + (n % 10)) \in V
  <2>1. \A n \in Nat : n % 10 \in 0..9
    OBVIOUS
  <2>2. \A n \in 0..9 : Zero + n \in Bytes
    BY DEF Zero, Bytes
  <2>3. \A n \in Nat : Zero + (n % 10) \in Bytes
    BY <2>1, <2>2
  <2> QED BY <2>3, AppendProperties
<1>4. s \in [Nat \X V -> V]
  <2> HIDE DEF V
  <2> QED BY <1>3
<1>5. PICK f \in [Nat -> V] : Recurses(f, 0..9, b, P, s)
  <2>1. Recursion(V, 0..9, b, P, s)
    <3> HIDE DEF V, P, s, b
    <3> QED BY <1>1, <1>2, <1>4 DEF Recursion
  <2> HIDE DEF V, P, s, b
  <2> QED BY <2>1, RecursionOnNat
<1>6. ASSUME NEW n \in Nat PROVE f[n] = D(f)[n]
  <2>1. f[n] = IF n \in 0..9 THEN b[n] ELSE s[<<n, f[P[n]]>>]
    <3> HIDE DEF s, b, P
    <3> QED BY <1>5 DEF Recurses
  <2>2. D(f)[n] = IF n < 10 THEN <<Zero + n>> ELSE Append(f[n \div 10], Zero + (n % 10))
    OBVIOUS
  <2>3. CASE n < 10
    <3>0. n \in 0..9
      BY <2>3
    <3>1. n \in 0..9 /\ b[n] = <<Zero + n>>
      BY <3>0
    <3> HIDE DEF b, s, D
    <3> QED BY <2>1, <2>2, <2>3, <3>1
  <2>4. CASE ~(n < 10)
    <3>1. n \notin 0..9 /\ P[n] = n \div 10 /\ n \div 10 \in Nat
      BY <2>4
    <3>2. f[n \div 10] \in V
      BY <1>5, <3>1
    <3>3. s[<<n, f[n \div 10]>>] = Append(f[n \div 10], Zero + (n % 10))
      <4> HIDE DEF V
      <4> QED BY <3>2
    <3> HIDE DEF b, s, D, P
    <3> QED BY <2>1, <2>2, <2>4, <3>1, <3>3
  <2> QED BY <2>3, <2>4
<1>7. f = D(f)
  <2>1. DOMAIN f = Nat /\ f = [n \in DOMAIN f |-> f[n]]
    BY <1>5
  <2> QED BY <1>6, <2>1
<1>8. Digits = [n \in Nat |-> IF n < 10 THEN <<Zero + n>>
                              ELSE Append(Digits[n \div 10], Zero + (n % 10))]
  <2>1. \E g : g = [n \in Nat |-> IF n < 10 THEN <<Zero + n>>
                                  ELSE Append(g[n \div 10], Zero + (n % 10))]
    BY <1>7
  <2> QED BY <2>1 DEF Digits
<1>9. \A n \in Nat : Digits[n] = IF n < 10 THEN <<Zero + n>>
                                 ELSE Append(Digits[n \div 10], Zero + (n % 10))
  BY <1>8
<1> DEFINE Bad == {n \in Nat : Digits[n] \notin V}
<1>10. Bad = {}
  <2> SUFFICES ASSUME Bad # {} PROVE FALSE
    OBVIOUS
  <2>1. PICK n \in Bad : \A k \in Bad : n <= k
    BY Least
  <2>2. n \in Nat /\ Digits[n] \notin V
    OBVIOUS
  <2>3. CASE n < 10
    <3>0. n \in 0..9
      BY <2>2, <2>3
    <3>1. n \in 0..9 /\ b[n] = <<Zero + n>>
      BY <3>0
    <3>2. b[n] \in V
      <4> HIDE DEF b, V
      <4> QED BY <1>2, <3>1
    <3> HIDE DEF V, b
    <3> QED BY <1>9, <2>2, <2>3, <3>1, <3>2
  <2>4. CASE ~(n < 10)
    <3>1. n \div 10 \in Nat /\ n \div 10 < n
      BY <2>2, <2>4
    <3>2. n \div 10 \notin Bad
      BY <2>1, <2>2, <3>1
    <3>3. Digits[n \div 10] \in V
      BY <3>1, <3>2
    <3> HIDE DEF V
    <3> QED BY <1>3, <1>9, <2>2, <2>4, <3>3
  <2> QED BY <2>3, <2>4
<1>11. Digits \in [Nat -> V]
  <2> HIDE DEF V
  <2>1. \A n \in Nat : Digits[n] \in V
    BY <1>10
  <2>2. DOMAIN Digits = Nat /\ Digits = [n \in DOMAIN Digits |-> Digits[n]]
    BY <1>8
  <2> QED BY <2>1, <2>2
<1>12. ASSUME NEW n \in Nat
       PROVE  /\ n < 10 => Digits[n] = <<Zero + n>>
              /\ n >= 10 => Digits[n] = Append(Digits[n \div 10], Zero + (n % 10))
  <2>1. n < 10 => Digits[n] = <<Zero + n>>
    BY <1>9
  <2>2. n >= 10 => ~(n < 10)
    OBVIOUS
  <2>3. ~(n < 10) => Digits[n] = Append(Digits[n \div 10], Zero + (n % 10))
    BY <1>9
  <2> QED BY <2>1, <2>2, <2>3
<1> QED BY <1>11, <1>12

(* What is left of a text after its first g bytes.                         *)
Rest(t, g) == SubSeq(t, g + 1, Len(t))

(* Its bytes are the text's from there on.                                 *)
LEMMA RestFacts ==
  ASSUME NEW t \in Seq(Bytes), NEW g \in 0..Len(t)
  PROVE  /\ Rest(t, g) \in Seq(Bytes) /\ Len(Rest(t, g)) = Len(t) - g
         /\ \A i \in 1..Len(t) - g : Rest(t, g)[i] = t[g + i]
         /\ Rest(t, 0) = t
<1>1. PICK n \in Nat : n = Len(t)
  OBVIOUS
<1>2. g \in Nat /\ g <= n /\ g + 1 \in Int /\ n - (g + 1) + 1 = n - g
  BY <1>1
<1>3. \A i \in g + 1..n : t[i] \in Bytes
  BY <1>1, <1>2
<1>4. /\ Rest(t, g) \in Seq(Bytes)
      /\ Len(Rest(t, g)) = IF g + 1 <= n THEN n - (g + 1) + 1 ELSE 0
      /\ \A i \in 1..n - (g + 1) + 1 : Rest(t, g)[i] = t[(g + 1) + i - 1]
  BY <1>1, <1>2, <1>3, SubSeqProperties DEF Rest
<1>5. Len(Rest(t, g)) = n - g
  BY <1>2, <1>4
<1>6. \A i \in 1..n - g : (g + 1) + i - 1 = g + i
  BY <1>2
<1>7. \A i \in 1..n - g : Rest(t, g)[i] = t[g + i]
  BY <1>2, <1>4, <1>6
<1>8. Rest(t, 0) = t
  BY SubSeqFull DEF Rest
<1> QED BY <1>1, <1>4, <1>5, <1>7, <1>8

(* Giving away the beginning b of what is left, only r remains.            *)
Gives(t, g, b, r) ==
  /\ g + Len(b) \in 0..Len(t) /\ Rest(t, g + Len(b)) = r
  /\ SubSeq(Rest(t, g), Len(b) + 1, Len(Rest(t, g))) = r
  /\ \A k \in 0..Len(b) : SubSeq(Rest(t, g), 1, k) = SubSeq(b, 1, k)

(* So it is when what is left is b followed by r.                          *)
LEMMA RestStep ==
  ASSUME NEW t \in Seq(Bytes), NEW g \in 0..Len(t), NEW b \in Seq(Bytes), NEW r \in Seq(Bytes),
         Rest(t, g) = b \o r
  PROVE  Gives(t, g, b, r)
<1>1. PICK n \in Nat, x \in Nat, y \in Nat : n = Len(t) /\ x = Len(b) /\ y = Len(r)
  OBVIOUS
<1>2. g \in Nat /\ g <= n
  BY <1>1
<1>3. /\ b \o r \in Seq(Bytes) /\ Len(b \o r) = x + y
      /\ \A i \in 1..x + y : (b \o r)[i] = IF i <= x THEN b[i] ELSE r[i - x]
  BY <1>1, ConcatProperties
<1>4. /\ Len(b \o r) = n - g
      /\ \A i \in 1..n - g : (b \o r)[i] = t[g + i]
  BY <1>1, RestFacts
<1>5. x + y = n - g /\ g + x \in 0..n /\ n - (g + x) = y
  BY <1>1, <1>2, <1>3, <1>4
<1>6. Rest(t, g + x) = r
  <2>1. /\ Rest(t, g + x) \in Seq(Bytes) /\ Len(Rest(t, g + x)) = y
        /\ \A i \in 1..y : Rest(t, g + x)[i] = t[(g + x) + i]
    BY <1>1, <1>5, RestFacts
  <2>2. ASSUME NEW i \in 1..y PROVE t[(g + x) + i] = r[i]
    <3>1. x + i \in 1..x + y /\ ~(x + i <= x) /\ (x + i) - x = i /\ g + (x + i) = (g + x) + i
      BY <1>1, <1>2
    <3>2. (b \o r)[x + i] = r[i]
      BY <1>3, <3>1
    <3>3. (b \o r)[x + i] = t[g + (x + i)]
      BY <1>4, <1>5, <3>1
    <3> QED BY <3>1, <3>2, <3>3
  <2> QED BY <1>1, <2>1, <2>2, SeqEqual
<1>7. SubSeq(b \o r, x + 1, x + y) = r
  <2>1. \A i \in x + 1..x + y : (b \o r)[i] \in Bytes
    BY <1>1, <1>3
  <2>2. /\ SubSeq(b \o r, x + 1, x + y) \in Seq(Bytes)
        /\ Len(SubSeq(b \o r, x + 1, x + y)) = IF x + 1 <= x + y THEN (x + y) - (x + 1) + 1 ELSE 0
        /\ \A i \in 1..(x + y) - (x + 1) + 1 : SubSeq(b \o r, x + 1, x + y)[i] = (b \o r)[(x + 1) + i - 1]
    <3>1. PICK c, i, j : c = b \o r /\ i = x + 1 /\ j = x + y
      OBVIOUS
    <3>2. i \in Int /\ j \in Int
      BY <1>1, <3>1
    <3>3. \A k \in i..j : c[k] \in Bytes
      BY <2>1, <3>1
    <3>4. /\ SubSeq(c, i, j) \in Seq(Bytes)
          /\ Len(SubSeq(c, i, j)) = IF i <= j THEN j - i + 1 ELSE 0
          /\ \A k \in 1..j - i + 1 : SubSeq(c, i, j)[k] = c[i + k - 1]
      BY <3>2, <3>3, SubSeqProperties
    <3> QED BY <3>1, <3>4
  <2>3. (x + y) - (x + 1) + 1 = y /\ Len(SubSeq(b \o r, x + 1, x + y)) = y
    BY <1>1, <2>2
  <2>4. ASSUME NEW i \in 1..y PROVE SubSeq(b \o r, x + 1, x + y)[i] = r[i]
    <3>1. x + i \in 1..x + y /\ ~(x + i <= x) /\ (x + i) - x = i /\ (x + 1) + i - 1 = x + i
      BY <1>1
    <3>2. (b \o r)[x + i] = r[i]
      BY <1>3, <3>1
    <3> QED BY <2>2, <2>3, <3>1, <3>2
  <2> QED BY <1>1, <2>2, <2>3, <2>4, SeqEqual
<1>8. ASSUME NEW k \in 0..x PROVE SubSeq(b \o r, 1, k) = SubSeq(b, 1, k)
  <2>1. CASE k = 0
    BY <2>1, SubSeqEmpty
  <2>2. CASE k # 0
    <3>1. 1 \in 1..Len(b) /\ k \in 1..Len(b)
      BY <1>1, <2>2
    <3> QED BY <3>1, SubSeqOfConcat1
  <2> QED BY <2>1, <2>2
<1> QED BY <1>1, <1>3, <1>5, <1>6, <1>7, <1>8 DEF Gives

(* How the texts must be for the functions to keep the order: a text given *)
(* to printf is empty or ends in a newline, and LongMin, whose negation    *)
(* overflows, is not printed.                                              *)
WellUsed == (\A t \in Formats : t = <<>> \/ t[Len(t)] = NL) /\ LongMin \notin Ints

(* What the call in progress has still to give away, by what it keeps.     *)
Sign(f)  == IF f.neg THEN <<Minus>> ELSE <<>>
Left(v)  == IF v = 0 THEN <<>> ELSE Digits[v]
Units(s) == [i \in 1..Len(s) |-> Zero + (s[i] % 10)]

OutputLeft(f, r) == f.val \in Nat /\ r = Sign(f) \o (Left(f.val) \o f.buf)
ListLeft(f, r) == f.list = <<r>> \/ (Len(f.list) = 2 /\ r = f.list[1] \o f.list[2])
LongLeft(f, r) ==
  /\ f.stack \in Seq(Nat)
  /\ IF f.descend THEN r = Sign(f) \o (Digits[Head(f.stack)] \o Units(Tail(f.stack)))
     ELSE f.neg = FALSE /\ r = Units(f.stack)
TextLeft(f, l, r) ==
  /\ r = l \o f.text
  /\ IF f.text = <<>> THEN l = <<>> ELSE f.text[Len(f.text)] = NL

Pending(f, l, r) ==
  /\ f.fn # "vfprintf" => l = <<>>
  /\ f.fn \in {"none", "str"} => r = <<>>
  /\ f.fn = "output" => OutputLeft(f, r)
  /\ f.fn = "list" => ListLeft(f, r)
  /\ f.fn = "long" => LongLeft(f, r)
  /\ f.fn = "vfprintf" => TextLeft(f, l, r)

LastText == Text(calls[Len(calls)])
Started  == calls # <<>> /\ LastText \in Seq(Bytes) /\ given \in 0..Len(LastText)

StreamInv == (Started \/ (calls = <<>> /\ frame = Idle)) /\ Pending(frame, line, Todo)

StreamStep == [Stream!Begin \/ Stream!GiveSome]_<<Todo, out, shorts>>

(* Todo is the rest of the last call's text.                               *)
LEMMA TodoIsRest ==
  ASSUME Started
  PROVE  Todo = Rest(LastText, given) /\ Todo \in Seq(Bytes)
<1>1. Todo = Rest(LastText, given)
  BY DEF Started, Todo, Rest, LastText
<1>2. PICK t, g : t = LastText /\ g = given
  OBVIOUS
<1>3. t \in Seq(Bytes) /\ g \in 0..Len(t)
  BY <1>2 DEF Started
<1>4. Rest(t, g) \in Seq(Bytes)
  BY <1>3, RestFacts
<1> QED BY <1>1, <1>2, <1>4

(* A write of the next bytes of the text is a step of the stream.          *)
LEMMA WriteGives ==
  ASSUME TypeInv, Started, NEW b \in Seq(Bytes), NEW r \in Seq(Bytes), Todo = b \o r, Write(b)
  PROVE  StreamStep /\ Started' /\ Todo' = r
<1>1. PICK t, g, d : t = LastText /\ g = given /\ d = Todo
  OBVIOUS
<1>2. t \in Seq(Bytes) /\ g \in 0..Len(t) /\ d = Rest(t, g) /\ d \in Seq(Bytes) /\ d = b \o r
  BY <1>1, TodoIsRest DEF Started
<1>3. /\ g + Len(b) \in 0..Len(t) /\ Rest(t, g + Len(b)) = r
      /\ SubSeq(d, Len(b) + 1, Len(d)) = r
      /\ \A k \in 0..Len(b) : SubSeq(d, 1, k) = SubSeq(b, 1, k)
  <2>1. Rest(t, g) = b \o r
    BY <1>2
  <2>2. Gives(t, g, b, r)
    BY <1>2, <2>1, RestStep
  <2> QED BY <1>2, <2>2 DEF Gives
<1>4. calls' = calls /\ given' = given + Len(b)
  BY DEF Write
<1>5. LastText' = t /\ calls' # <<>>
  <2>1. LastText' = LastText
    BY <1>4 DEF LastText
  <2> QED BY <1>1, <1>4, <2>1 DEF Started
<1>6. Started'
  BY <1>1, <1>2, <1>3, <1>4, <1>5 DEF Started
<1>7. Todo' = r
  <2>1. Todo' = Rest(LastText', given')
    BY <1>5 DEF Todo, Rest, LastText
  <2> QED BY <1>1, <1>3, <1>4, <1>5, <2>1
<1>8. PICK k \in 0..Len(b) : /\ out' = out \o SubSeq(b, 1, k)
                             /\ shorts' = IF k < Len(b) THEN shorts + 1 ELSE shorts
  BY DEF Write
<1>9. Len(d) = Len(b) + Len(r) /\ Len(b) \in Nat /\ Len(r) \in Nat
  BY <1>2, ConcatProperties
<1>10. CASE Len(b) # 0
  <2>1. Len(b) \in 1..Len(d)
    BY <1>9, <1>10
  <2>2. Stream!Give(Len(b), k)
    BY <1>1, <1>3, <1>7, <1>8 DEF Stream!Give
  <2>3. Stream!GiveSome
    BY <1>1, <2>1, <2>2 DEF Stream!GiveSome
  <2> QED BY <1>6, <1>7, <2>3 DEF StreamStep
<1>11. CASE Len(b) = 0
  <2>1. b = <<>>
    BY <1>11, EmptySeq
  <2>2. d = r
    BY <1>2, <2>1, ConcatEmptySeq
  <2>3. k = 0 /\ SubSeq(b, 1, k) = <<>> /\ shorts' = shorts
    BY <1>8, <1>11, SubSeqEmpty
  <2>4. out' = out
    <3>1. out \in Seq(Bytes)
      BY DEF TypeInv
    <3> QED BY <1>8, <2>3, <3>1, ConcatEmptySeq
  <2>5. Todo' = Todo
    BY <1>1, <1>7, <2>2
  <2> QED BY <1>6, <1>7, <2>3, <2>4, <2>5 DEF StreamStep
<1> QED BY <1>10, <1>11

(* A call in progress is the last one.                                     *)
LEMMA InProgress ==
  ASSUME StreamInv, frame.fn # "none"
  PROVE  Started
BY DEF StreamInv, Idle

(* Three kinds of steps: a call that starts, ...                           *)
LEMMA EnterStream ==
  ASSUME TypeInv, StreamInv, NEW fn, NEW arg, NEW f, Enter(fn, arg, f),
         NEW t \in Seq(Bytes), t = Text([fn |-> fn, arg |-> arg]), Pending(f, <<>>, t)
  PROVE  StreamInv' /\ StreamStep
<1>1. /\ frame = Idle /\ frame' = f /\ given' = 0 /\ UNCHANGED <<out, line, shorts>>
      /\ calls' = Append(calls, [fn |-> fn, arg |-> arg])
  BY DEF Enter
<1>2. line = <<>> /\ Todo = <<>>
  <2>1. Idle.fn = "none"
    BY DEF Idle
  <2> QED BY <1>1, <2>1 DEF StreamInv, Pending
<1>3. PICK S : calls \in Seq(S)
  BY DEF TypeInv
<1>4. PICK c : c = [fn |-> fn, arg |-> arg]
  OBVIOUS
<1>5. calls \in Seq(S \cup {c}) /\ c \in S \cup {c}
  BY <1>3, SeqMonotonic
<1>6. calls' # <<>> /\ Len(calls') = Len(calls) + 1 /\ calls'[Len(calls) + 1] = c
  BY <1>1, <1>4, <1>5, AppendProperties
<1>7. LastText' = t
  BY <1>4, <1>6 DEF LastText
<1>8. Len(t) \in Nat /\ 0 \in 0..Len(t)
  OBVIOUS
<1>9. Started'
  BY <1>1, <1>6, <1>7, <1>8 DEF Started
<1>10. Todo' = t
  <2>1. Todo' = Rest(LastText', given')
    BY <1>6 DEF Todo, Rest, LastText
  <2>2. Rest(t, 0) = t
    BY <1>8, RestFacts
  <2> QED BY <1>1, <1>7, <2>1, <2>2
<1>11. StreamInv'
  <2>1. line' = <<>>
    BY <1>1, <1>2
  <2> QED BY <1>1, <1>9, <1>10, <2>1 DEF StreamInv
<1>12. Stream!Begin
  BY <1>1, <1>2, <1>10 DEF Stream!Begin, Bytes
<1> QED BY <1>11, <1>12 DEF StreamStep

(* ... a write, ...                                                        *)
LEMMA WriteStream ==
  ASSUME TypeInv, StreamInv, frame.fn # "none",
         NEW b \in Seq(Bytes), NEW r \in Seq(Bytes), Todo = b \o r, Write(b),
         Pending(frame', line', r)
  PROVE  StreamInv' /\ StreamStep
<1>1. StreamStep /\ Started' /\ Todo' = r
  BY InProgress, WriteGives
<1> QED BY <1>1 DEF StreamInv

(* ... and steps that the stream does not see.                             *)
LEMMA SilentStream ==
  ASSUME StreamInv, frame.fn # "none", UNCHANGED <<calls, given, out, shorts>>,
         Pending(frame', line', Todo)
  PROVE  StreamInv' /\ StreamStep
<1>1. Todo' = Todo /\ LastText' = LastText
  BY DEF Todo, LastText
<1>2. Started'
  BY <1>1, InProgress DEF Started
<1> QED BY <1>1, <1>2 DEF StreamInv, StreamStep

(* A frame of one kind has only that kind's part to satisfy.               *)
LEMMA PendingKinds ==
  ASSUME NEW f, NEW l, NEW r
  PROVE  /\ f \in OutputFrames /\ l = <<>> /\ OutputLeft(f, r) => Pending(f, l, r)
         /\ f \in ListFrames /\ l = <<>> /\ ListLeft(f, r) => Pending(f, l, r)
         /\ f \in LongFrames /\ l = <<>> /\ LongLeft(f, r) => Pending(f, l, r)
         /\ f \in TextFrames /\ TextLeft(f, l, r) => Pending(f, l, r)
         /\ f \in StrFrames /\ l = <<>> /\ r = <<>> => Pending(f, l, r)
         /\ f = Idle /\ l = <<>> /\ r = <<>> => Pending(f, l, r)
<1>1. /\ Idle.fn = "none"
      /\ \A x \in OutputFrames : x.fn = "output"
      /\ \A x \in ListFrames : x.fn = "list"
      /\ \A x \in LongFrames : x.fn = "long"
      /\ \A x \in TextFrames : x.fn = "vfprintf"
      /\ \A x \in StrFrames : x.fn = "str"
  BY DEF Idle, OutputFrames, ListFrames, LongFrames, TextFrames, StrFrames
<1>2. f \in OutputFrames /\ l = <<>> /\ OutputLeft(f, r) => Pending(f, l, r)
  BY <1>1 DEF Pending
<1>3. f \in ListFrames /\ l = <<>> /\ ListLeft(f, r) => Pending(f, l, r)
  BY <1>1 DEF Pending
<1>4. f \in LongFrames /\ l = <<>> /\ LongLeft(f, r) => Pending(f, l, r)
  BY <1>1 DEF Pending
<1>5. f \in TextFrames /\ TextLeft(f, l, r) => Pending(f, l, r)
  BY <1>1 DEF Pending
<1>6. f \in StrFrames /\ l = <<>> /\ r = <<>> => Pending(f, l, r)
  BY <1>1 DEF Pending
<1>7. f = Idle /\ l = <<>> /\ r = <<>> => Pending(f, l, r)
  BY <1>1 DEF Pending
<1> QED BY <1>2, <1>3, <1>4, <1>5, <1>6, <1>7

(* The texts of the calls.                                                 *)
LEMMA Texts ==
  ASSUME NEW x
  PROVE  /\ Text([fn |-> "output", arg |-> x]) = Append(Decimal(x), NL)
         /\ Text([fn |-> "__stdio_print_long", arg |-> x]) = Decimal(x)
         /\ Text([fn |-> "print_char", arg |-> x]) = <<Byte(x)>>
         /\ Text([fn |-> "putchar", arg |-> x]) = <<Byte(x)>>
         /\ Text([fn |-> "puts", arg |-> x]) = Append(x, NL)
         /\ Text([fn |-> "sprintf", arg |-> x]) = <<>>
         /\ Text([fn |-> "snprintf", arg |-> x]) = <<>>
         /\ Text([fn |-> "print_string", arg |-> x]) = x
         /\ Text([fn |-> "printf", arg |-> x]) = x
         /\ Text([fn |-> "fprintf", arg |-> x]) = x
         /\ Text([fn |-> "print_double", arg |-> x]) = x
<1>1. Text([fn |-> "output", arg |-> x]) = Append(Decimal(x), NL)
  BY DEF Text
<1>2. Text([fn |-> "__stdio_print_long", arg |-> x]) = Decimal(x)
  BY DEF Text
<1>3. Text([fn |-> "print_char", arg |-> x]) = <<Byte(x)>> /\ Text([fn |-> "putchar", arg |-> x]) = <<Byte(x)>>
  BY DEF Text
<1>4. Text([fn |-> "puts", arg |-> x]) = Append(x, NL)
  BY DEF Text
<1>5. Text([fn |-> "sprintf", arg |-> x]) = <<>> /\ Text([fn |-> "snprintf", arg |-> x]) = <<>>
  BY DEF Text
<1>6. Text([fn |-> "print_string", arg |-> x]) = x /\ Text([fn |-> "printf", arg |-> x]) = x
  BY DEF Text
<1>7. Text([fn |-> "fprintf", arg |-> x]) = x /\ Text([fn |-> "print_double", arg |-> x]) = x
  BY DEF Text
<1> QED BY <1>1, <1>2, <1>3, <1>4, <1>5, <1>6, <1>7

-----------------------------------------------------------------------------
(* The number printers give away their decimal text.                       *)

(* Wrapping does not change a long.                                        *)
LEMMA WrapId ==
  ASSUME NEW v \in Int, LongMin <= v, v <= LongMax
  PROVE  Wrap(v) = v
<1>1. LongMax \in Nat
  BY StdioAssumption
<1>2. PICK m \in Nat : m = 2 * (LongMax + 1) /\ m > 0
  BY <1>1
<1>3. PICK u \in Nat : u = v - LongMin /\ u < m
  <2>1. v - LongMin \in Nat /\ v - LongMin < m
    BY <1>1, <1>2 DEF LongMin
  <2> QED BY <2>1
<1>4. u % m = u
  <2>1. \A a, c \in Nat : a < c => a % c = a
    OBVIOUS
  <2> QED BY <1>3, <2>1
<1>5. Wrap(v) = (u % m) + LongMin
  BY <1>2, <1>3 DEF Wrap
<1> QED BY <1>1, <1>3, <1>4, <1>5 DEF LongMin

(* A printable number is its sign and the digits of its magnitude.         *)
Magnitude(x) == IF x < 0 THEN Wrap(0 - x) ELSE x
SignOf(x)    == IF x < 0 THEN <<Minus>> ELSE <<>>

(* Its text is their concatenation.                                        *)
LEMMA DecimalParts ==
  ASSUME LongMin \notin Ints, NEW x \in Ints
  PROVE  /\ Magnitude(x) \in Nat /\ SignOf(x) \in Seq(Bytes)
         /\ Digits[Magnitude(x)] \in Seq(Bytes)
         /\ Decimal(x) = SignOf(x) \o Digits[Magnitude(x)]
         /\ Decimal(x) \in Seq(Bytes)
<1>1. x \in Int /\ LongMin <= x /\ x <= LongMax /\ x # LongMin /\ LongMax \in Nat
  BY StdioAssumption DEF LongMin
<1>2. Magnitude(x) = IF x < 0 THEN 0 - x ELSE x
  <2>1. CASE x < 0
    <3>1. 0 - x \in Int /\ LongMin <= 0 - x /\ 0 - x <= LongMax
      BY <1>1, <2>1 DEF LongMin
    <3>2. Wrap(0 - x) = 0 - x
      BY <3>1, WrapId
    <3> QED BY <2>1, <3>2 DEF Magnitude
  <2>2. CASE ~(x < 0)
    BY <2>2 DEF Magnitude
  <2> QED BY <2>1, <2>2
<1>3. Magnitude(x) \in Nat
  BY <1>1, <1>2
<1>4. SignOf(x) \in Seq(Bytes)
  <2>1. Minus \in Bytes
    BY DEF Minus, Bytes
  <2>2. <<Minus>> \in Seq(Bytes) /\ <<>> \in Seq(Bytes)
    BY <2>1
  <2> QED BY <2>2 DEF SignOf
<1>5. Digits[Magnitude(x)] \in Seq(Bytes)
  BY <1>3, DigitsDef
<1>6. Decimal(x) = SignOf(x) \o Digits[Magnitude(x)]
  <2>1. CASE x < 0
    BY <1>2, <2>1 DEF Decimal, SignOf
  <2>2. CASE ~(x < 0)
    <3>1. <<>> \o Digits[Magnitude(x)] = Digits[Magnitude(x)]
      BY <1>5, ConcatEmptySeq
    <3> QED BY <1>2, <2>2, <3>1 DEF Decimal, SignOf
  <2> QED BY <2>1, <2>2
<1>7. Decimal(x) \in Seq(Bytes)
  BY <1>4, <1>5, <1>6, ConcatProperties
<1> QED BY <1>3, <1>4, <1>5, <1>6, <1>7

(* One digit moves from what is left of the number into the buffer.        *)
LEMMA LeftStep ==
  ASSUME NEW v \in Nat, v > 0
  PROVE  /\ v \div 10 \in Nat /\ <<Zero + (v % 10)>> \in Seq(Bytes)
         /\ Left(v \div 10) \in Seq(Bytes)
         /\ Left(v) = Left(v \div 10) \o <<Zero + (v % 10)>>
<1>1. PICK q \in Nat, d \in 0..9 : q = v \div 10 /\ d = v % 10 /\ v = 10 * q + d
  OBVIOUS
<1>2. Zero + d \in Bytes
  BY DEF Zero, Bytes
<1>3. <<Zero + d>> \in Seq(Bytes)
  BY <1>2
<1>4. Left(q) \in Seq(Bytes)
  BY DigitsDef DEF Left
<1>5. CASE v < 10
  <2>1. q = 0 /\ d = v
    BY <1>1, <1>5
  <2>2. Left(q) = <<>> /\ Left(v) = <<Zero + d>>
    BY <1>5, <2>1, DigitsDef DEF Left
  <2>3. <<>> \o <<Zero + d>> = <<Zero + d>>
    BY <1>3, ConcatEmptySeq
  <2> QED BY <1>1, <1>3, <1>4, <2>2, <2>3
<1>6. CASE ~(v < 10)
  <2>1. v >= 10 /\ q # 0
    BY <1>1, <1>6
  <2>2. Left(v) = Append(Digits[q], Zero + d) /\ Left(q) = Digits[q]
    <3>1. Digits[v] = Append(Digits[v \div 10], Zero + (v % 10))
      BY <2>1, DigitsDef
    <3>2. Digits[v] = Append(Digits[q], Zero + d)
      BY <1>1, <3>1
    <3>3. v # 0
      OBVIOUS
    <3> QED BY <2>1, <3>2, <3>3 DEF Left
  <2>3. Append(Digits[q], Zero + d) = Digits[q] \o <<Zero + d>>
    BY <1>2, <1>4, <2>2, AppendIsConcat
  <2> QED BY <1>1, <1>3, <1>4, <2>2, <2>3
<1> QED BY <1>5, <1>6

(* The line that output() prints.                                          *)
Line(x) == Append(Decimal(x), NL)

(* The frame that output() starts with.                                    *)
OutputStart(x) ==
  [fn |-> "output", neg |-> x < 0, val |-> Magnitude(x),
   buf |-> IF Magnitude(x) = 0 THEN <<Zero, NL>> ELSE <<NL>>]

(* It has the whole line to write.                                         *)
LEMMA OutputStarts ==
  ASSUME LongMin \notin Ints, NEW x \in Ints
  PROVE  /\ OutputStart(x) \in OutputFrames /\ OutputLeft(OutputStart(x), Line(x))
         /\ Line(x) \in Seq(Bytes)
<1> DEFINE val == Magnitude(x)
           buf == IF val = 0 THEN <<Zero, NL>> ELSE <<NL>>
           f   == [fn |-> "output", neg |-> x < 0, val |-> val, buf |-> buf]
<1>1. f = OutputStart(x)
  BY DEF OutputStart
<1>2. val = Magnitude(x)
  OBVIOUS
<1> HIDE DEF val
<1>3. PICK s, d : s = SignOf(x) /\ d = Digits[val]
  OBVIOUS
<1>4. val \in Nat /\ s \in Seq(Bytes) /\ d \in Seq(Bytes) /\ Decimal(x) = s \o d /\ Decimal(x) \in Seq(Bytes)
  BY <1>2, <1>3, DecimalParts
<1>5. Zero \in Bytes /\ NL \in Bytes /\ <<NL>> \in Seq(Bytes) /\ <<Zero, NL>> \in Seq(Bytes)
  <2>1. Zero \in Bytes /\ NL \in Bytes
    BY DEF Zero, NL, Bytes
  <2> QED BY <2>1
<1>6. buf \in Seq(Bytes)
  BY <1>5
<1>7. Left(val) \o buf = d \o <<NL>>
  <2>1. CASE val = 0
    <3>1. d = <<Zero>>
      <4>1. 0 \in Nat /\ 0 < 10
        OBVIOUS
      <4>2. Digits[0] = <<Zero + 0>>
        BY <4>1, DigitsDef
      <4>3. Zero + 0 = Zero
        BY DEF Zero
      <4> QED BY <1>3, <2>1, <4>2, <4>3
    <3>2. Left(val) = <<>> /\ buf = <<Zero, NL>>
      BY <2>1 DEF Left
    <3>3. <<Zero>> \o <<NL>> = <<Zero, NL>>
      <4>1. PICK a, c : a = <<Zero>> /\ c = <<NL>>
        OBVIOUS
      <4>2. a \in Seq(Bytes) /\ c \in Seq(Bytes) /\ Len(a) = 1 /\ Len(c) = 1 /\ a[1] = Zero /\ c[1] = NL
        BY <1>5, <4>1
      <4>3. /\ a \o c \in Seq(Bytes) /\ Len(a \o c) = 2
            /\ (a \o c)[1] = Zero /\ (a \o c)[2] = NL
        BY <4>2, ConcatProperties
      <4>4. PICK e : e = a \o c
        OBVIOUS
      <4>5. e = <<Zero, NL>>
        <5>1. PICK w : w = <<Zero, NL>>
          OBVIOUS
        <5>2. w \in Seq(Bytes) /\ Len(w) = 2 /\ w[1] = Zero /\ w[2] = NL
          BY <1>5, <5>1
        <5>3. e \in Seq(Bytes) /\ Len(e) = 2 /\ e[1] = Zero /\ e[2] = NL
          BY <4>3, <4>4
        <5>4. \A i \in 1..2 : i = 1 \/ i = 2
          OBVIOUS
        <5>5. \A i \in 1..Len(e) : e[i] = w[i]
          BY <5>2, <5>3, <5>4
        <5>6. e = w
          BY <5>2, <5>3, <5>5, SeqEqual
        <5> QED BY <5>1, <5>6
      <4> QED BY <4>1, <4>4, <4>5
    <3>4. <<>> \o <<Zero, NL>> = <<Zero, NL>>
      BY <1>5, ConcatEmptySeq
    <3> QED BY <3>1, <3>2, <3>3, <3>4
  <2>2. CASE val # 0
    BY <1>3, <2>2 DEF Left
  <2> QED BY <2>1, <2>2
<1> HIDE DEF buf
<1>8. f \in OutputFrames
  <2>1. (x < 0) \in BOOLEAN
    OBVIOUS
  <2> QED BY <1>4, <1>6, <2>1 DEF OutputFrames
<1>9. Sign(f) = s
  <2>1. f.neg = (x < 0)
    OBVIOUS
  <2> HIDE DEF f
  <2>2. CASE x < 0
    BY <1>3, <2>1, <2>2 DEF Sign, SignOf
  <2>3. CASE ~(x < 0)
    BY <1>3, <2>1, <2>3 DEF Sign, SignOf
  <2> QED BY <2>2, <2>3
<1>10. PICK t : t = Append(Decimal(x), NL)
  OBVIOUS
<1>11. t \in Seq(Bytes) /\ t = s \o (d \o <<NL>>)
  <2>1. t \in Seq(Bytes)
    BY <1>4, <1>5, <1>10, AppendProperties
  <2>2. t = Decimal(x) \o <<NL>>
    BY <1>4, <1>5, <1>10, AppendIsConcat
  <2>3. (s \o d) \o <<NL>> = s \o (d \o <<NL>>)
    BY <1>4, <1>5, ConcatAssociative
  <2> QED BY <1>4, <2>1, <2>2, <2>3
<1>12. OutputLeft(f, t)
  <2>1. f.val = val /\ f.buf = buf
    OBVIOUS
  <2> HIDE DEF f
  <2> QED BY <1>4, <1>7, <1>9, <1>11, <2>1 DEF OutputLeft
<1> HIDE DEF f
<1> QED BY <1>1, <1>8, <1>10, <1>11, <1>12 DEF Line

(* The frames of output() are those.                                       *)
LEMMA CallOutputEnters ==
  ASSUME NEW x, CallOutput(x)
  PROVE  Enter("output", x, OutputStart(x))
BY DEF CallOutput, OutputStart, Magnitude

(* output() starts.                                                        *)
LEMMA CallOutputStream ==
  ASSUME WellUsed, StdioInv, StreamInv, NEW x \in Ints, CallOutput(x)
  PROVE  StreamInv' /\ StreamStep
<1>1. PICK f, t : f = OutputStart(x) /\ t = Line(x)
  OBVIOUS
<1>2. f \in OutputFrames /\ OutputLeft(f, t) /\ t \in Seq(Bytes)
  BY <1>1, OutputStarts DEF WellUsed
<1>3. Enter("output", x, f)
  BY <1>1, CallOutputEnters
<1>4. t = Text([fn |-> "output", arg |-> x])
  BY <1>1, Texts DEF Line
<1>5. Pending(f, <<>>, t)
  BY <1>2, PendingKinds
<1> QED BY <1>2, <1>3, <1>4, <1>5, EnterStream DEF StdioInv

(* The sign of a call is bytes.                                            *)
LEMMA SignBytes ==
  ASSUME NEW f
  PROVE  Sign(f) \in Seq(Bytes)
<1>1. Minus \in Bytes
  BY DEF Minus, Bytes
<1>2. <<Minus>> \in Seq(Bytes) /\ <<>> \in Seq(Bytes)
  BY <1>1
<1> QED BY <1>2 DEF Sign

(* A digit that output() puts in front of its buffer leaves it the same    *)
(* text to write.                                                          *)
LEMMA OutputMoves ==
  ASSUME NEW f \in OutputFrames, NEW r, OutputLeft(f, r), f.val > 0
  PROVE  \A g : g = [f EXCEPT !.buf = <<Zero + (f.val % 10)>> \o f.buf, !.val = f.val \div 10]
                => g \in OutputFrames /\ OutputLeft(g, r)
<1>1. f.buf \in Seq(Bytes) /\ f.val \in Nat /\ r = Sign(f) \o (Left(f.val) \o f.buf)
  BY DEF OutputFrames, OutputLeft
<1>2. PICK v \in Nat : v = f.val /\ v > 0
  BY <1>1
<1>3. PICK b, d, u : b = f.buf /\ d = <<Zero + (v % 10)>> /\ u = Left(v \div 10)
  OBVIOUS
<1>4. v \div 10 \in Nat /\ d \in Seq(Bytes) /\ u \in Seq(Bytes) /\ Left(v) = u \o d
  BY <1>2, <1>3, LeftStep
<1>5. (u \o d) \o b = u \o (d \o b) /\ d \o b \in Seq(Bytes)
  <2>1. b \in Seq(Bytes)
    BY <1>1, <1>3
  <2>2. (u \o d) \o b = u \o (d \o b)
    BY <1>4, <2>1, ConcatAssociative
  <2>3. d \o b \in Seq(Bytes)
    BY <1>4, <2>1, ConcatProperties
  <2> QED BY <2>2, <2>3
<1>6. PICK c, q : c = d \o b /\ q = v \div 10
  OBVIOUS
<1> TAKE g
<1> HAVE g = [f EXCEPT !.buf = <<Zero + (f.val % 10)>> \o f.buf, !.val = f.val \div 10]
<1>7. g = [f EXCEPT !.buf = c, !.val = q]
  BY <1>2, <1>3, <1>6
<1>8. c \in Seq(Bytes) /\ q \in Int
  BY <1>4, <1>5, <1>6
<1>9. g \in OutputFrames /\ g.val = q /\ g.buf = c /\ g.neg = f.neg
  BY <1>7, <1>8 DEF OutputFrames
<1>10. Sign(g) = Sign(f)
  BY <1>9 DEF Sign
<1> QED BY <1>1, <1>2, <1>3, <1>4, <1>5, <1>6, <1>9, <1>10 DEF OutputLeft

(* When no digit is left, it writes what it had to.                        *)
LEMMA OutputEnds ==
  ASSUME NEW f \in OutputFrames, NEW r, OutputLeft(f, r), f.val <= 0
  PROVE  r \in Seq(Bytes) /\ r = IF f.neg THEN <<Minus>> \o f.buf ELSE f.buf
<1>1. f.buf \in Seq(Bytes) /\ f.val \in Nat /\ r = Sign(f) \o (Left(f.val) \o f.buf)
  BY DEF OutputFrames, OutputLeft
<1>2. f.val = 0
  BY <1>1
<1>3. Left(f.val) \o f.buf = f.buf /\ <<>> \o f.buf = f.buf
  BY <1>1, <1>2, ConcatEmptySeq DEF Left
<1>4. r = Sign(f) \o f.buf /\ r \in Seq(Bytes)
  BY <1>1, <1>3, SignBytes, ConcatProperties
<1> QED BY <1>3, <1>4 DEF Sign

(* output() writes a digit into its buffer, or everything out.             *)
LEMMA OutputStream ==
  ASSUME StdioInv, StreamInv, OutputDigit \/ OutputWrite
  PROVE  StreamInv' /\ StreamStep
<1>1. frame \in OutputFrames /\ frame.fn = "output" /\ TypeInv
  BY FrameKinds DEF StdioInv, OutputDigit, OutputWrite
<1>2. line = <<>> /\ OutputLeft(frame, Todo)
  BY <1>1 DEF StreamInv, Pending
<1>3. PICK f, g, r : f = frame /\ g = frame' /\ r = Todo
  OBVIOUS
<1>4. f \in OutputFrames /\ OutputLeft(f, r)
  BY <1>1, <1>2, <1>3
<1>5. CASE OutputDigit
  <2>1. f.val > 0 /\ g = [f EXCEPT !.buf = <<Zero + (f.val % 10)>> \o f.buf, !.val = f.val \div 10]
    BY <1>3, <1>5 DEF OutputDigit
  <2>2. g \in OutputFrames /\ OutputLeft(g, r)
    BY <1>4, <2>1, OutputMoves
  <2>3. Pending(g, <<>>, r)
    BY <2>2, PendingKinds
  <2>4. Pending(frame', line', Todo)
    BY <1>2, <1>3, <1>5, <2>3 DEF OutputDigit
  <2> QED BY <1>1, <1>5, <2>4, SilentStream DEF OutputDigit
<1>6. CASE OutputWrite
  <2>1. f.val <= 0
    BY <1>3, <1>6 DEF OutputWrite
  <2>2. r \in Seq(Bytes) /\ r = IF f.neg THEN <<Minus>> \o f.buf ELSE f.buf
    BY <1>4, <2>1, OutputEnds
  <2>3. Write(r) /\ frame' = Idle /\ line' = <<>>
    BY <1>2, <1>3, <1>6, <2>2 DEF OutputWrite, Return
  <2>4. Pending(frame', line', <<>>)
    BY <2>3, PendingKinds
  <2>5. Todo = r \o <<>> /\ <<>> \in Seq(Bytes)
    BY <1>3, <2>2, ConcatEmptySeq
  <2> QED BY <1>1, <2>2, <2>3, <2>4, <2>5, WriteStream
<1> QED BY <1>5, <1>6

-----------------------------------------------------------------------------
(* The lists of writes.                                                    *)

(* They start with the whole text.                                         *)
LEMMA CallListStream ==
  ASSUME StdioInv, StreamInv,
         \/ \E c \in Chars : CallPrintChar(c) \/ CallPutchar(c)
         \/ \E s \in Strings : CallPrintString(s) \/ CallPuts(s)
  PROVE  StreamInv' /\ StreamStep
<1>0. TypeInv
  BY DEF StdioInv
<1>1. ASSUME NEW c \in Chars, CallPrintChar(c) \/ CallPutchar(c) PROVE StreamInv' /\ StreamStep
  <2>1. PICK t : t = <<Byte(c)>>
    OBVIOUS
  <2>2. c \in Int /\ Byte(c) \in Bytes
    BY StdioAssumption DEF Byte, Bytes
  <2>3. t \in Seq(Bytes)
    BY <2>1, <2>2
  <2>4. <<t>> \in Seq(Seq(Bytes)) \ {<<>>}
    BY <2>3
  <2>5. ASSUME NEW v \in Int PROVE Pending([fn |-> "list", res |-> v, list |-> <<t>>], <<>>, t)
    <3>1. PICK f : f = [fn |-> "list", res |-> v, list |-> <<t>>]
      OBVIOUS
    <3>2. f \in ListFrames /\ f.list = <<t>>
      BY <2>4, <3>1 DEF ListFrames
    <3>3. Pending(f, <<>>, t)
      BY <3>2, PendingKinds DEF ListLeft
    <3> QED BY <3>1, <3>3
  <2>6. CASE CallPrintChar(c)
    <3>1. Enter("print_char", c, [fn |-> "list", res |-> 0, list |-> <<t>>])
      BY <2>1, <2>6 DEF CallPrintChar
    <3>2. t = Text([fn |-> "print_char", arg |-> c])
      BY <2>1, Texts
    <3>3. Pending([fn |-> "list", res |-> 0, list |-> <<t>>], <<>>, t)
      BY <2>5
    <3> QED BY <1>0, <2>3, <3>1, <3>2, <3>3, EnterStream
  <2>7. CASE CallPutchar(c)
    <3>1. Enter("putchar", c, [fn |-> "list", res |-> c, list |-> <<t>>])
      BY <2>1, <2>7 DEF CallPutchar
    <3>2. t = Text([fn |-> "putchar", arg |-> c])
      BY <2>1, Texts
    <3>3. Pending([fn |-> "list", res |-> c, list |-> <<t>>], <<>>, t)
      BY <2>2, <2>5
    <3> QED BY <1>0, <2>3, <3>1, <3>2, <3>3, EnterStream
  <2> QED BY <1>1, <2>6, <2>7
<1>2. ASSUME NEW s \in Strings, CallPrintString(s) \/ CallPuts(s) PROVE StreamInv' /\ StreamStep
  <2>1. s \in Seq(Bytes) /\ NL \in Bytes
    BY StdioAssumption DEF NL, Bytes
  <2>2. PICK e : e = <<NL>>
    OBVIOUS
  <2>3. e \in Seq(Bytes)
    BY <2>1, <2>2
  <2>4. CASE CallPrintString(s)
    <3>1. PICK f : f = [fn |-> "list", res |-> 0, list |-> <<s>>]
      OBVIOUS
    <3>2. <<s>> \in Seq(Seq(Bytes)) \ {<<>>}
      BY <2>1
    <3>3. f \in ListFrames /\ f.list = <<s>>
      BY <3>1, <3>2 DEF ListFrames
    <3>4. Pending(f, <<>>, s)
      BY <3>3, PendingKinds DEF ListLeft
    <3>5. Enter("print_string", s, f)
      BY <2>4, <3>1 DEF CallPrintString
    <3>6. s = Text([fn |-> "print_string", arg |-> s])
      BY Texts
    <3> QED BY <1>0, <2>1, <3>4, <3>5, <3>6, EnterStream
  <2>5. CASE CallPuts(s)
    <3>1. PICK f : f = [fn |-> "list", res |-> 0, list |-> <<s, e>>]
      OBVIOUS
    <3>2. <<s, e>> \in Seq(Seq(Bytes)) \ {<<>>}
      BY <2>1, <2>3
    <3>3. f \in ListFrames
      BY <3>1, <3>2 DEF ListFrames
    <3>4. Len(f.list) = 2 /\ f.list[1] = s /\ f.list[2] = e
      BY <2>1, <2>3, <3>1
    <3>5. PICK t : t = Append(s, NL)
      OBVIOUS
    <3>6. t \in Seq(Bytes) /\ t = s \o e
      BY <2>1, <2>2, <3>5, AppendProperties, AppendIsConcat
    <3>7. Pending(f, <<>>, t)
      BY <3>3, <3>4, <3>6, PendingKinds DEF ListLeft
    <3>8. Enter("puts", s, f)
      BY <2>2, <2>5, <3>1 DEF CallPuts
    <3>9. t = Text([fn |-> "puts", arg |-> s])
      BY <3>5, Texts
    <3> QED BY <1>0, <3>6, <3>7, <3>8, <3>9, EnterStream
  <2> QED BY <1>2, <2>4, <2>5
<1> QED BY <1>1, <1>2

(* Each write gives away the next text of the list.                        *)
LEMMA WriteNextStream ==
  ASSUME StdioInv, StreamInv, WriteNext
  PROVE  StreamInv' /\ StreamStep
<1>1. frame \in ListFrames /\ frame.fn = "list" /\ TypeInv
  BY FrameKinds DEF StdioInv, WriteNext
<1>2. line = <<>> /\ ListLeft(frame, Todo) /\ line' = line /\ Todo \in Seq(Bytes)
  BY <1>1, InProgress, TodoIsRest DEF StreamInv, Pending, WriteNext
<1>3. PICK f, r, l : f = frame /\ r = Todo /\ l = frame.list
  OBVIOUS
<1>4. l \in Seq(Seq(Bytes)) /\ l # <<>> /\ r \in Seq(Bytes) /\ f \in ListFrames
  BY <1>1, <1>2, <1>3 DEF ListFrames
<1>5. Write(Head(l))
  BY <1>3 DEF WriteNext
<1>6. CASE l = <<r>>
  <2>1. Len(l) = 1 /\ Head(l) = r
    BY <1>6
  <2>2. frame' = Idle
    BY <1>3, <2>1 DEF WriteNext, Return
  <2>3. Pending(frame', line', <<>>)
    BY <1>2, <2>2, PendingKinds
  <2>4. Todo = r \o <<>> /\ <<>> \in Seq(Bytes)
    BY <1>3, <1>4, ConcatEmptySeq
  <2> QED BY <1>1, <1>4, <1>5, <2>1, <2>3, <2>4, WriteStream
<1>7. CASE Len(l) = 2 /\ r = l[1] \o l[2]
  <2>1. /\ Head(l) = l[1] /\ Head(l) \in Seq(Bytes) /\ Tail(l) \in Seq(Seq(Bytes))
        /\ Len(Tail(l)) = 1 /\ Tail(l)[1] = l[2]
    <3>1. /\ Head(l) \in Seq(Bytes) /\ Tail(l) \in Seq(Seq(Bytes)) /\ Len(Tail(l)) = Len(l) - 1
          /\ \A i \in 1..Len(Tail(l)) : Tail(l)[i] = l[i + 1]
      BY <1>4, HeadTailProperties
    <3>2. Head(l) = l[1]
      BY <1>4
    <3>3. Len(Tail(l)) = 1
      BY <1>7, <3>1
    <3>4. 1 \in 1..1 /\ 1 + 1 = 2
      OBVIOUS
    <3>5. Tail(l)[1] = l[2]
      BY <3>1, <3>3, <3>4
    <3> QED BY <3>1, <3>2, <3>3, <3>5
  <2>2. PICK a, c : a = l[1] /\ c = l[2]
    OBVIOUS
  <2>3. a \in Seq(Bytes) /\ c \in Seq(Bytes)
    BY <1>4, <1>7, <2>2
  <2>4. Tail(l) = <<c>>
    <3>1. PICK w, y : w = <<c>> /\ y = Tail(l)
      OBVIOUS
    <3>2. w \in Seq(Seq(Bytes)) /\ Len(w) = 1 /\ w[1] = c
      BY <2>3, <3>1
    <3>3. y \in Seq(Seq(Bytes)) /\ Len(y) = 1 /\ y[1] = c
      BY <2>1, <2>2, <3>1
    <3>4. \A i \in 1..Len(y) : y[i] = w[i]
      BY <3>2, <3>3
    <3>5. y = w
      BY <3>2, <3>3, <3>4, SeqEqual
    <3> QED BY <3>1, <3>5
  <2>5. PICK g : g = [f EXCEPT !.list = <<c>>]
    OBVIOUS
  <2>6. <<c>> \in Seq(Seq(Bytes)) \ {<<>>}
    BY <2>3
  <2>7. g \in ListFrames /\ g.list = <<c>>
    BY <1>4, <2>5, <2>6 DEF ListFrames
  <2>8. frame' = g
    <3>1. Len(frame.list) # 1
      BY <1>3, <1>7
    <3>2. frame' = [frame EXCEPT !.list = Tail(frame.list)]
      BY <3>1 DEF WriteNext
    <3>3. Tail(frame.list) = <<c>>
      BY <1>3, <2>4
    <3> QED BY <1>3, <2>5, <3>2, <3>3
  <2>9. Pending(g, <<>>, c)
    BY <2>7, PendingKinds DEF ListLeft
  <2>10. Pending(frame', line', c)
    BY <1>2, <2>8, <2>9
  <2>11. Todo = a \o c /\ Write(a)
    BY <1>3, <1>5, <1>7, <2>1, <2>2
  <2> QED BY <1>1, <2>3, <2>10, <2>11, WriteStream
<1> QED BY <1>2, <1>3, <1>6, <1>7 DEF ListLeft

-----------------------------------------------------------------------------
(* The recursion of __stdio_print_pos.                                     *)

(* The last digits of the numbers on the stack.                            *)
LEMMA UnitsFacts ==
  ASSUME NEW s \in Seq(Nat)
  PROVE  /\ Units(s) \in Seq(Bytes) /\ Len(Units(s)) = Len(s)
         /\ s = <<>> => Units(s) = <<>>
         /\ s # <<>> => Units(s) = <<Zero + (Head(s) % 10)>> \o Units(Tail(s))
<1>1. ASSUME NEW u \in Seq(Nat)
      PROVE  /\ Units(u) \in Seq(Bytes) /\ Len(Units(u)) = Len(u)
             /\ \A i \in 1..Len(u) : Units(u)[i] = Zero + (u[i] % 10)
  <2>1. \A n \in Nat : n % 10 \in 0..9
    OBVIOUS
  <2>2. \A d \in 0..9 : Zero + d \in Bytes
    BY DEF Zero, Bytes
  <2>3. \A i \in 1..Len(u) : u[i] \in Nat
    OBVIOUS
  <2>4. \A i \in 1..Len(u) : Zero + (u[i] % 10) \in Bytes
    BY <2>1, <2>2, <2>3
  <2>5. PICK n \in Nat : n = Len(u)
    OBVIOUS
  <2>6. Units(u) \in [1..n -> Bytes] /\ \A i \in 1..n : Units(u)[i] = Zero + (u[i] % 10)
    BY <2>4, <2>5 DEF Units
  <2>7. Units(u) \in Seq(Bytes) /\ Len(Units(u)) = n
    BY <2>6
  <2> QED BY <2>5, <2>6, <2>7
<1>2. s = <<>> => Units(s) = <<>>
  BY <1>1, EmptySeq
<1>3. ASSUME s # <<>> PROVE Units(s) = <<Zero + (Head(s) % 10)>> \o Units(Tail(s))
  <2>1. PICK h, r, n : h = Head(s) /\ r = Tail(s) /\ n = Len(s)
    OBVIOUS
  <2>2. /\ h = s[1] /\ h \in Nat /\ r \in Seq(Nat) /\ n \in Nat /\ Len(r) = n - 1
        /\ \A i \in 1..n - 1 : r[i] = s[i + 1]
    BY <1>3, <2>1, HeadTailProperties
  <2>3. n # 0
    BY <1>3, <2>1, EmptySeq
  <2>4. PICK d : d = <<Zero + (h % 10)>>
    OBVIOUS
  <2>5. d \in Seq(Bytes) /\ Len(d) = 1 /\ d[1] = Zero + (h % 10)
    <3>0. PICK k \in Nat : k = h
      BY <2>2
    <3>1. PICK e \in 0..9 : e = k % 10
      OBVIOUS
    <3>3. Zero + e \in Bytes
      BY DEF Zero, Bytes
    <3>2. Zero + (h % 10) \in Bytes
      BY <3>0, <3>1, <3>3
    <3> QED BY <2>4, <3>2
  <2>6. PICK a, b : a = Units(s) /\ b = Units(r)
    OBVIOUS
  <2>7. /\ a \in Seq(Bytes) /\ Len(a) = n /\ \A i \in 1..n : a[i] = Zero + (s[i] % 10)
    BY <1>1, <2>1, <2>6
  <2>8. /\ b \in Seq(Bytes) /\ Len(b) = n - 1 /\ \A i \in 1..n - 1 : b[i] = Zero + (r[i] % 10)
    BY <1>1, <2>2, <2>6
  <2>9. PICK c : c = d \o b
    OBVIOUS
  <2>10. /\ c \in Seq(Bytes) /\ Len(c) = n
         /\ \A i \in 1..n : c[i] = IF i <= 1 THEN d[i] ELSE b[i - 1]
    <3>1. 1 + (n - 1) = n
      BY <2>2
    <3>2. /\ c \in Seq(Bytes) /\ Len(c) = Len(d) + Len(b)
          /\ \A i \in 1..Len(d) + Len(b) : c[i] = IF i <= Len(d) THEN d[i] ELSE b[i - Len(d)]
      BY <2>5, <2>8, <2>9, ConcatProperties
    <3>3. Len(d) = 1 /\ Len(d) + Len(b) = n
      BY <2>5, <2>8, <3>1
    <3> QED BY <3>2, <3>3
  <2>11. ASSUME NEW i \in 1..n PROVE a[i] = c[i]
    <3>1. CASE i = 1
      BY <2>2, <2>5, <2>7, <2>10, <3>1
    <3>2. CASE i # 1
      <4>1. i - 1 \in 1..n - 1 /\ (i - 1) + 1 = i /\ ~(i <= 1)
        BY <2>2, <3>2
      <4>2. c[i] = b[i - 1]
        BY <2>10, <4>1
      <4>3. b[i - 1] = Zero + (r[i - 1] % 10) /\ r[i - 1] = s[i]
        BY <2>2, <2>8, <4>1
      <4> QED BY <2>7, <4>2, <4>3
    <3> QED BY <3>1, <3>2
  <2>12. a = c
    BY <2>7, <2>10, <2>11, SeqEqual
  <2> QED BY <2>1, <2>4, <2>6, <2>9, <2>12
<1> QED BY <1>1, <1>2, <1>3

(* __stdio_print_long starts.                                              *)
LEMMA CallPrintLongStream ==
  ASSUME WellUsed, StdioInv, StreamInv, NEW n \in Ints, CallPrintLong(n)
  PROVE  StreamInv' /\ StreamStep
<1>0. TypeInv
  BY DEF StdioInv
<1>1. PICK v, s, d, t : v = Magnitude(n) /\ s = SignOf(n) /\ d = Digits[v] /\ t = Decimal(n)
  OBVIOUS
<1>2. v \in Nat /\ s \in Seq(Bytes) /\ d \in Seq(Bytes) /\ t = s \o d /\ t \in Seq(Bytes)
  BY <1>1, DecimalParts DEF WellUsed
<1>3. PICK f : f = [fn |-> "long", neg |-> n < 0, descend |-> TRUE, stack |-> <<v>>]
  OBVIOUS
<1>4. Enter("__stdio_print_long", n, f)
  BY <1>1, <1>3 DEF CallPrintLong, Magnitude
<1>5. <<v>> \in Seq(Nat) /\ <<v>> \in Seq(Int) \ {<<>>} /\ Head(<<v>>) = v /\ Tail(<<v>>) = <<>>
  BY <1>2
<1>6. f \in LongFrames
  <2>1. (n < 0) \in BOOLEAN
    OBVIOUS
  <2> QED BY <1>3, <1>5, <2>1 DEF LongFrames
<1>7. f.stack = <<v>> /\ f.descend = TRUE /\ f.neg = (n < 0)
  BY <1>3
<1>8. Sign(f) = s
  <2>1. CASE n < 0
    BY <1>1, <1>7, <2>1 DEF Sign, SignOf
  <2>2. CASE ~(n < 0)
    BY <1>1, <1>7, <2>2 DEF Sign, SignOf
  <2> QED BY <2>1, <2>2
<1>9. Digits[Head(f.stack)] \o Units(Tail(f.stack)) = d
  <2>1. Units(<<>>) = <<>>
    <3>1. <<>> \in Seq(Nat)
      OBVIOUS
    <3> QED BY <3>1, UnitsFacts
  <2>2. d \o <<>> = d
    BY <1>2, ConcatEmptySeq
  <2>3. Head(f.stack) = v /\ Tail(f.stack) = <<>>
    BY <1>5, <1>7
  <2> QED BY <1>1, <2>1, <2>2, <2>3
<1>10. LongLeft(f, t)
  BY <1>2, <1>5, <1>7, <1>8, <1>9 DEF LongLeft
<1>11. Pending(f, <<>>, t)
  BY <1>6, <1>10, PendingKinds
<1>12. t = Text([fn |-> "__stdio_print_long", arg |-> n])
  BY <1>1, Texts
<1> QED BY <1>0, <1>2, <1>4, <1>11, <1>12, EnterStream

(* It writes the sign, ...                                                 *)
LEMMA PrintSignStream ==
  ASSUME StdioInv, StreamInv, PrintSign
  PROVE  StreamInv' /\ StreamStep
<1>1. frame \in LongFrames /\ frame.fn = "long" /\ frame.neg /\ TypeInv
  BY FrameKinds DEF StdioInv, PrintSign
<1>2. line = <<>> /\ LongLeft(frame, Todo) /\ line' = line
  BY <1>1 DEF StreamInv, Pending, PrintSign
<1>3. PICK f, g : f = frame /\ g = frame'
  OBVIOUS
<1>4. f \in LongFrames /\ f.neg = TRUE /\ f.stack \in Seq(Nat) /\ f.stack # <<>>
  BY <1>1, <1>2, <1>3 DEF LongFrames, LongLeft
<1>5. PICK x : x = Digits[Head(f.stack)] \o Units(Tail(f.stack))
  OBVIOUS
<1>6. f.descend = TRUE /\ Todo = <<Minus>> \o x
  <2>1. f.descend \in BOOLEAN /\ f.neg # FALSE
    BY <1>4 DEF LongFrames
  <2>2. f.descend = TRUE
    BY <1>2, <1>3, <2>1 DEF LongLeft
  <2>3. Todo = Sign(f) \o x
    BY <1>2, <1>3, <1>5, <2>2 DEF LongLeft
  <2>4. Sign(f) = <<Minus>>
    BY <1>4 DEF Sign
  <2> QED BY <2>2, <2>3, <2>4
<1>7. x \in Seq(Bytes)
  <2>1. PICK h, y : h = Head(f.stack) /\ y = Tail(f.stack)
    OBVIOUS
  <2>2. h \in Nat /\ y \in Seq(Nat)
    BY <1>4, <2>1, HeadTailProperties
  <2>3. Digits[h] \in Seq(Bytes) /\ Units(y) \in Seq(Bytes)
    BY <2>2, DigitsDef, UnitsFacts
  <2>4. Digits[h] \o Units(y) \in Seq(Bytes)
    BY <2>3, ConcatProperties
  <2> QED BY <1>5, <2>1, <2>4
<1>8. g = [f EXCEPT !.neg = FALSE]
  BY <1>3 DEF PrintSign
<1>9. g \in LongFrames /\ g.neg = FALSE /\ g.stack = f.stack /\ g.descend = TRUE
  BY <1>4, <1>6, <1>8 DEF LongFrames
<1>10. LongLeft(g, x)
  <2>1. Sign(g) = <<>>
    BY <1>9 DEF Sign
  <2>2. <<>> \o x = x
    BY <1>7, ConcatEmptySeq
  <2> QED BY <1>4, <1>5, <1>9, <2>1, <2>2 DEF LongLeft
<1>11. Pending(g, <<>>, x)
  BY <1>9, <1>10, PendingKinds
<1>12. <<Minus>> \in Seq(Bytes) /\ Write(<<Minus>>)
  BY DEF Minus, Bytes, PrintSign
<1>13. Pending(frame', line', x)
  BY <1>2, <1>3, <1>11
<1> QED BY <1>1, <1>6, <1>7, <1>12, <1>13, WriteStream

(* ... calls itself for the digits before the last, ...                    *)
LEMMA PrintPosDescendStream ==
  ASSUME StdioInv, StreamInv, PrintPosDescend
  PROVE  StreamInv' /\ StreamStep
<1>1. frame \in LongFrames /\ frame.fn = "long" /\ ~frame.neg /\ frame.descend /\ TypeInv
  BY FrameKinds DEF StdioInv, PrintPosDescend
<1>2. line = <<>> /\ LongLeft(frame, Todo) /\ line' = line
  BY <1>1 DEF StreamInv, Pending, PrintPosDescend
<1>3. PICK f, g, s, h, y, r : f = frame /\ g = frame' /\ s = frame.stack /\ h = Head(frame.stack)
                              /\ y = Tail(frame.stack) /\ r = Todo
  OBVIOUS
<1>4. f \in LongFrames /\ f.neg = FALSE /\ f.descend = TRUE /\ f.stack = s
  BY <1>1, <1>3 DEF LongFrames
<1>5. s \in Seq(Nat) /\ s # <<>> /\ h = Head(s) /\ y = Tail(s)
  BY <1>1, <1>2, <1>3 DEF LongFrames, LongLeft
<1>6. h \in Nat /\ y \in Seq(Nat)
  BY <1>5, HeadTailProperties
<1>7. PICK u : u = Units(y)
  OBVIOUS
<1>8. u \in Seq(Bytes) /\ Digits[h] \in Seq(Bytes)
  BY <1>6, <1>7, DigitsDef, UnitsFacts
<1>9. PICK d : d = <<Zero + (h % 10)>>
  OBVIOUS
<1>10. Units(s) = d \o u /\ Units(s) \in Seq(Bytes)
  <2>1. Units(s) = <<Zero + (Head(s) % 10)>> \o Units(Tail(s)) /\ Units(s) \in Seq(Bytes)
    BY <1>5, UnitsFacts
  <2> QED BY <1>5, <1>7, <1>9, <2>1
<1>11. d \in Seq(Bytes) /\ Zero + (h % 10) \in Bytes
  <2>1. PICK k \in Nat : k = h
    BY <1>6
  <2>2. PICK e \in 0..9 : e = k % 10
    OBVIOUS
  <2>3. Zero + e \in Bytes
    BY DEF Zero, Bytes
  <2>4. Zero + (h % 10) \in Bytes
    BY <2>1, <2>2, <2>3
  <2> QED BY <1>9, <2>4
<1>12. r = Digits[h] \o u
  <2>1. Sign(f) = <<>>
    BY <1>4 DEF Sign
  <2>2. r = Sign(f) \o (Digits[h] \o u)
    BY <1>2, <1>3, <1>4, <1>7 DEF LongLeft
  <2>3. Digits[h] \o u \in Seq(Bytes)
    BY <1>8, ConcatProperties
  <2> QED BY <2>1, <2>2, <2>3, ConcatEmptySeq
<1>13. CASE h >= 10
  <2>1. PICK q \in Nat : q = h \div 10
    BY <1>6
  <2>2. PICK p, z : p = Digits[q] /\ z = <<q>> \o s
    OBVIOUS
  <2>3. Digits[h] = Append(p, Zero + (h % 10)) /\ p \in Seq(Bytes)
    BY <1>6, <1>13, <2>1, <2>2, DigitsDef
  <2>4. Digits[h] = p \o d
    BY <1>9, <1>11, <2>3, AppendIsConcat
  <2>5. (p \o d) \o u = p \o (d \o u)
    <3>1. p \in Seq(Bytes)
      BY <2>3
    <3>2. d \in Seq(Bytes)
      BY <1>11
    <3>3. u \in Seq(Bytes)
      BY <1>8
    <3> QED BY <3>1, <3>2, <3>3, ConcatAssociative
  <2>6. r = p \o Units(s)
    BY <1>10, <1>12, <2>4, <2>5
  <2>7. z \in Seq(Nat) /\ z # <<>> /\ Head(z) = q /\ Tail(z) = s
    <3>1. PICK a : a = <<q>>
      OBVIOUS
    <3>2. a \in Seq(Nat) /\ Len(a) = 1 /\ a[1] = q
      BY <3>1
    <3>3. PICK n \in Nat : n = Len(s)
      BY <1>5
    <3>4. /\ a \o s \in Seq(Nat) /\ Len(a \o s) = Len(a) + Len(s)
          /\ \A i \in 1..Len(a) + Len(s) : (a \o s)[i] = IF i <= Len(a) THEN a[i] ELSE s[i - Len(a)]
      BY <1>5, <3>2, ConcatProperties
    <3>5. /\ z \in Seq(Nat) /\ Len(z) = 1 + n
          /\ \A i \in 1..1 + n : z[i] = IF i <= 1 THEN a[i] ELSE s[i - 1]
      BY <2>2, <3>1, <3>2, <3>3, <3>4
    <3>6. Len(z) # 0 /\ Len(z) - 1 = n
      BY <3>3, <3>5
    <3>7. z # <<>>
      BY <3>5, <3>6, EmptySeq
    <3>8. /\ Head(z) = z[1] /\ Tail(z) \in Seq(Nat) /\ Len(Tail(z)) = n
          /\ \A i \in 1..n : Tail(z)[i] = z[i + 1]
      BY <3>5, <3>6, <3>7, HeadTailProperties
    <3>9. Head(z) = q
      <4>1. 1 \in 1..1 + n /\ 1 <= 1
        BY <3>3
      <4> QED BY <3>2, <3>5, <3>8, <4>1
    <3>10. \A i \in 1..n : Tail(z)[i] = s[i]
      <4> SUFFICES ASSUME NEW i \in 1..n PROVE Tail(z)[i] = s[i]
        OBVIOUS
      <4>1. i + 1 \in 1..1 + n /\ ~(i + 1 <= 1) /\ (i + 1) - 1 = i
        BY <3>3
      <4> QED BY <3>5, <3>8, <4>1
    <3>11. Tail(z) = s
      <4>1. PICK w : w = Tail(z)
        OBVIOUS
      <4>2. w \in Seq(Nat) /\ Len(w) = Len(s) /\ \A i \in 1..Len(w) : w[i] = s[i]
        BY <3>3, <3>8, <3>10, <4>1
      <4>3. w = s
        BY <1>5, <4>2, SeqEqual
      <4> QED BY <4>1, <4>3
    <3> QED BY <3>5, <3>7, <3>9, <3>11
  <2>8. g = [f EXCEPT !.stack = z]
    BY <1>3, <1>13, <2>1, <2>2 DEF PrintPosDescend
  <2>9. z \in Seq(Int)
    BY <2>7
  <2>10. g \in LongFrames /\ g.neg = FALSE /\ g.descend = TRUE /\ g.stack = z
    BY <1>4, <2>7, <2>8, <2>9 DEF LongFrames
  <2>11. LongLeft(g, r)
    <3>1. Sign(g) = <<>>
      BY <2>10 DEF Sign
    <3>2. p \o Units(s) \in Seq(Bytes)
      BY <1>10, <2>3, ConcatProperties
    <3>3. <<>> \o (p \o Units(s)) = p \o Units(s)
      BY <3>2, ConcatEmptySeq
    <3> QED BY <2>2, <2>6, <2>7, <2>10, <3>1, <3>3 DEF LongLeft
  <2>12. Pending(g, <<>>, r)
    BY <2>10, <2>11, PendingKinds
  <2>13. Pending(frame', line', Todo)
    BY <1>2, <1>3, <2>12
  <2> QED BY <1>1, <2>13, SilentStream DEF PrintPosDescend
<1>14. CASE ~(h >= 10)
  <2>1. g = [f EXCEPT !.descend = FALSE]
    BY <1>3, <1>14 DEF PrintPosDescend
  <2>2. g \in LongFrames /\ g.neg = FALSE /\ g.descend = FALSE /\ g.stack = s
    BY <1>4, <2>1 DEF LongFrames
  <2>3. Digits[h] = d
    <3>1. h < 10 /\ h % 10 = h
      BY <1>6, <1>14
    <3> QED BY <1>6, <1>9, <3>1, DigitsDef
  <2>4. LongLeft(g, r)
    BY <1>5, <1>10, <1>12, <2>2, <2>3 DEF LongLeft
  <2>5. Pending(g, <<>>, r)
    BY <2>2, <2>4, PendingKinds
  <2>6. Pending(frame', line', Todo)
    BY <1>2, <1>3, <2>5
  <2> QED BY <1>1, <2>6, SilentStream DEF PrintPosDescend
<1> QED BY <1>13, <1>14

(* ... and writes one digit per return.                                    *)
LEMMA PrintPosDigitStream ==
  ASSUME StdioInv, StreamInv, PrintPosDigit
  PROVE  StreamInv' /\ StreamStep
<1>1. frame \in LongFrames /\ frame.fn = "long" /\ ~frame.neg /\ ~frame.descend /\ TypeInv
  BY FrameKinds DEF StdioInv, PrintPosDigit
<1>2. line = <<>> /\ LongLeft(frame, Todo) /\ line' = line
  BY <1>1 DEF StreamInv, Pending, PrintPosDigit
<1>3. PICK f, g, s, h, y : f = frame /\ g = frame' /\ s = frame.stack /\ h = Head(frame.stack)
                           /\ y = Tail(frame.stack)
  OBVIOUS
<1>4. f \in LongFrames /\ f.neg = FALSE /\ f.descend = FALSE /\ f.stack = s
  BY <1>1, <1>3 DEF LongFrames
<1>5. s \in Seq(Nat) /\ s # <<>> /\ h = Head(s) /\ y = Tail(s) /\ Todo = Units(s)
  BY <1>1, <1>2, <1>3 DEF LongFrames, LongLeft
<1>6. h \in Nat /\ y \in Seq(Nat) /\ Len(y) = Len(s) - 1 /\ Len(s) \in Nat
  BY <1>5, HeadTailProperties
<1>7. PICK d, u : d = <<Zero + (h % 10)>> /\ u = Units(y)
  OBVIOUS
<1>8. Todo = d \o u /\ u \in Seq(Bytes) /\ Len(u) = Len(y)
  <2>1. Units(s) = <<Zero + (Head(s) % 10)>> \o Units(Tail(s))
    BY <1>5, UnitsFacts
  <2>2. u \in Seq(Bytes) /\ Len(u) = Len(y)
    BY <1>6, <1>7, UnitsFacts
  <2> QED BY <1>5, <1>7, <2>1, <2>2
<1>9. d \in Seq(Bytes) /\ Write(d)
  <2>1. PICK k \in Nat : k = h
    BY <1>6
  <2>2. PICK e \in 0..9 : e = k % 10
    OBVIOUS
  <2>3. Zero + e \in Bytes /\ (e + Zero) % 256 = Zero + e
    BY DEF Zero, Bytes
  <2>4. Rem10(h) = e
    <3>1. ~(k < 0)
      OBVIOUS
    <3> QED BY <2>1, <2>2, <3>1 DEF Rem10
  <2>5. <<Byte(Rem10(h) + Zero)>> = d
    BY <1>7, <2>1, <2>2, <2>3, <2>4 DEF Byte
  <2>6. Write(<<Byte(Rem10(h) + Zero)>>)
    BY <1>3 DEF PrintPosDigit
  <2>7. d \in Seq(Bytes)
    BY <1>7, <2>1, <2>2, <2>3
  <2> QED BY <2>5, <2>6, <2>7
<1>10. CASE Len(s) = 1
  <2>1. frame' = Idle
    BY <1>3, <1>10 DEF PrintPosDigit, Return
  <2>2. u = <<>>
    BY <1>6, <1>8, <1>10, EmptySeq
  <2>3. Pending(frame', line', u)
    BY <1>2, <2>1, <2>2, PendingKinds
  <2> QED BY <1>1, <1>8, <1>9, <2>3, WriteStream
<1>11. CASE Len(s) # 1
  <2>1. y # <<>> /\ y \in Seq(Int)
    <3>1. Len(s) # 0
      BY <1>5, EmptySeq
    <3>2. Len(y) # 0
      BY <1>6, <1>11, <3>1
    <3> QED BY <1>6, <3>2, EmptySeq
  <2>2. g = [f EXCEPT !.stack = y]
    BY <1>3, <1>11 DEF PrintPosDigit
  <2>3. g \in LongFrames /\ g.neg = FALSE /\ g.descend = FALSE /\ g.stack = y
    BY <1>4, <2>1, <2>2 DEF LongFrames
  <2>4. LongLeft(g, u)
    BY <1>6, <1>7, <2>3 DEF LongLeft
  <2>5. Pending(g, <<>>, u)
    BY <2>3, <2>4, PendingKinds
  <2>6. Pending(frame', line', u)
    BY <1>2, <1>3, <2>5
  <2> QED BY <1>1, <1>8, <1>9, <2>6, WriteStream
<1> QED BY <1>10, <1>11

-----------------------------------------------------------------------------
(* The buffered lines of printf.                                           *)

(* A text that ends in a newline starts.                                   *)
LEMMA CallTextStream ==
  ASSUME WellUsed, StdioInv, StreamInv,
         \/ \E t \in Formats : CallPrintf(t) \/ CallFprintf(t)
         \/ \E s \in Strings : CallPrintDouble(s)
  PROVE  StreamInv' /\ StreamStep
<1>0. TypeInv
  BY DEF StdioInv
<1>1. ASSUME NEW t \in Seq(Bytes), t = <<>> \/ t[Len(t)] = NL
      PROVE  Pending([fn |-> "vfprintf", text |-> t], <<>>, t)
  <2>1. PICK f : f = [fn |-> "vfprintf", text |-> t]
    OBVIOUS
  <2>2. f \in TextFrames /\ f.text = t
    BY <2>1 DEF TextFrames
  <2>3. <<>> \o t = t
    BY ConcatEmptySeq
  <2>4. TextLeft(f, <<>>, t)
    BY <1>1, <2>2, <2>3 DEF TextLeft
  <2>5. Pending(f, <<>>, t)
    BY <2>2, <2>4, PendingKinds
  <2> QED BY <2>1, <2>5
<1>2. ASSUME NEW t \in Formats, CallPrintf(t) \/ CallFprintf(t) PROVE StreamInv' /\ StreamStep
  <2>1. t \in Seq(Bytes) /\ (t = <<>> \/ t[Len(t)] = NL)
    BY StdioAssumption DEF WellUsed, Bytes
  <2>2. Pending([fn |-> "vfprintf", text |-> t], <<>>, t)
    BY <1>1, <2>1
  <2>3. t = Text([fn |-> "printf", arg |-> t]) /\ t = Text([fn |-> "fprintf", arg |-> t])
    BY Texts
  <2>4. CASE CallPrintf(t)
    <3>1. Enter("printf", t, [fn |-> "vfprintf", text |-> t])
      BY <2>4 DEF CallPrintf
    <3> QED BY <1>0, <2>1, <2>2, <2>3, <3>1, EnterStream
  <2>5. CASE CallFprintf(t)
    <3>1. Enter("fprintf", t, [fn |-> "vfprintf", text |-> t])
      BY <2>5 DEF CallFprintf
    <3> QED BY <1>0, <2>1, <2>2, <2>3, <3>1, EnterStream
  <2> QED BY <1>2, <2>4, <2>5
<1>3. ASSUME NEW s \in Strings, CallPrintDouble(s) PROVE StreamInv' /\ StreamStep
  <2>1. s \in Seq(Bytes) /\ NL \in Bytes
    BY StdioAssumption DEF NL, Bytes
  <2>2. PICK t : t = Append(s, NL)
    OBVIOUS
  <2>3. t \in Seq(Bytes) /\ t[Len(t)] = NL
    BY <2>1, <2>2, AppendProperties
  <2>4. Pending([fn |-> "vfprintf", text |-> t], <<>>, t)
    BY <1>1, <2>3
  <2>5. t = Text([fn |-> "print_double", arg |-> t])
    BY Texts
  <2>6. Enter("print_double", t, [fn |-> "vfprintf", text |-> t])
    BY <1>3, <2>2 DEF CallPrintDouble
  <2> QED BY <1>0, <2>3, <2>4, <2>5, <2>6, EnterStream
<1> QED BY <1>2, <1>3

(* The head of a text moves to the end of the line.                        *)
LEMMA MoveHead ==
  ASSUME NEW l \in Seq(Bytes), NEW x \in Seq(Bytes), x # <<>>
  PROVE  /\ l \o x = Append(l, Head(x)) \o Tail(x)
         /\ Append(l, Head(x)) \in Seq(Bytes) /\ Tail(x) \in Seq(Bytes)
         /\ Tail(x) = <<>> => Head(x) = x[Len(x)]
         /\ Tail(x) # <<>> => Tail(x)[Len(Tail(x))] = x[Len(x)]
<1>1. PICK h, y, n : h = Head(x) /\ y = Tail(x) /\ n = Len(x)
  OBVIOUS
<1>2. /\ h \in Bytes /\ h = x[1] /\ y \in Seq(Bytes) /\ n \in Nat /\ n # 0 /\ Len(y) = n - 1
      /\ \A i \in 1..n - 1 : y[i] = x[i + 1]
  BY <1>1, HeadTailProperties, EmptySeq
<1>3. <<h>> \in Seq(Bytes)
  BY <1>2
<1>4. x = <<h>> \o y
  <2>1. PICK d, c : d = <<h>> /\ c = <<h>> \o y
    OBVIOUS
  <2>2. d \in Seq(Bytes) /\ Len(d) = 1 /\ d[1] = h
    BY <1>3, <2>1
  <2>3. /\ d \o y \in Seq(Bytes) /\ Len(d \o y) = Len(d) + Len(y)
        /\ \A i \in 1..Len(d) + Len(y) : (d \o y)[i] = IF i <= Len(d) THEN d[i] ELSE y[i - Len(d)]
    <3>1. d \in Seq(Bytes) /\ y \in Seq(Bytes)
      BY <1>2, <2>2
    <3> QED BY <3>1, ConcatProperties
  <2>4. Len(d) + Len(y) = n
    BY <1>2, <2>2
  <2>5. /\ c \in Seq(Bytes) /\ Len(c) = n
        /\ \A i \in 1..n : c[i] = IF i <= 1 THEN d[i] ELSE y[i - 1]
    BY <2>1, <2>2, <2>3, <2>4
  <2>6. ASSUME NEW i \in 1..n PROVE x[i] = c[i]
    <3>1. CASE i = 1
      BY <1>2, <2>2, <2>5, <3>1
    <3>2. CASE i # 1
      <4>1. i - 1 \in 1..n - 1 /\ (i - 1) + 1 = i /\ ~(i <= 1)
        BY <1>2, <3>2
      <4> QED BY <1>2, <2>5, <4>1
    <3> QED BY <3>1, <3>2
  <2>7. x = c
    BY <1>1, <2>5, <2>6, SeqEqual
  <2> QED BY <2>1, <2>7
<1>5. Append(l, h) = l \o <<h>> /\ Append(l, h) \in Seq(Bytes)
  BY <1>2, AppendIsConcat, AppendProperties
<1>6. (l \o <<h>>) \o y = l \o (<<h>> \o y)
  BY <1>2, <1>3, ConcatAssociative
<1>7. ASSUME y = <<>> PROVE h = x[n]
  <2>1. n = 1
    <3>1. Len(y) = 0
      BY <1>7
    <3> QED BY <1>2, <3>1
  <2> QED BY <1>2, <2>1
<1>8. ASSUME y # <<>> PROVE y[Len(y)] = x[n]
  <2>1. Len(y) # 0
    BY <1>2, <1>8, EmptySeq
  <2>2. n - 1 \in 1..n - 1 /\ (n - 1) + 1 = n
    BY <1>2, <2>1
  <2> QED BY <1>2, <2>2
<1> QED BY <1>1, <1>2, <1>4, <1>5, <1>6, <1>7, <1>8

(* The line is flushed at a newline or when it is full, so nothing is left *)
(* in it at the end of a text.                                             *)
LEMMA BufioPutStream ==
  ASSUME StdioInv, StreamInv, BufioPut
  PROVE  StreamInv' /\ StreamStep
<1>1. frame \in TextFrames /\ frame.fn = "vfprintf" /\ frame.text # <<>> /\ TypeInv
  BY FrameKinds DEF StdioInv, BufioPut
<1>2. TextLeft(frame, line, Todo) /\ line \in Seq(Bytes)
  BY <1>1 DEF StreamInv, Pending, TypeInv
<1>3. PICK f, g, l, x, h, y, a : /\ f = frame /\ g = frame' /\ l = line /\ x = frame.text
                                 /\ h = Head(frame.text) /\ y = Tail(frame.text)
                                 /\ a = Append(line, Head(frame.text))
  OBVIOUS
<1>4. f \in TextFrames /\ l \in Seq(Bytes) /\ x \in Seq(Bytes) /\ x # <<>>
  BY <1>1, <1>2, <1>3 DEF TextFrames
<1>5. Todo = l \o x /\ x[Len(x)] = NL
  BY <1>1, <1>2, <1>3 DEF TextLeft
<1>6. /\ l \o x = a \o y /\ a \in Seq(Bytes) /\ y \in Seq(Bytes)
      /\ y = <<>> => h = x[Len(x)]
      /\ y # <<>> => y[Len(y)] = x[Len(x)]
  <2>1. h = Head(x) /\ y = Tail(x) /\ a = Append(l, Head(x))
    BY <1>3
  <2> QED BY <1>4, <2>1, MoveHead
<1>7. Todo = a \o y
  BY <1>5, <1>6
<1>8. g = [f EXCEPT !.text = y]
  BY <1>3 DEF BufioPut
<1>9. g \in TextFrames /\ g.text = y
  BY <1>4, <1>6, <1>8 DEF TextFrames
<1>10. CASE h = NL \/ Len(a) = BufSize
  <2>1. Write(a) /\ line' = <<>>
    BY <1>3, <1>10 DEF BufioPut
  <2>2. <<>> \o y = y
    BY <1>6, ConcatEmptySeq
  <2>3. TextLeft(g, <<>>, y)
    <3>1. y # <<>> => y[Len(y)] = NL
      BY <1>5, <1>6
    <3> QED BY <1>9, <2>2, <3>1 DEF TextLeft
  <2>4. Pending(g, <<>>, y)
    BY <1>9, <2>3, PendingKinds
  <2>5. Pending(frame', line', y)
    BY <1>3, <2>1, <2>4
  <2> QED BY <1>1, <1>6, <1>7, <2>1, <2>5, WriteStream
<1>11. CASE ~(h = NL \/ Len(a) = BufSize)
  <2>1. line' = a /\ UNCHANGED <<calls, given, out, shorts>>
    BY <1>3, <1>11 DEF BufioPut
  <2>2. y # <<>>
    BY <1>5, <1>6, <1>11
  <2>3. PICK r : r = Todo
    OBVIOUS
  <2>4. TextLeft(g, a, r)
    BY <1>5, <1>6, <1>7, <1>9, <2>2, <2>3 DEF TextLeft
  <2>5. Pending(g, a, r)
    BY <1>9, <2>4, PendingKinds
  <2>6. Pending(frame', line', Todo)
    BY <1>3, <2>1, <2>3, <2>5
  <2> QED BY <1>1, <2>1, <2>6, SilentStream
<1> QED BY <1>10, <1>11

-----------------------------------------------------------------------------
(* The steps that print nothing.                                           *)

(* sprintf and snprintf start: the stream has nothing to do for them.      *)
LEMMA CallStrStream ==
  ASSUME StdioInv, StreamInv, NEW t \in Formats,
         CallSprintf(t) \/ \E n \in Sizes : CallSnprintf(n, t)
  PROVE  StreamInv' /\ StreamStep
<1>0. TypeInv /\ <<>> \in Seq(Bytes)
  BY DEF StdioInv
<1>1. ASSUME NEW f, f.fn = "str" PROVE Pending(f, <<>>, <<>>)
  BY <1>1 DEF Pending
<1>2. CASE CallSprintf(t)
  <2>1. PICK f : Enter("sprintf", t, f) /\ f.fn = "str"
    BY <1>2, SMT DEF CallSprintf
  <2>2. <<>> = Text([fn |-> "sprintf", arg |-> t])
    BY Texts
  <2>3. Pending(f, <<>>, <<>>)
    BY <1>1, <2>1
  <2> QED BY <1>0, <2>1, <2>2, <2>3, EnterStream
<1>3. ASSUME NEW n \in Sizes, CallSnprintf(n, t) PROVE StreamInv' /\ StreamStep
  <2>1. PICK f : Enter("snprintf", t, f) /\ f.fn = "str"
    BY <1>3 DEF CallSnprintf
  <2>2. <<>> = Text([fn |-> "snprintf", arg |-> t])
    BY Texts
  <2>3. Pending(f, <<>>, <<>>)
    BY <1>1, <2>1
  <2> QED BY <1>0, <2>1, <2>2, <2>3, EnterStream
<1> QED BY <1>2, <1>3

(* A formatting call stores bytes; a call returns; the program exits; the  *)
(* other program reads.                                                    *)
LEMMA QuietStream ==
  ASSUME StdioInv, StreamInv,
         FileStrPut \/ StrReturn \/ VfprintfReturn \/ Exit \/ Reader \/ UNCHANGED vars
  PROVE  StreamInv' /\ StreamStep
<1>1. CASE FileStrPut
  <2>1. frame \in StrFrames /\ frame.fn = "str"
    BY <1>1, FrameKinds DEF StdioInv, FileStrPut
  <2>2. line = <<>> /\ Todo = <<>>
    BY <2>1 DEF StreamInv, Pending
  <2>3. \/ frame' = [frame EXCEPT !.text = Tail(@), !.pos = @ + 1]
        \/ frame' = [frame EXCEPT !.text = Tail(@)]
    BY <1>1 DEF FileStrPut
  <2>4. frame'.fn = "str" /\ line' = line
    BY <1>1, <2>1, <2>3 DEF StrFrames, FileStrPut
  <2>5. Pending(frame', line', Todo)
    BY <2>2, <2>4 DEF Pending
  <2> QED BY <1>1, <2>1, <2>5, SilentStream DEF FileStrPut
<1>2. CASE StrReturn
  <2>1. line = <<>> /\ Todo = <<>> /\ frame.fn = "str"
    BY <1>2 DEF StreamInv, Pending, StrReturn
  <2>2. Pending(frame', line', Todo)
    BY <1>2, <2>1, PendingKinds DEF StrReturn, Return
  <2> QED BY <1>2, <2>1, <2>2, SilentStream DEF StrReturn
<1>3. CASE VfprintfReturn
  <2>1. frame.fn = "vfprintf" /\ TextLeft(frame, line, Todo) /\ frame.text = <<>>
    BY <1>3 DEF StreamInv, Pending, VfprintfReturn
  <2>2. line = <<>> /\ Todo = <<>> \o <<>>
    BY <2>1 DEF TextLeft
  <2>3. <<>> \in Seq(Bytes)
    OBVIOUS
  <2>4. Todo = <<>>
    BY <2>2, <2>3, ConcatEmptySeq
  <2>5. Pending(frame', line', Todo)
    BY <1>3, <2>2, <2>4, PendingKinds DEF VfprintfReturn, Return
  <2> QED BY <1>3, <2>1, <2>5, SilentStream DEF VfprintfReturn
<1>4. CASE Exit \/ Reader \/ UNCHANGED vars
  <2>1. UNCHANGED <<frame, calls, given, out, line, shorts>>
    BY <1>4 DEF Exit, Reader, vars, writerVars
  <2>2. Todo' = Todo /\ LastText' = LastText
    BY <2>1 DEF Todo, LastText
  <2>3. Started => Started'
    BY <2>1, <2>2 DEF Started
  <2> QED BY <2>1, <2>2, <2>3 DEF StreamInv, StreamStep
<1> QED BY <1>1, <1>2, <1>3, <1>4

(* Every step is a step of the stream, or none at all.                     *)
LEMMA NextStream ==
  ASSUME WellUsed, StdioInv, StreamInv, [Next]_vars
  PROVE  StreamInv' /\ StreamStep
<1>1. CASE Call
  BY <1>1, CallOutputStream, CallPrintLongStream, CallListStream, CallTextStream, CallStrStream DEF Call
<1>2. CASE Writer /\ ~Call
  BY <1>2, OutputStream, WriteNextStream, PrintSignStream, PrintPosDescendStream,
     PrintPosDigitStream, BufioPutStream, QuietStream DEF Writer
<1>3. CASE Reader \/ UNCHANGED vars
  BY <1>3, QuietStream
<1> QED BY <1>1, <1>2, <1>3 DEF Next, Writer

(* When every text given to printf ends in a newline, and LongMin is not   *)
(* printed, the texts of all calls come out in call order, each byte at    *)
(* most once and none missing but where a write was cut short: output(),   *)
(* __stdio_print_long, puts and printf's lines are steps of ByteStream     *)
(* (stdio.c:17-136, printf.c:46-76).  That every text comes out is checked *)
(* by TLC.                                                                 *)
THEOREM OutputIsStream ==
  ASSUME WellUsed
  PROVE  Spec => Stream!StreamInit /\ [][Stream!Begin \/ Stream!GiveSome]_<<Todo, out, shorts>>
<1>1. Init => Stream!StreamInit /\ StreamInv
  <2> SUFFICES ASSUME Init PROVE Stream!StreamInit /\ StreamInv
    OBVIOUS
  <2>1. Todo = <<>> /\ out = <<>> /\ shorts = 0 /\ calls = <<>> /\ frame = Idle /\ line = <<>>
    BY DEF Init, Todo
  <2>2. Pending(frame, line, Todo)
    BY <2>1, PendingKinds
  <2> QED BY <2>1, <2>2 DEF Stream!StreamInit, StreamInv
<1>2. StdioInv /\ StreamInv /\ [Next]_vars => StreamInv' /\ StreamStep
  BY NextStream
<1>3. StreamStep => [Stream!Begin \/ Stream!GiveSome]_<<Todo, out, shorts>>
  BY DEF StreamStep
<1> QED BY <1>1, <1>2, <1>3, StdioAlways, PTL DEF Spec

-----------------------------------------------------------------------------
(* input() reads back what output() prints.                                *)

(* The values that input() goes through when it reads the digits of m, and *)
(* a choice of them.                                                       *)
Reads(m, q) ==
  /\ q \in [0..Len(Digits[m]) -> Nat] /\ q[0] = 0 /\ q[Len(Digits[m])] = m
  /\ \A i \in 1..Len(Digits[m]) :
       /\ Digits[m][i] \in Zero..Zero + 9
       /\ q[i] = 10 * q[i - 1] + (Digits[m][i] - Zero) /\ q[i] <= m

Value(m) == CHOOSE q : Reads(m, q)

(* They exist: the last digit is added to ten times the rest.              *)
LEMMA ValueReads ==
  ASSUME NEW m \in Nat
  PROVE  Reads(m, Value(m)) /\ Len(Digits[m]) \in Nat /\ Len(Digits[m]) >= 1
<1> DEFINE Bad == {n \in Nat : ~(Len(Digits[n]) >= 1 /\ \E q : Reads(n, q))}
<1>0. \A n \in Nat : Digits[n] \in Seq(Bytes) /\ Len(Digits[n]) \in Nat
  BY DigitsDef
<1>1. ASSUME NEW n \in Nat, n < 10 PROVE n \notin Bad
  <2>1. PICK d : d = Digits[n]
    OBVIOUS
  <2>2. Digits[n] = <<Zero + n>>
    BY <1>1, DigitsDef
  <2>3. Len(d) = 1 /\ d[1] = Zero + n
    BY <2>1, <2>2
  <2>4. PICK q : q = [i \in 0..1 |-> IF i = 0 THEN 0 ELSE n]
    OBVIOUS
  <2>5. q \in [0..1 -> Nat] /\ q[0] = 0 /\ q[1] = n
    BY <2>4
  <2>6. d[1] \in Zero..Zero + 9 /\ d[1] - Zero = n
    BY <1>1, <2>3 DEF Zero
  <2>7. \A i \in 1..1 : /\ d[i] \in Zero..Zero + 9
                        /\ q[i] = 10 * q[i - 1] + (d[i] - Zero) /\ q[i] <= n
    <3> SUFFICES ASSUME NEW i \in 1..1
                 PROVE  /\ d[i] \in Zero..Zero + 9
                        /\ q[i] = 10 * q[i - 1] + (d[i] - Zero) /\ q[i] <= n
      OBVIOUS
    <3>1. i = 1 /\ i - 1 = 0 /\ n = 10 * 0 + n
      OBVIOUS
    <3> QED BY <2>5, <2>6, <3>1
  <2>8. Reads(n, q)
    BY <2>1, <2>3, <2>5, <2>7 DEF Reads
  <2> QED BY <2>1, <2>3, <2>8
<1>2. ASSUME NEW n \in Nat, n >= 10, n \div 10 \notin Bad PROVE n \notin Bad
  <2>1. PICK k \in Nat, e \in 0..9 : k = n \div 10 /\ e = n % 10 /\ n = 10 * k + e
    OBVIOUS
  <2>2. PICK c, d : c = Digits[k] /\ d = Digits[n]
    OBVIOUS
  <2>3. PICK p : Reads(k, p)
    BY <1>2, <2>1
  <2>4. PICK l \in Nat : l = Len(c) /\ l >= 1
    BY <1>0, <1>2, <2>1, <2>2
  <2>5. /\ p \in [0..l -> Nat] /\ p[0] = 0 /\ p[l] = k
        /\ \A i \in 1..l : c[i] \in Zero..Zero + 9 /\ p[i] = 10 * p[i - 1] + (c[i] - Zero) /\ p[i] <= k
    BY <2>2, <2>3, <2>4 DEF Reads
  <2>6. d = Append(c, Zero + e) /\ c \in Seq(Bytes) /\ Zero + e \in Bytes
    <3>1. d = Append(c, Zero + e)
      <4>1. Digits[n] = Append(Digits[n \div 10], Zero + (n % 10))
        BY <1>2, DigitsDef
      <4> QED BY <2>1, <2>2, <4>1
    <3>2. Zero + e \in Bytes
      BY <2>1 DEF Zero, Bytes
    <3> QED BY <1>0, <2>2, <3>1, <3>2
  <2>7. Len(d) = l + 1 /\ d[l + 1] = Zero + e /\ \A i \in 1..l : d[i] = c[i]
    BY <2>4, <2>6, AppendProperties
  <2>8. PICK q : q = [i \in 0..l + 1 |-> IF i <= l THEN p[i] ELSE n]
    OBVIOUS
  <2>9. q \in [0..l + 1 -> Nat] /\ q[l + 1] = n /\ \A i \in 0..l : q[i] = p[i]
    <3>1. \A i \in 0..l : p[i] \in Nat
      BY <2>5
    <3>2. \A i \in 0..l + 1 : i <= l => i \in 0..l
      OBVIOUS
    <3>3. \A i \in 0..l : i <= l /\ i \in 0..l + 1
      OBVIOUS
    <3>4. l + 1 \in 0..l + 1 /\ ~(l + 1 <= l)
      OBVIOUS
    <3> QED BY <2>8, <3>1, <3>2, <3>3, <3>4
  <2>10. ASSUME NEW i \in 1..l + 1
         PROVE  d[i] \in Zero..Zero + 9 /\ q[i] = 10 * q[i - 1] + (d[i] - Zero) /\ q[i] <= n
    <3>1. CASE i <= l
      <4>1. i \in 1..l /\ i \in 0..l /\ i - 1 \in 0..l
        BY <3>1
      <4>2. q[i] = p[i] /\ q[i - 1] = p[i - 1] /\ d[i] = c[i]
        BY <2>7, <2>9, <4>1
      <4>3. c[i] \in Zero..Zero + 9 /\ p[i] = 10 * p[i - 1] + (c[i] - Zero) /\ p[i] <= k
        BY <2>5, <4>1
      <4>4. p[i] \in Nat /\ k <= n
        BY <2>1, <2>5, <4>1
      <4> QED BY <4>2, <4>3, <4>4
    <3>2. CASE ~(i <= l)
      <4>1. i = l + 1 /\ i - 1 = l /\ l \in 0..l
        BY <3>2
      <4>2. d[i] = Zero + e /\ q[i] = n /\ q[i - 1] = k
        BY <2>5, <2>7, <2>9, <4>1
      <4>3. Zero + e \in Zero..Zero + 9 /\ (Zero + e) - Zero = e
        BY DEF Zero
      <4> QED BY <2>1, <4>2, <4>3
    <3> QED BY <3>1, <3>2
  <2>11. q[0] = 0
    <3>1. 0 \in 0..l
      OBVIOUS
    <3> QED BY <2>5, <2>9, <3>1
  <2>12. Reads(n, q)
    BY <2>2, <2>7, <2>9, <2>10, <2>11 DEF Reads
  <2>13. Len(Digits[n]) >= 1
    BY <2>2, <2>7
  <2> QED BY <2>12, <2>13
<1>3. Bad = {}
  <2> SUFFICES ASSUME Bad # {} PROVE FALSE
    OBVIOUS
  <2>1. PICK n \in Bad : \A k \in Bad : n <= k
    BY Least
  <2>2. n \in Nat
    OBVIOUS
  <2> HIDE DEF Bad
  <2>3. n >= 10
    BY <1>1, <2>1, <2>2
  <2>4. n \div 10 \in Nat /\ n \div 10 < n
    BY <2>2, <2>3
  <2>5. n \div 10 \notin Bad
    BY <2>1, <2>2, <2>4
  <2> QED BY <1>2, <2>1, <2>2, <2>3, <2>5
<1>4. Len(Digits[m]) >= 1 /\ \E q : Reads(m, q)
  BY <1>3
<1>5. Reads(m, Value(m))
  BY <1>4 DEF Value
<1> QED BY <1>0, <1>4, <1>5

(* A line t is a sign of s bytes, if the number x is negative, the l       *)
(* digits of its magnitude m and a newline.                                *)
LineOf(x, t, m, s, l) ==
  /\ t \in Seq(Bytes) /\ m \in 0..LongMax /\ s \in 0..1 /\ l \in Nat /\ l >= 1
  /\ Len(t) = s + l + 1 /\ t[s + l + 1] = NL
  /\ \A i \in 1..l : t[s + i] = Digits[m][i]
  /\ x < 0 => s = 1 /\ t[1] = Minus /\ Wrap(0 - m) = x
  /\ ~(x < 0) => s = 0 /\ m = x

(* Lines are like that, and their numbers are longs.                       *)
LEMMA LineParts ==
  ASSUME LongMin \notin Ints, NEW x \in Ints
  PROVE  /\ LineOf(x, Line(x), Magnitude(x), Len(SignOf(x)), Len(Digits[Magnitude(x)]))
         /\ x \in Int
<1>1. x \in Int /\ LongMin <= x /\ x <= LongMax /\ x # LongMin /\ LongMax \in Nat
  BY StdioAssumption DEF LongMin
<1>2. PICK m, g, d, t : m = Magnitude(x) /\ g = SignOf(x) /\ d = Digits[m] /\ t = Line(x)
  OBVIOUS
<1>3. m \in Nat /\ g \in Seq(Bytes) /\ d \in Seq(Bytes) /\ Decimal(x) = g \o d /\ g \o d \in Seq(Bytes)
  BY <1>2, DecimalParts
<1>4. PICK s, l : s = Len(g) /\ l = Len(d)
  OBVIOUS
<1>5. s \in Nat /\ l \in Nat /\ l >= 1
  BY <1>2, <1>3, <1>4, ValueReads
<1>6. /\ Len(g \o d) = s + l
      /\ \A i \in 1..s + l : (g \o d)[i] = IF i <= s THEN g[i] ELSE d[i - s]
  BY <1>3, <1>4, ConcatProperties
<1>7. /\ t \in Seq(Bytes) /\ Len(t) = s + l + 1 /\ t[s + l + 1] = NL
      /\ \A i \in 1..s + l : t[i] = (g \o d)[i]
  <2>1. PICK c : c = g \o d
    OBVIOUS
  <2>2. t = Append(c, NL)
    BY <1>2, <1>3, <2>1 DEF Line
  <2>3. NL \in Bytes
    BY DEF NL, Bytes
  <2>4. c \in Seq(Bytes) /\ Len(c) = s + l
    BY <1>3, <1>6, <2>1
  <2>5. /\ t \in Seq(Bytes) /\ Len(t) = Len(c) + 1 /\ t[Len(c) + 1] = NL
        /\ \A i \in 1..Len(c) : t[i] = c[i]
    BY <2>2, <2>3, <2>4, AppendProperties
  <2> QED BY <2>1, <2>4, <2>5
<1>8. ASSUME NEW i \in 1..l PROVE t[s + i] = d[i]
  <2>1. s + i \in 1..s + l /\ ~(s + i <= s) /\ (s + i) - s = i
    BY <1>5
  <2>2. t[s + i] = (g \o d)[s + i]
    BY <1>7, <2>1
  <2>3. (g \o d)[s + i] = d[(s + i) - s]
    BY <1>6, <2>1
  <2> QED BY <2>1, <2>2, <2>3
<1>9. ASSUME x < 0
      PROVE  m = 0 - x /\ m <= LongMax /\ s = 1 /\ t[1] = Minus /\ Wrap(0 - m) = x
  <2>1. 0 - x \in Int /\ LongMin <= 0 - x /\ 0 - x <= LongMax
    BY <1>1, <1>9 DEF LongMin
  <2>2. m = 0 - x
    BY <1>2, <1>9, <2>1, WrapId DEF Magnitude
  <2>3. 0 - m = x
    BY <1>1, <2>2
  <2>4. Wrap(0 - m) = x
    BY <1>1, <2>3, WrapId
  <2>5. g = <<Minus>>
    BY <1>2, <1>9 DEF SignOf
  <2>6. s = 1 /\ g[1] = Minus
    BY <1>4, <2>5
  <2>7. 1 \in 1..s + l /\ 1 <= s
    BY <1>5, <2>6
  <2>8. t[1] = g[1]
    BY <1>6, <1>7, <2>7
  <2> QED BY <2>1, <2>2, <2>4, <2>6, <2>8
<1>10. ASSUME ~(x < 0) PROVE m = x /\ m <= LongMax /\ s = 0
  <2>1. m = x /\ g = <<>>
    BY <1>2, <1>10 DEF Magnitude, SignOf
  <2> QED BY <1>1, <1>4, <2>1
<1>11. m \in 0..LongMax /\ s \in 0..1
  BY <1>1, <1>3, <1>9, <1>10
<1>12. LineOf(x, t, m, s, l)
  <2>1. \A i \in 1..l : t[s + i] = Digits[m][i]
    BY <1>2, <1>8
  <2> QED BY <1>5, <1>7, <1>9, <1>10, <1>11, <2>1 DEF LineOf
<1> QED BY <1>1, <1>2, <1>4, <1>12

(* One byte of a line, after the sign and i digits: a digit, with which    *)
(* input() has the value of i + 1 digits, or the newline, and then it has  *)
(* the number.                                                             *)
LEMMA LineByte ==
  ASSUME LongMin \notin Ints, NEW x \in Ints, NEW t, NEW m, NEW s, NEW l, LineOf(x, t, m, s, l),
         l = Len(Digits[m]), NEW i \in 0..l, NEW v, v = Value(m)[i]
  PROVE  /\ v \in Nat
         /\ i < l => /\ t[s + i + 1] \in Zero..Zero + 9
                     /\ Wrap(v * 10 + (t[s + i + 1] - Zero)) = Value(m)[i + 1]
         /\ i = l => t[s + i + 1] = NL /\ (IF x < 0 THEN Wrap(0 - v) ELSE v) = x
<1>1. m \in Nat /\ m <= LongMax /\ s \in Nat /\ l \in Nat /\ i \in Nat /\ i <= l /\ LongMax \in Nat
  BY StdioAssumption DEF LineOf
<1>2. PICK q, d : q = Value(m) /\ d = Digits[m]
  OBVIOUS
<1>3. /\ q \in [0..l -> Nat] /\ q[0] = 0 /\ q[l] = m
      /\ \A j \in 1..l : /\ d[j] \in Zero..Zero + 9
                         /\ q[j] = 10 * q[j - 1] + (d[j] - Zero) /\ q[j] <= m
  BY <1>1, <1>2, ValueReads DEF Reads
<1>4. v = q[i] /\ v \in Nat
  BY <1>1, <1>2, <1>3
<1>5. ASSUME i < l
      PROVE  /\ t[s + i + 1] \in Zero..Zero + 9
             /\ Wrap(v * 10 + (t[s + i + 1] - Zero)) = q[i + 1]
  <2>1. i + 1 \in 1..l /\ i + 1 \in 0..l /\ (i + 1) - 1 = i /\ s + (i + 1) = s + i + 1
    BY <1>1, <1>5
  <2>2. t[s + (i + 1)] = d[i + 1]
    BY <1>2, <2>1 DEF LineOf
  <2>3. /\ d[i + 1] \in Zero..Zero + 9 /\ q[i + 1] \in Nat /\ q[i + 1] <= m
        /\ q[i + 1] = 10 * q[i] + (d[i + 1] - Zero)
    BY <1>3, <2>1
  <2>4. PICK u \in Nat : u = q[i + 1]
    BY <2>3
  <2>5. LongMin <= u /\ u <= LongMax
    BY <1>1, <2>3, <2>4 DEF LongMin
  <2>6. Wrap(u) = u
    BY <2>4, <2>5, WrapId
  <2>7. v * 10 + (d[i + 1] - Zero) = u
    <3>1. d[i + 1] \in Int
      BY <2>3 DEF Zero
    <3>2. 10 * v = v * 10
      BY <1>4
    <3> QED BY <1>4, <2>3, <2>4, <3>2
  <2> QED BY <2>1, <2>2, <2>3, <2>4, <2>6, <2>7
<1>6. ASSUME i = l PROVE t[s + i + 1] = NL /\ (IF x < 0 THEN Wrap(0 - v) ELSE v) = x
  <2>1. v = m
    BY <1>3, <1>4, <1>6
  <2> QED BY <1>6, <2>1 DEF LineOf
<1> QED BY <1>2, <1>4, <1>5, <1>6

(* The three steps of input() that a line takes: its sign, ...             *)
LEMMA InputByteSign ==
  ASSUME InputByte, reader.pc = "skip", out[rd + 1] = Minus
  PROVE  /\ rd' = rd + 1 /\ got' = got
         /\ reader' = [reader EXCEPT !.pc = "signed", !.neg = TRUE]
<1>1. Minus \notin {32, 10, 13, 9} /\ Minus \in {Minus, 43} /\ Minus \notin Zero..Zero + 9
  BY DEF Minus, Zero
<1>2. /\ rd' = rd + 1 /\ got' = got
      /\ reader' = [reader EXCEPT !.pc = "signed", !.neg = (out[rd + 1] = Minus)]
  BY <1>1 DEF InputByte
<1>3. (out[rd + 1] = Minus) = TRUE
  OBVIOUS
<1> QED BY <1>2, <1>3

(* ... a digit ...                                                         *)
LEMMA InputByteDigit ==
  ASSUME InputByte, out[rd + 1] \in Zero..Zero + 9
  PROVE  /\ rd' = rd + 1 /\ got' = got
         /\ reader' = [reader EXCEPT !.pc = "digits",
                                     !.val = Wrap(reader.val * 10 + (out[rd + 1] - Zero))]
<1>1. PICK c : c = out[rd + 1]
  OBVIOUS
<1>2. c \notin {32, 10, 13, 9} /\ c \notin {Minus, 43}
  BY <1>1 DEF Minus, Zero
<1> QED BY <1>1, <1>2 DEF InputByte

(* ... and the newline.                                                    *)
LEMMA InputByteEnd ==
  ASSUME InputByte, reader.pc # "skip", out[rd + 1] = NL
  PROVE  /\ rd' = rd + 1 /\ got' = Append(got, InputValue)
         /\ reader' = [reader EXCEPT !.pc = "idle"]
<1>1. NL \notin Zero..Zero + 9
  BY DEF NL, Zero
<1> QED BY <1>1 DEF InputByte, InputReturn

(* The states of input().                                                  *)
ReaderStates == [pc : {"idle", "skip", "signed", "digits"}, val : Int, neg : BOOLEAN]

(* The premise of RoundTrip, and the number of calls whose line is out.    *)
OnlyOutput == (\A k \in DOMAIN calls : calls[k].fn = "output") /\ shorts = 0
Written    == IF frame = Idle THEN Len(calls) ELSE Len(calls) - 1

(* o is the lines of the first w of the calls c: the j-th ends at b[j].    *)
Ends(b, o, c, w) ==
  /\ b \in [0..w -> Nat] /\ b[0] = 0 /\ b[w] = Len(o)
  /\ \A j \in 1..w : /\ Len(Line(c[j].arg)) \in Nat
                     /\ b[j] = b[j - 1] + Len(Line(c[j].arg)) /\ b[j] <= Len(o)
                     /\ \A i \in 1..Len(Line(c[j].arg)) : o[b[j - 1] + i] = Line(c[j].arg)[i]

(* input() in state r, n results and p bytes into the lines, is before the *)
(* next line, or at the end of the input, ...                              *)
Between(b, o, w, p, n) == p = IF n <= w THEN b[n] ELSE Len(o)

(* ... or has read the sign and i digits of the line of x.                 *)
Inside(b, x, w, r, p, n) ==
  /\ n < w
  /\ \E i \in 0..Len(Digits[Magnitude(x)]) :
       /\ p = b[n] + Len(SignOf(x)) + i
       /\ r.val = Value(Magnitude(x))[i] /\ (r.neg = TRUE <=> x < 0)

Reading(b, o, c, w, r, p, n) ==
  /\ r.pc \in {"idle", "skip"} => Between(b, o, w, p, n)
  /\ r.pc = "skip" => r.val = 0 /\ r.neg = FALSE
  /\ r.pc \in {"signed", "digits"} => Inside(b, c[n + 1].arg, w, r, p, n)

(* Both programs while RoundTrip's premise holds: output() has its line to *)
(* write, the results of input() are the arguments of the calls, and it is *)
(* ahead of the lines only after the end.                                  *)
Answers(g, c) == \A k \in 1..Len(g) : g[k] = IF k <= Len(c) THEN c[k].arg ELSE 0

Trip ==
  /\ \A k \in 1..Len(calls) : calls[k].arg \in Ints
  /\ frame # Idle => /\ calls # <<>> /\ ~exited
                     /\ frame \in OutputFrames /\ OutputLeft(frame, Line(Current))
  /\ reader \in ReaderStates /\ got \in Seq(Int) /\ Answers(got, calls)
  /\ Len(got) > Written => exited
  /\ \E b : Ends(b, out, calls, Written) /\ Reading(b, out, calls, Written, reader, rd, Len(got))

TripInv == OnlyOutput => Trip

(* The numbers of calls, of lines and of bytes.                            *)
LEMMA TripNumbers ==
  ASSUME TypeInv, Trip
  PROVE  /\ Len(calls) \in Nat /\ Written \in Nat /\ Written <= Len(calls)
         /\ Len(got) \in Nat /\ Len(out) \in Nat /\ rd \in Nat /\ rd <= Len(out)
<1>1. PICK S : calls \in Seq(S)
  BY DEF TypeInv
<1>2. Len(calls) \in Nat
  BY <1>1
<1>3. frame # Idle => Len(calls) # 0
  BY <1>1, EmptySeq DEF Trip
<1>4. Written \in Nat /\ Written <= Len(calls)
  BY <1>2, <1>3 DEF Written
<1>5. Len(got) \in Nat
  BY DEF Trip
<1>6. Len(out) \in Nat /\ rd \in Nat /\ rd <= Len(out)
  BY DEF TypeInv
<1> QED BY <1>2, <1>4, <1>5, <1>6

(* A step of the reader has its own part to keep.                          *)
LEMMA ReaderTrip ==
  ASSUME Trip, UNCHANGED writerVars, reader' \in ReaderStates, got' \in Seq(Int),
         Answers(got', calls), Len(got') > Written => exited,
         NEW b, Ends(b, out, calls, Written),
         Reading(b, out, calls, Written, reader', rd', Len(got'))
  PROVE  Trip'
<1>1. UNCHANGED <<frame, calls, out, exited>>
  BY DEF writerVars
<1>2. Written' = Written /\ Current' = Current
  BY <1>1 DEF Written, Current
<1>3. /\ \A k \in 1..Len(calls') : calls'[k].arg \in Ints
      /\ frame' # Idle => /\ calls' # <<>> /\ ~exited'
                          /\ frame' \in OutputFrames /\ OutputLeft(frame', Line(Current'))
  BY <1>1, <1>2 DEF Trip
<1>4. Ends(b, out', calls', Written')
      /\ Reading(b, out', calls', Written', reader', rd', Len(got'))
  BY <1>1, <1>2
<1>5. Answers(got', calls') /\ (Len(got') > Written' => exited')
  BY <1>1, <1>2
<1> QED BY <1>3, <1>4, <1>5 DEF Trip

(* input() is called.                                                      *)
LEMMA CallInputTrip ==
  ASSUME Trip, CallInput, UNCHANGED writerVars
  PROVE  Trip'
<1>1. reader.pc = "idle" /\ reader' = [pc |-> "skip", val |-> 0, neg |-> FALSE]
      /\ rd' = rd /\ got' = got
  BY DEF CallInput
<1>2. PICK b : Ends(b, out, calls, Written) /\ Reading(b, out, calls, Written, reader, rd, Len(got))
  BY DEF Trip
<1>3. reader' \in ReaderStates
  BY <1>1 DEF ReaderStates
<1>4. Reading(b, out, calls, Written, reader', rd', Len(got'))
  BY <1>1, <1>2 DEF Reading
<1>5. got' \in Seq(Int) /\ Answers(got', calls) /\ (Len(got') > Written => exited)
  BY <1>1 DEF Trip
<1> QED BY <1>2, <1>3, <1>4, <1>5, ReaderTrip

(* A line that is out: its place and its parts.                            *)
LEMMA LineOut ==
  ASSUME LongMin \notin Ints, NEW b, NEW o, NEW c, NEW w \in Nat, Ends(b, o, c, w),
         NEW n \in Nat, n < w, NEW x \in Ints, x = c[n + 1].arg, Len(o) \in Nat
  PROVE  /\ b[n] \in Nat /\ b[n + 1] = b[n] + Len(Line(x)) /\ b[n + 1] <= Len(o)
         /\ \A i \in 1..Len(Line(x)) : o[b[n] + i] = Line(x)[i]
         /\ b[n] + Len(SignOf(x)) + Len(Digits[Magnitude(x)]) < Len(o)
<1>1. n + 1 \in 1..w /\ n \in 0..w /\ (n + 1) - 1 = n
  OBVIOUS
<1>2. /\ b[n] \in Nat /\ b[n + 1] = b[n] + Len(Line(x)) /\ b[n + 1] <= Len(o)
      /\ \A i \in 1..Len(Line(x)) : o[b[n] + i] = Line(x)[i]
  BY <1>1 DEF Ends
<1>3. PICK t, m, s, l : /\ t = Line(x) /\ m = Magnitude(x) /\ s = Len(SignOf(x))
                        /\ l = Len(Digits[Magnitude(x)])
  OBVIOUS
<1>4. LineOf(x, t, m, s, l)
  BY <1>3, LineParts
<1>5. s \in Nat /\ l \in Nat /\ Len(t) = s + l + 1
  BY <1>4 DEF LineOf
<1>6. b[n] + s + l < Len(o)
  <2>1. PICK y \in Nat, z \in Nat : y = b[n] /\ z = Len(o)
    BY <1>2
  <2>2. y + (s + l + 1) <= z
    BY <1>2, <1>3, <1>5, <2>1
  <2>3. y + s + l < z
    BY <1>5, <2>1, <2>2
  <2> QED BY <2>1, <2>3
<1> QED BY <1>2, <1>3, <1>6

(* input() reads a byte.                                                   *)
LEMMA InputByteTrip ==
  ASSUME LongMin \notin Ints, TypeInv, Trip, InputByte, UNCHANGED writerVars
  PROVE  Trip'
<1>1. PICK b : Ends(b, out, calls, Written) /\ Reading(b, out, calls, Written, reader, rd, Len(got))
  BY DEF Trip
<1>2. PICK r, p, n, w, c, o, g : /\ r = reader /\ p = rd /\ n = Len(got) /\ w = Written
                                 /\ c = calls /\ o = out /\ g = got
  OBVIOUS
<1>3. /\ p \in Nat /\ p < Len(o) /\ n \in Nat /\ w \in Nat /\ Len(o) \in Nat /\ w <= Len(c)
      /\ Len(c) \in Nat
      /\ r \in ReaderStates /\ r.pc # "idle" /\ g \in Seq(Int) /\ n = Len(g) /\ Answers(g, c)
  BY <1>2, TripNumbers DEF Trip, InputByte
<1>4. Ends(b, o, c, w) /\ Reading(b, o, c, w, r, p, n)
  BY <1>1, <1>2
<1>5. r.pc \in {"skip", "signed", "digits"}
  BY <1>3 DEF ReaderStates
<1>6. n < w
  <2>1. CASE r.pc = "skip"
    <3>1. p = IF n <= w THEN b[n] ELSE Len(o)
      BY <1>4, <2>1 DEF Reading, Between
    <3>2. b[w] = Len(o)
      BY <1>4 DEF Ends
    <3>3. n <= w /\ n # w
      BY <1>3, <3>1, <3>2
    <3> QED BY <1>3, <3>3
  <2>2. CASE r.pc # "skip"
    BY <1>4, <1>5, <2>2 DEF Reading, Inside
  <2> QED BY <2>1, <2>2
<1>7. PICK x \in Ints : x = c[n + 1].arg
  <2>1. n + 1 \in 1..Len(c)
    BY <1>3, <1>6
  <2>2. c[n + 1].arg \in Ints
    BY <1>2, <2>1 DEF Trip
  <2> QED BY <2>2
<1>8. PICK t, m, s, l : /\ t = Line(x) /\ m = Magnitude(x) /\ s = Len(SignOf(x))
                        /\ l = Len(Digits[m])
  OBVIOUS
<1>9. LineOf(x, t, m, s, l) /\ x \in Int
  BY <1>8, LineParts
<1>10. /\ s \in Nat /\ l \in Nat /\ l >= 1 /\ Len(t) = s + l + 1
       /\ x < 0 => s = 1 /\ t[1] = Minus
       /\ ~(x < 0) => s = 0
  BY <1>9 DEF LineOf
<1>11. PICK a \in Nat : a = b[n]
  BY <1>3, <1>4, <1>6, <1>7, LineOut
<1>12. /\ b[n + 1] = a + s + l + 1
       /\ \A i \in 1..s + l + 1 : o[a + i] = t[i]
  <2>0. b[n + 1] = b[n] + Len(Line(x)) /\ \A i \in 1..Len(Line(x)) : o[b[n] + i] = Line(x)[i]
    <3>1. n + 1 \in 1..w /\ (n + 1) - 1 = n
      BY <1>3, <1>6
    <3> QED BY <1>4, <1>7, <3>1 DEF Ends
  <2>1. b[n + 1] = b[n] + Len(t) /\ \A i \in 1..Len(t) : o[b[n] + i] = t[i]
    BY <1>8, <2>0
  <2>2. a + (s + l + 1) = a + s + l + 1
    BY <1>10, <1>11
  <2> QED BY <1>10, <1>11, <2>1, <2>2
<1>13. ASSUME NEW i \in 0..l, p = a + s + i, r.val = Value(m)[i], i < l, (r.neg = TRUE <=> x < 0)
       PROVE  Trip'
  <2>1. /\ r.val \in Nat /\ t[s + i + 1] \in Zero..Zero + 9
        /\ Wrap(r.val * 10 + (t[s + i + 1] - Zero)) = Value(m)[i + 1]
    <3>1. PICK u : u = r.val
      OBVIOUS
    <3>2. u = Value(m)[i] /\ l = Len(Digits[m])
      BY <1>8, <1>13, <3>1
    <3> QED BY <1>9, <1>13, <3>1, <3>2, LineByte
  <2>2. s + i + 1 \in 1..s + l + 1 /\ a + (s + i + 1) = p + 1 /\ p + 1 = a + s + (i + 1) /\ i + 1 \in 0..l
    BY <1>10, <1>13
  <2>3. o[p + 1] = t[s + i + 1]
    BY <1>12, <2>2
  <2>4. PICK v : v = Value(m)[i + 1]
    OBVIOUS
  <2>5. rd' = p + 1 /\ got' = g /\ reader' = [r EXCEPT !.pc = "digits", !.val = v]
    <3>1. out[rd + 1] \in Zero..Zero + 9
      BY <1>2, <2>1, <2>3
    <3>2. Wrap(reader.val * 10 + (out[rd + 1] - Zero)) = v
      BY <1>2, <2>1, <2>3, <2>4
    <3> QED BY <1>2, <3>1, <3>2, InputByteDigit
  <2>6. v \in Nat
    BY <1>8, <1>9, <2>2, <2>4, LineByte
  <2>7. PICK q : q = reader'
    OBVIOUS
  <2>8. q \in ReaderStates /\ q.pc = "digits" /\ q.val = v /\ (q.neg = TRUE <=> r.neg = TRUE)
    <3>1. q = [r EXCEPT !.pc = "digits", !.val = v] /\ v \in Int
      BY <2>5, <2>6, <2>7
    <3>2. r \in ReaderStates
      BY <1>3
    <3> QED BY <3>1, <3>2 DEF ReaderStates
  <2>9. Inside(b, x, w, q, p + 1, n)
    BY <1>6, <1>8, <1>11, <1>13, <2>2, <2>4, <2>8 DEF Inside
  <2>10. Reading(b, o, c, w, q, p + 1, n)
    BY <1>7, <2>8, <2>9 DEF Reading
  <2>11. Reading(b, out, calls, Written, reader', rd', Len(got'))
    BY <1>2, <2>5, <2>7, <2>10
  <2>12. /\ got' \in Seq(Int) /\ Answers(got', calls) /\ (Len(got') > Written => exited)
         /\ reader' \in ReaderStates
    BY <1>2, <2>5, <2>7, <2>8 DEF Trip
  <2> QED BY <1>1, <2>11, <2>12, ReaderTrip
<1>14. ASSUME r.pc # "skip", p = a + s + l, r.val = Value(m)[l], (r.neg = TRUE <=> x < 0)
       PROVE  Trip'
  <2>1. l \in 0..l
    BY <1>10
  <2>2. /\ r.val \in Nat /\ t[s + l + 1] = NL
        /\ (IF x < 0 THEN Wrap(0 - r.val) ELSE r.val) = x
    <3>1. PICK u : u = r.val
      OBVIOUS
    <3>2. u = Value(m)[l] /\ l = Len(Digits[m])
      BY <1>8, <1>14, <3>1
    <3> QED BY <1>9, <2>1, <3>1, <3>2, LineByte
  <2>3. s + l + 1 \in 1..s + l + 1 /\ a + (s + l + 1) = p + 1 /\ p + 1 = b[n + 1]
    BY <1>10, <1>12, <1>14
  <2>4. o[p + 1] = NL
    BY <1>12, <2>2, <2>3
  <2>5. InputValue = x
    <3>1. CASE x < 0
      BY <1>2, <1>14, <2>2, <3>1 DEF InputValue
    <3>2. CASE ~(x < 0)
      BY <1>2, <1>14, <2>2, <3>2 DEF InputValue
    <3> QED BY <3>1, <3>2
  <2>6. rd' = p + 1 /\ got' = Append(g, x) /\ reader' = [r EXCEPT !.pc = "idle"]
    BY <1>2, <1>14, <2>4, <2>5, InputByteEnd
  <2>7. PICK q, h : q = reader' /\ h = got'
    OBVIOUS
  <2>8. q \in ReaderStates /\ q.pc = "idle"
    BY <1>3, <2>6, <2>7 DEF ReaderStates
  <2>9. h \in Seq(Int) /\ Len(h) = n + 1 /\ h[n + 1] = x /\ \A k \in 1..n : h[k] = g[k]
    BY <1>3, <1>9, <2>6, <2>7, AppendProperties
  <2>10. Answers(h, c)
    <3> SUFFICES ASSUME NEW k \in 1..n + 1 PROVE h[k] = IF k <= Len(c) THEN c[k].arg ELSE 0
      BY <2>9 DEF Answers
    <3>1. CASE k = n + 1
      <4>1. k <= Len(c)
        BY <1>3, <1>6, <3>1
      <4> QED BY <1>7, <2>9, <3>1, <4>1
    <3>2. CASE k # n + 1
      <4>1. k \in 1..n
        BY <1>3, <3>2
      <4> QED BY <1>3, <2>9, <4>1 DEF Answers
    <3> QED BY <3>1, <3>2
  <2>11. Reading(b, o, c, w, q, p + 1, n + 1)
    <3>1. n + 1 <= w
      BY <1>3, <1>6
    <3> QED BY <2>3, <2>8, <3>1 DEF Reading, Between
  <2>12. Reading(b, out, calls, Written, reader', rd', Len(got'))
    BY <1>2, <2>6, <2>7, <2>9, <2>11
  <2>13. ~(Len(got') > Written)
    BY <1>2, <1>3, <1>6, <2>7, <2>9
  <2>14. reader' \in ReaderStates /\ got' \in Seq(Int) /\ Answers(got', calls)
    BY <1>2, <2>7, <2>8, <2>9, <2>10
  <2> QED BY <1>1, <2>12, <2>13, <2>14, ReaderTrip
<1>15. CASE r.pc = "skip"
  <2>1. p = a /\ r.val = 0 /\ r.neg = FALSE
    BY <1>3, <1>4, <1>6, <1>11, <1>15 DEF Reading, Between
  <2>2. Value(m)[0] = 0 /\ 0 \in 0..l
    <3>1. m \in Nat
      BY <1>9 DEF LineOf
    <3> QED BY <1>10, <3>1, ValueReads DEF Reads
  <2>3. CASE x < 0
    <3>1. 1 \in 1..s + l + 1 /\ s = 1 /\ t[1] = Minus
      BY <1>10, <2>3
    <3>2. o[p + 1] = Minus
      BY <1>12, <2>1, <3>1
    <3>3. rd' = p + 1 /\ got' = g /\ reader' = [r EXCEPT !.pc = "signed", !.neg = TRUE]
      BY <1>2, <1>15, <3>2, InputByteSign
    <3>4. PICK q : q = reader'
      OBVIOUS
    <3>5. q \in ReaderStates /\ q.pc = "signed" /\ q.val = 0 /\ q.neg = TRUE
      BY <1>3, <2>1, <3>3, <3>4 DEF ReaderStates
    <3>6. p + 1 = a + s + 0 /\ (q.neg = TRUE <=> x < 0)
      BY <2>1, <2>3, <3>1, <3>5
    <3>7. Inside(b, x, w, q, p + 1, n)
      BY <1>6, <1>8, <1>11, <2>2, <3>5, <3>6 DEF Inside
    <3>8. Reading(b, o, c, w, q, p + 1, n)
      BY <1>7, <3>5, <3>7 DEF Reading
    <3>9. Reading(b, out, calls, Written, reader', rd', Len(got'))
      BY <1>2, <3>3, <3>4, <3>8
    <3>10. /\ got' \in Seq(Int) /\ Answers(got', calls) /\ (Len(got') > Written => exited)
           /\ reader' \in ReaderStates
      BY <1>2, <3>3, <3>4, <3>5 DEF Trip
    <3> QED BY <1>1, <3>9, <3>10, ReaderTrip
  <2>4. CASE ~(x < 0)
    <3>1. p = a + s + 0 /\ 0 < l /\ r.val = Value(m)[0] /\ (r.neg = TRUE <=> x < 0)
      BY <1>10, <1>11, <2>1, <2>2, <2>4
    <3> QED BY <1>13, <2>2, <3>1
  <2> QED BY <2>3, <2>4
<1>16. CASE r.pc # "skip"
  <2>1. Inside(b, x, w, r, p, n)
    BY <1>4, <1>5, <1>7, <1>16 DEF Reading
  <2>2. PICK i \in 0..l : p = a + s + i /\ r.val = Value(m)[i] /\ (r.neg = TRUE <=> x < 0)
    BY <1>8, <1>11, <2>1 DEF Inside
  <2>3. CASE i < l
    BY <1>13, <2>2, <2>3
  <2>4. CASE ~(i < l)
    <3>1. i = l
      BY <1>10, <2>4
    <3> QED BY <1>14, <1>16, <2>2, <3>1
  <2> QED BY <2>3, <2>4
<1> QED BY <1>15, <1>16

(* input() finds the end of the input: no line is left.                    *)
LEMMA InputEOFTrip ==
  ASSUME LongMin \notin Ints, TypeInv, Trip, InputEOF, UNCHANGED writerVars
  PROVE  Trip'
<1>1. PICK b : Ends(b, out, calls, Written) /\ Reading(b, out, calls, Written, reader, rd, Len(got))
  BY DEF Trip
<1>2. PICK r, p, n, w, c, o, g : /\ r = reader /\ p = rd /\ n = Len(got) /\ w = Written
                                 /\ c = calls /\ o = out /\ g = got
  OBVIOUS
<1>3. /\ p \in Nat /\ p = Len(o) /\ n \in Nat /\ w \in Nat /\ w <= Len(c) /\ Len(c) \in Nat
      /\ r \in ReaderStates /\ r.pc # "idle" /\ g \in Seq(Int) /\ n = Len(g) /\ Answers(g, c)
      /\ exited
  BY <1>2, TripNumbers DEF Trip, InputEOF
<1>4. Ends(b, o, c, w) /\ Reading(b, o, c, w, r, p, n)
  BY <1>1, <1>2
<1>5. w = Len(c)
  BY <1>2, <1>3 DEF Trip, Written
<1>6. ASSUME n < w PROVE FALSE
  <2>1. PICK x \in Ints : x = c[n + 1].arg
    <3>1. n + 1 \in 1..Len(c)
      BY <1>3, <1>6
    <3>2. c[n + 1].arg \in Ints
      BY <1>2, <3>1 DEF Trip
    <3> QED BY <3>2
  <2>2. PICK s, l : s = Len(SignOf(x)) /\ l = Len(Digits[Magnitude(x)])
    OBVIOUS
  <2>3. s \in Nat /\ l \in Nat
    BY <2>2, LineParts DEF LineOf
  <2>4. PICK a \in Nat : a = b[n] /\ a + s + l < p
    BY <1>3, <1>4, <1>6, <2>1, <2>2, LineOut
  <2>5. CASE r.pc = "skip"
    <3>1. p = a
      BY <1>3, <1>4, <1>6, <2>4, <2>5 DEF Reading, Between
    <3> QED BY <1>3, <2>3, <2>4, <3>1
  <2>6. CASE r.pc # "skip"
    <3>1. r.pc \in {"signed", "digits"}
      BY <1>3, <2>6 DEF ReaderStates
    <3>2. PICK i \in 0..l : p = a + s + i
      BY <1>4, <2>1, <2>2, <2>4, <3>1 DEF Reading, Inside
    <3> QED BY <1>3, <2>3, <2>4, <3>2
  <2> QED BY <2>5, <2>6
<1>7. r.pc = "skip"
  <2>1. r.pc \in {"signed", "digits"} => n < w
    BY <1>4 DEF Reading, Inside
  <2> QED BY <1>3, <1>6, <2>1 DEF ReaderStates
<1>8. rd' = p /\ got' = Append(g, 0) /\ reader' = [r EXCEPT !.pc = "idle"]
  BY <1>2, <1>7 DEF InputEOF, InputReturn
<1>9. PICK q, h : q = reader' /\ h = got'
  OBVIOUS
<1>10. q \in ReaderStates /\ q.pc = "idle"
  BY <1>3, <1>8, <1>9 DEF ReaderStates
<1>11. h \in Seq(Int) /\ Len(h) = n + 1 /\ h[n + 1] = 0 /\ \A k \in 1..n : h[k] = g[k]
  BY <1>3, <1>8, <1>9, AppendProperties
<1>12. Answers(h, c)
  <2> SUFFICES ASSUME NEW k \in 1..n + 1 PROVE h[k] = IF k <= Len(c) THEN c[k].arg ELSE 0
    BY <1>11 DEF Answers
  <2>1. CASE k = n + 1
    <3>1. ~(k <= Len(c))
      BY <1>3, <1>5, <1>6, <2>1
    <3> QED BY <1>11, <2>1, <3>1
  <2>2. CASE k # n + 1
    <3>1. k \in 1..n
      BY <1>3, <2>2
    <3> QED BY <1>3, <1>11, <3>1 DEF Answers
  <2> QED BY <2>1, <2>2
<1>13. Reading(b, o, c, w, q, p, n + 1)
  <2>1. ~(n + 1 <= w)
    BY <1>3, <1>6
  <2> QED BY <1>3, <1>10, <2>1 DEF Reading, Between
<1>14. Reading(b, out, calls, Written, reader', rd', Len(got'))
  BY <1>2, <1>8, <1>9, <1>11, <1>13
<1>15. reader' \in ReaderStates /\ got' \in Seq(Int) /\ Answers(got', calls)
  BY <1>2, <1>9, <1>10, <1>11, <1>12
<1> QED BY <1>1, <1>3, <1>14, <1>15, ReaderTrip

(* A call in progress is not Idle.                                         *)
LEMMA OutputNotIdle ==
  ASSUME NEW f \in OutputFrames
  PROVE  f # Idle
BY DEF OutputFrames, Idle

(* output() is called: the lines are what they were.                       *)
LEMMA CallOutputTrip ==
  ASSUME LongMin \notin Ints, TypeInv, Trip, NEW x \in Ints, CallOutput(x), UNCHANGED readerVars
  PROVE  Trip'
<1>1. Enter("output", x, OutputStart(x))
  BY CallOutputEnters
<1>2. PICK f, e : f = OutputStart(x) /\ e = [fn |-> "output", arg |-> x]
  OBVIOUS
<1>3. /\ frame = Idle /\ ~exited /\ frame' = f /\ calls' = Append(calls, e)
      /\ UNCHANGED <<out, exited, reader, rd, got>>
  BY <1>1, <1>2 DEF Enter, readerVars
<1>4. f \in OutputFrames /\ OutputLeft(f, Line(x)) /\ f # Idle
  BY <1>2, OutputStarts, OutputNotIdle
<1>5. PICK w, n, c, d : w = Written /\ n = Len(got) /\ c = calls /\ d = calls'
  OBVIOUS
<1>6. w \in Nat /\ w = Len(c) /\ n \in Nat /\ n <= w
  BY <1>3, <1>5, TripNumbers DEF Trip, Written
<1>7. Len(d) = w + 1 /\ d[w + 1] = e /\ \A j \in 1..w : d[j] = c[j]
  <2>1. PICK S : c \in Seq(S)
    BY <1>5 DEF TypeInv
  <2>2. c \in Seq(S \cup {e}) /\ e \in S \cup {e}
    BY <2>1, SeqMonotonic
  <2> QED BY <1>3, <1>5, <1>6, <2>2, AppendProperties
<1>8. e.arg = x /\ d # <<>>
  <2>1. e.arg = x
    BY <1>2
  <2>2. d # <<>>
    BY <1>6, <1>7
  <2> QED BY <2>1, <2>2
<1>9. Written' = w /\ Current' = x
  <2>1. (w + 1) - 1 = w
    BY <1>6
  <2> QED BY <1>3, <1>4, <1>5, <1>7, <1>8, <2>1 DEF Written, Current
<1>10. ASSUME NEW k \in 1..Len(d) PROVE d[k].arg \in Ints
  <2>1. CASE k = w + 1
    BY <1>7, <1>8, <2>1
  <2>2. CASE k # w + 1
    <3>1. k \in 1..w
      BY <1>6, <1>7, <2>2
    <3> QED BY <1>5, <1>6, <1>7, <3>1 DEF Trip
  <2> QED BY <2>1, <2>2
<1>11. Answers(got, d)
  <2> SUFFICES ASSUME NEW k \in 1..n PROVE got[k] = IF k <= Len(d) THEN d[k].arg ELSE 0
    BY <1>5 DEF Answers
  <2>1. k \in 1..w /\ k <= Len(c) /\ k <= Len(d)
    BY <1>6, <1>7
  <2>2. got[k] = c[k].arg
    BY <1>5, <2>1 DEF Trip, Answers
  <2> QED BY <1>7, <2>1, <2>2
<1>12. PICK b : Ends(b, out, c, w) /\ Reading(b, out, c, w, reader, rd, n)
  BY <1>5 DEF Trip
<1>13. Ends(b, out, d, w)
  <2>1. b \in [0..w -> Nat] /\ b[0] = 0 /\ b[w] = Len(out)
    BY <1>12 DEF Ends
  <2>2. ASSUME NEW j \in 1..w
        PROVE  /\ Len(Line(d[j].arg)) \in Nat
               /\ b[j] = b[j - 1] + Len(Line(d[j].arg)) /\ b[j] <= Len(out)
               /\ \A i \in 1..Len(Line(d[j].arg)) : out[b[j - 1] + i] = Line(d[j].arg)[i]
    <3>1. d[j] = c[j]
      BY <1>7
    <3>2. /\ Len(Line(c[j].arg)) \in Nat
          /\ b[j] = b[j - 1] + Len(Line(c[j].arg)) /\ b[j] <= Len(out)
          /\ \A i \in 1..Len(Line(c[j].arg)) : out[b[j - 1] + i] = Line(c[j].arg)[i]
      BY <1>12 DEF Ends
    <3> QED BY <3>1, <3>2
  <2> QED BY <2>1, <2>2 DEF Ends
<1>14. Reading(b, out, d, w, reader, rd, n)
  <2>1. n < w => d[n + 1] = c[n + 1]
    BY <1>6, <1>7
  <2>2. CASE n < w
    BY <1>12, <2>1, <2>2 DEF Reading
  <2>3. CASE ~(n < w)
    BY <1>12, <2>3 DEF Reading, Inside
  <2> QED BY <2>2, <2>3
<1>15. /\ frame' \in OutputFrames /\ OutputLeft(frame', Line(Current')) /\ calls' # <<>> /\ ~exited'
  BY <1>3, <1>4, <1>5, <1>8, <1>9
<1>16. ~(Len(got') > Written')
  BY <1>3, <1>5, <1>6, <1>9
<1>17. reader' \in ReaderStates /\ got' \in Seq(Int) /\ Answers(got', calls')
  BY <1>3, <1>5, <1>11 DEF Trip
<1>18. \A k \in 1..Len(calls') : calls'[k].arg \in Ints
  BY <1>5, <1>10
<1>19. Ends(b, out', calls', Written') /\ Reading(b, out', calls', Written', reader', rd', Len(got'))
  BY <1>3, <1>5, <1>9, <1>13, <1>14
<1> QED BY <1>15, <1>16, <1>17, <1>18, <1>19 DEF Trip

(* It writes a digit into its buffer.                                      *)
LEMMA OutputDigitTrip ==
  ASSUME TypeInv, Trip, OutputDigit, UNCHANGED readerVars
  PROVE  Trip'
<1>1. /\ frame.fn = "output" /\ frame.val > 0
      /\ frame' = [frame EXCEPT !.buf = <<Zero + (frame.val % 10)>> \o frame.buf,
                                !.val = frame.val \div 10]
      /\ UNCHANGED <<calls, out, exited, reader, rd, got>>
  BY DEF OutputDigit, readerVars
<1>2. frame \in OutputFrames /\ frame # Idle
  BY <1>1, FrameKinds, OutputNotIdle
<1>3. OutputLeft(frame, Line(Current)) /\ calls # <<>> /\ ~exited
  BY <1>2 DEF Trip
<1>4. frame' \in OutputFrames /\ OutputLeft(frame', Line(Current))
  <2>1. PICK f, g, r : f = frame /\ g = frame' /\ r = Line(Current)
    OBVIOUS
  <2>2. f \in OutputFrames /\ OutputLeft(f, r) /\ f.val > 0
    BY <1>1, <1>2, <1>3, <2>1
  <2>3. g = [f EXCEPT !.buf = <<Zero + (f.val % 10)>> \o f.buf, !.val = f.val \div 10]
    BY <1>1, <2>1
  <2>4. g \in OutputFrames /\ OutputLeft(g, r)
    BY <2>2, <2>3, OutputMoves
  <2> QED BY <2>1, <2>4
<1>5. frame' # Idle
  BY <1>4, OutputNotIdle
<1>6. Written' = Written /\ Current' = Current
  BY <1>1, <1>2, <1>5 DEF Written, Current
<1>7. /\ \A k \in 1..Len(calls') : calls'[k].arg \in Ints
      /\ reader' \in ReaderStates /\ got' \in Seq(Int) /\ Answers(got', calls')
      /\ Len(got') > Written' => exited'
  BY <1>1, <1>6 DEF Trip
<1>8. \E b : Ends(b, out', calls', Written') /\ Reading(b, out', calls', Written', reader', rd', Len(got'))
  BY <1>1, <1>6 DEF Trip
<1>9. OutputLeft(frame', Line(Current')) /\ calls' # <<>> /\ ~exited'
  BY <1>1, <1>3, <1>4, <1>6
<1> QED BY <1>4, <1>7, <1>8, <1>9 DEF Trip

(* u is o followed by t.                                                   *)
Longer(u, o, t) ==
  /\ Len(o) \in Nat /\ Len(t) \in Nat /\ Len(u) = Len(o) + Len(t)
  /\ \A i \in 1..Len(o) + Len(t) : u[i] = IF i <= Len(o) THEN o[i] ELSE t[i - Len(o)]

(* A place inside the first z bytes.                                       *)
LEMMA InFront ==
  ASSUME NEW p \in Nat, NEW m \in Nat, NEW z \in Nat, NEW l \in Nat, p + m <= z, NEW i \in 1..m
  PROVE  p + i \in 1..z + l /\ p + i <= z
OBVIOUS

(* One line more: the ends of the others stay.                             *)
LEMMA EndsMore ==
  ASSUME NEW b, NEW o, NEW c, NEW w \in Nat, Ends(b, o, c, w),
         NEW t, t = Line(c[w + 1].arg), NEW u, Longer(u, o, t)
  PROVE  \E a : Ends(a, u, c, w + 1) /\ \A j \in 0..w : a[j] = b[j]
<1>1. PICK z \in Nat, l \in Nat : z = Len(o) /\ l = Len(t)
  BY DEF Longer
<1>2. Len(u) = z + l /\ \A i \in 1..z + l : u[i] = IF i <= z THEN o[i] ELSE t[i - z]
  BY <1>1 DEF Longer
<1>3. PICK a : a = [j \in 0..w + 1 |-> IF j <= w THEN b[j] ELSE z + l]
  OBVIOUS
<1>4. a \in [0..w + 1 -> Nat] /\ a[w + 1] = z + l /\ \A j \in 0..w : a[j] = b[j]
  <2>1. \A j \in 0..w : b[j] \in Nat
    BY DEF Ends
  <2>2. \A j \in 0..w + 1 : j <= w => j \in 0..w
    OBVIOUS
  <2>3. \A j \in 0..w : j <= w /\ j \in 0..w + 1
    OBVIOUS
  <2>4. w + 1 \in 0..w + 1 /\ ~(w + 1 <= w)
    OBVIOUS
  <2> QED BY <1>3, <2>1, <2>2, <2>3, <2>4
<1>5. a[0] = 0 /\ a[w] = z
  <2>1. 0 \in 0..w /\ w \in 0..w
    OBVIOUS
  <2> QED BY <1>1, <1>4, <2>1 DEF Ends
<1>6. ASSUME NEW j \in 1..w + 1
      PROVE  /\ Len(Line(c[j].arg)) \in Nat
             /\ a[j] = a[j - 1] + Len(Line(c[j].arg)) /\ a[j] <= Len(u)
             /\ \A i \in 1..Len(Line(c[j].arg)) : u[a[j - 1] + i] = Line(c[j].arg)[i]
  <2>1. CASE j = w + 1
    <3>1. j - 1 = w /\ Line(c[j].arg) = t
      BY <2>1
    <3>2. a[j] = z + l /\ a[j - 1] = z
      BY <1>4, <1>5, <2>1, <3>1
    <3>3. ASSUME NEW i \in 1..l PROVE u[z + i] = t[i]
      <4>1. z + i \in 1..z + l /\ ~(z + i <= z) /\ (z + i) - z = i
        OBVIOUS
      <4> QED BY <1>2, <4>1
    <3> QED BY <1>1, <1>2, <3>1, <3>2, <3>3
  <2>2. CASE j # w + 1
    <3>0. PICK y : y = Line(c[j].arg)
      OBVIOUS
    <3>1. j \in 1..w /\ j \in 0..w /\ j - 1 \in 0..w
      BY <2>2
    <3>2. a[j] = b[j] /\ a[j - 1] = b[j - 1]
      BY <1>4, <3>1
    <3>3. PICK p \in Nat, q \in Nat : p = b[j - 1] /\ q = b[j]
      BY <3>1 DEF Ends
    <3>4. /\ Len(y) \in Nat /\ q = p + Len(y) /\ q <= z
          /\ \A i \in 1..Len(y) : o[p + i] = y[i]
      BY <1>1, <3>0, <3>1, <3>3 DEF Ends
    <3>5. PICK m \in Nat : m = Len(y)
      BY <3>4
    <3>6. ASSUME NEW i \in 1..m PROVE u[p + i] = y[i]
      <4>1. p + m <= z
        BY <3>4, <3>5
      <4>2. p + i \in 1..z + l /\ p + i <= z
        BY <4>1, InFront
      <4>3. u[p + i] = o[p + i]
        BY <1>2, <4>2
      <4> QED BY <3>4, <3>5, <4>3
    <3>7. q <= z + l
      BY <3>4
    <3> QED BY <1>2, <3>0, <3>2, <3>3, <3>4, <3>5, <3>6, <3>7
  <2> QED BY <2>1, <2>2
<1>7. Ends(a, u, c, w + 1)
  BY <1>2, <1>4, <1>5, <1>6 DEF Ends
<1> QED BY <1>4, <1>7

(* The call returns when its line is out.                                  *)
LEMMA OutputWriteTrip ==
  ASSUME LongMin \notin Ints, TypeInv, Trip, OutputWrite, shorts = 0, shorts' = 0, UNCHANGED readerVars
  PROVE  Trip'
<1>1. frame.fn = "output" /\ frame.val <= 0 /\ frame' = Idle /\ UNCHANGED <<calls, exited, reader, rd, got>>
  BY DEF OutputWrite, Write, Return, readerVars
<1>2. frame \in OutputFrames /\ frame # Idle
  BY <1>1, FrameKinds, OutputNotIdle
<1>3. OutputLeft(frame, Line(Current)) /\ calls # <<>> /\ ~exited
  BY <1>2 DEF Trip
<1>4. PICK f, t : f = frame /\ t = Line(Current)
  OBVIOUS
<1>5. t \in Seq(Bytes) /\ t = IF f.neg THEN <<Minus>> \o f.buf ELSE f.buf
  <2>1. f \in OutputFrames /\ OutputLeft(f, t) /\ f.val <= 0
    BY <1>1, <1>2, <1>3, <1>4
  <2> QED BY <2>1, OutputEnds
<1>6. Write(t)
  BY <1>4, <1>5 DEF OutputWrite
<1>7. out' = out \o t
  <2>1. PICK k \in 0..Len(t) : /\ out' = out \o SubSeq(t, 1, k)
                               /\ shorts' = IF k < Len(t) THEN shorts + 1 ELSE shorts
    BY <1>6 DEF Write
  <2>2. ~(k < Len(t))
    BY <2>1
  <2>3. Len(t) \in Nat
    BY <1>5
  <2>4. k = Len(t)
    BY <2>1, <2>2, <2>3
  <2>5. SubSeq(t, 1, Len(t)) = t
    BY <1>5, SubSeqFull
  <2> QED BY <2>1, <2>4, <2>5
<1>8. PICK w, n, c, o : w = Written /\ n = Len(got) /\ c = calls /\ o = out
  OBVIOUS
<1>9. w \in Nat /\ n \in Nat /\ n <= w /\ Len(c) = w + 1 /\ o \in Seq(Bytes)
  <2>1. w \in Nat /\ n \in Nat /\ Len(c) \in Nat /\ w = Len(c) - 1
    BY <1>2, <1>8, TripNumbers DEF Written
  <2>2. ~(n > w)
    BY <1>3, <1>8 DEF Trip
  <2> QED BY <1>8, <2>1, <2>2 DEF TypeInv
<1>10. t = Line(c[w + 1].arg)
  BY <1>4, <1>8, <1>9 DEF Current
<1>11. PICK b : Ends(b, o, c, w) /\ Reading(b, o, c, w, reader, rd, n)
  BY <1>8 DEF Trip
<1>12. PICK u : u = o \o t
  OBVIOUS
<1>13. PICK a : Ends(a, u, c, w + 1) /\ \A j \in 0..w : a[j] = b[j]
  <2>1. Longer(u, o, t)
    BY <1>5, <1>9, <1>12, ConcatProperties DEF Longer
  <2>2. Ends(b, o, c, w) /\ w \in Nat
    BY <1>9, <1>11
  <2> QED BY <1>10, <2>1, <2>2, EndsMore
<1>14. Reading(a, u, c, w + 1, reader, rd, n)
  <2>1. n \in 0..w /\ n <= w + 1 /\ a[n] = b[n]
    BY <1>9, <1>13
  <2>2. Between(b, o, w, rd, n) => Between(a, u, w + 1, rd, n)
    BY <1>9, <2>1 DEF Between
  <2>3. ASSUME NEW x, Inside(b, x, w, reader, rd, n) PROVE Inside(a, x, w + 1, reader, rd, n)
    <3>1. n < w + 1
      BY <1>9
    <3> QED BY <2>1, <2>3, <3>1 DEF Inside
  <2> QED BY <1>11, <2>2, <2>3 DEF Reading
<1>15. Written' = w + 1
  BY <1>1, <1>8, <1>9 DEF Written
<1>16. Ends(a, out', calls', Written') /\ Reading(a, out', calls', Written', reader', rd', Len(got'))
  BY <1>1, <1>7, <1>8, <1>12, <1>13, <1>14, <1>15
<1>17. /\ \A k \in 1..Len(calls') : calls'[k].arg \in Ints
       /\ reader' \in ReaderStates /\ got' \in Seq(Int) /\ Answers(got', calls')
  BY <1>1 DEF Trip
<1>18. ~(Len(got') > Written')
  BY <1>1, <1>8, <1>9, <1>15
<1> QED BY <1>1, <1>16, <1>17, <1>18 DEF Trip

(* The writer exits.                                                       *)
LEMMA ExitTrip ==
  ASSUME Trip, Exit, UNCHANGED readerVars
  PROVE  Trip'
<1>1. frame = Idle /\ exited' = TRUE /\ UNCHANGED <<frame, calls, out, reader, rd, got>>
  BY DEF Exit, readerVars
<1>2. Written' = Written
  BY <1>1 DEF Written
<1>3. /\ \A k \in 1..Len(calls') : calls'[k].arg \in Ints
      /\ reader' \in ReaderStates /\ got' \in Seq(Int) /\ Answers(got', calls')
  BY <1>1 DEF Trip
<1>4. \E b : Ends(b, out', calls', Written') /\ Reading(b, out', calls', Written', reader', rd', Len(got'))
  BY <1>1, <1>2 DEF Trip
<1> QED BY <1>1, <1>3, <1>4 DEF Trip

(* No other call is in progress.                                           *)
LEMMA OthersTrip ==
  ASSUME Trip,
         WriteNext \/ PrintSign \/ PrintPosDescend \/ PrintPosDigit \/ BufioPut
           \/ VfprintfReturn \/ FileStrPut \/ StrReturn
  PROVE  FALSE
<1>1. frame.fn \in {"list", "long", "vfprintf", "str"}
  BY DEF WriteNext, PrintSign, PrintPosDescend, PrintPosDigit, BufioPut, VfprintfReturn,
         FileStrPut, StrReturn
<1>2. Idle.fn = "none" /\ \A f \in OutputFrames : f.fn = "output"
  BY DEF Idle, OutputFrames
<1> QED BY <1>1, <1>2 DEF Trip

(* A call adds itself to the history.                                      *)
LEMMA EnterLast ==
  ASSUME TypeInv, NEW fn, NEW arg, NEW f, Enter(fn, arg, f)
  PROVE  /\ shorts' = shorts
         /\ OnlyOutput' => OnlyOutput /\ fn = "output"
<1>1. shorts' = shorts /\ calls' = Append(calls, [fn |-> fn, arg |-> arg])
  BY DEF Enter
<1>2. PICK e : e = [fn |-> fn, arg |-> arg]
  OBVIOUS
<1>3. e.fn = fn
  BY <1>2
<1>4. PICK c, d : c = calls /\ d = calls'
  OBVIOUS
<1>5. PICK S : c \in Seq(S)
  BY <1>4 DEF TypeInv
<1>6. c \in Seq(S \cup {e}) /\ e \in S \cup {e}
  BY <1>5, SeqMonotonic
<1>7. /\ d \in Seq(S \cup {e}) /\ Len(d) = Len(c) + 1 /\ d[Len(c) + 1] = e
      /\ \A k \in 1..Len(c) : d[k] = c[k]
  BY <1>1, <1>2, <1>4, <1>6, AppendProperties
<1>8. PICK n \in Nat : n = Len(c)
  BY <1>5
<1>9. DOMAIN c = 1..n /\ DOMAIN d = 1..n + 1
  BY <1>6, <1>7, <1>8
<1>10. \A k \in 1..n : k \in 1..n + 1
  OBVIOUS
<1>11. n + 1 \in 1..n + 1
  OBVIOUS
<1>12. ASSUME OnlyOutput' PROVE OnlyOutput /\ fn = "output"
  <2>1. shorts' = 0 /\ \A k \in 1..n + 1 : d[k].fn = "output"
    BY <1>4, <1>9, <1>12 DEF OnlyOutput
  <2>2. fn = "output"
    BY <1>3, <1>7, <1>8, <1>11, <2>1
  <2>3. \A k \in 1..n : c[k].fn = "output"
    BY <1>7, <1>8, <1>10, <2>1
  <2>4. OnlyOutput
    BY <1>1, <1>4, <1>9, <2>1, <2>3 DEF OnlyOutput
  <2> QED BY <2>2, <2>4
<1> QED BY <1>1, <1>12

(* Calls start.                                                            *)
LEMMA CallTrip ==
  ASSUME LongMin \notin Ints, TypeInv, TripInv, Call, UNCHANGED readerVars
  PROVE  TripInv'
<1> SUFFICES ASSUME OnlyOutput' PROVE Trip'
  BY DEF TripInv
<1>1. ASSUME NEW x \in Ints, CallOutput(x) PROVE Trip'
  <2>1. OnlyOutput
    BY <1>1, CallOutputEnters, EnterLast
  <2>2. Trip
    BY <2>1 DEF TripInv
  <2> QED BY <1>1, <2>2, CallOutputTrip
<1>2. ASSUME NEW fn, NEW arg, NEW f, Enter(fn, arg, f) PROVE fn = "output"
  BY <1>2, EnterLast
<1>3. ASSUME NEW x \in Ints, CallPrintLong(x) PROVE FALSE
  <2>1. PICK f : Enter("__stdio_print_long", x, f)
    BY <1>3 DEF CallPrintLong
  <2>2. "__stdio_print_long" = "output"
    BY <1>2, <2>1
  <2> QED BY <2>2
<1>4. ASSUME NEW x \in Chars, CallPrintChar(x) \/ CallPutchar(x) PROVE FALSE
  <2>1. PICK f : Enter("print_char", x, f) \/ Enter("putchar", x, f)
    BY <1>4 DEF CallPrintChar, CallPutchar
  <2>2. "print_char" = "output" \/ "putchar" = "output"
    BY <1>2, <2>1
  <2> QED BY <2>2
<1>5. ASSUME NEW s \in Strings, CallPrintString(s) \/ CallPuts(s) \/ CallPrintDouble(s) PROVE FALSE
  <2>1. PICK f, a : Enter("print_string", a, f) \/ Enter("puts", a, f) \/ Enter("print_double", a, f)
    BY <1>5 DEF CallPrintString, CallPuts, CallPrintDouble
  <2>2. "print_string" = "output" \/ "puts" = "output" \/ "print_double" = "output"
    BY <1>2, <2>1
  <2> QED BY <2>2
<1>6. ASSUME NEW t \in Formats, CallPrintf(t) \/ CallFprintf(t) PROVE FALSE
  <2>1. PICK f : Enter("printf", t, f) \/ Enter("fprintf", t, f)
    BY <1>6 DEF CallPrintf, CallFprintf
  <2>2. "printf" = "output" \/ "fprintf" = "output"
    BY <1>2, <2>1
  <2> QED BY <2>2
<1>7. ASSUME NEW t \in Formats, CallSprintf(t) PROVE FALSE
  <2>1. PICK f : Enter("sprintf", t, f)
    BY <1>7 DEF CallSprintf
  <2>2. "sprintf" = "output"
    BY <1>2, <2>1
  <2> QED BY <2>2
<1>8. ASSUME NEW t \in Formats, NEW n \in Sizes, CallSnprintf(n, t) PROVE FALSE
  <2>1. PICK f : Enter("snprintf", t, f)
    BY <1>8 DEF CallSnprintf
  <2>2. "snprintf" = "output"
    BY <1>2, <2>1
  <2> QED BY <2>2
<1> QED BY <1>1, <1>3, <1>4, <1>5, <1>6, <1>7, <1>8 DEF Call

(* A step that neither calls nor exits keeps the premise only if it held.  *)
LEMMA WriterPremise ==
  ASSUME TypeInv, OnlyOutput',
         OutputDigit \/ OutputWrite \/ WriteNext \/ PrintSign \/ PrintPosDescend \/ PrintPosDigit
           \/ BufioPut \/ VfprintfReturn \/ FileStrPut \/ StrReturn \/ Exit \/ UNCHANGED writerVars
  PROVE  OnlyOutput /\ shorts = 0 /\ shorts' = 0
<1>1. shorts \in Nat
  BY DEF TypeInv
<1>2. ASSUME NEW bytes, Write(bytes) PROVE calls' = calls /\ (shorts' = shorts \/ shorts' = shorts + 1)
  BY <1>2 DEF Write
<1>3. calls' = calls /\ (shorts' = shorts \/ shorts' = shorts + 1)
  <2>1. CASE OutputDigit \/ PrintPosDescend \/ VfprintfReturn \/ FileStrPut \/ StrReturn \/ Exit
             \/ UNCHANGED writerVars
    BY <2>1 DEF OutputDigit, PrintPosDescend, VfprintfReturn, FileStrPut, StrReturn, Exit, writerVars
  <2>2. CASE OutputWrite \/ WriteNext \/ PrintSign \/ PrintPosDigit
    BY <1>2, <2>2 DEF OutputWrite, WriteNext, PrintSign, PrintPosDigit
  <2>3. CASE BufioPut
    BY <1>2, <2>3 DEF BufioPut
  <2> QED BY <2>1, <2>2, <2>3
<1>4. shorts' = 0 /\ \A k \in DOMAIN calls' : calls'[k].fn = "output"
  BY DEF OnlyOutput
<1>5. shorts = 0
  BY <1>1, <1>3, <1>4
<1> QED BY <1>3, <1>4, <1>5 DEF OnlyOutput

(* Every step keeps the invariant.                                         *)
LEMMA NextTrip ==
  ASSUME LongMin \notin Ints, StdioInv, TripInv, [Next]_vars
  PROVE  TripInv'
<1>1. TypeInv
  BY DEF StdioInv
<1>2. CASE Call /\ UNCHANGED readerVars
  BY <1>1, <1>2, CallTrip
<1>3. CASE Writer /\ ~Call
  <2> SUFFICES ASSUME OnlyOutput' PROVE Trip'
    BY DEF TripInv
  <2>1. UNCHANGED readerVars
    BY <1>3 DEF Writer
  <2>2. OnlyOutput /\ shorts = 0 /\ shorts' = 0
    BY <1>1, <1>3, WriterPremise DEF Writer
  <2>3. Trip
    BY <2>2 DEF TripInv
  <2>4. OutputDigit \/ OutputWrite \/ Exit
    BY <1>3, <2>3, OthersTrip DEF Writer
  <2> QED BY <1>1, <2>1, <2>2, <2>3, <2>4, OutputDigitTrip, OutputWriteTrip, ExitTrip
<1>4. CASE Reader \/ UNCHANGED vars
  <2> SUFFICES ASSUME OnlyOutput' PROVE Trip'
    BY DEF TripInv
  <2>1. UNCHANGED writerVars
    BY <1>4 DEF Reader, vars
  <2>2. OnlyOutput
    BY <1>1, <2>1, WriterPremise
  <2>3. Trip
    BY <2>2 DEF TripInv
  <2>4. CASE Reader
    BY <1>1, <2>3, <2>4, CallInputTrip, InputByteTrip, InputEOFTrip DEF Reader
  <2>5. CASE UNCHANGED vars
    <3>1. reader' = reader /\ rd' = rd /\ got' = got
      BY <2>5 DEF vars, readerVars
    <3>2. PICK b : Ends(b, out, calls, Written) /\ Reading(b, out, calls, Written, reader, rd, Len(got))
      BY <2>3 DEF Trip
    <3>3. reader' \in ReaderStates /\ got' \in Seq(Int) /\ Answers(got', calls)
          /\ (Len(got') > Written => exited)
      BY <2>3, <3>1 DEF Trip
    <3>4. Reading(b, out, calls, Written, reader', rd', Len(got'))
      BY <3>1, <3>2
    <3> QED BY <2>1, <2>3, <3>2, <3>3, <3>4, ReaderTrip
  <2> QED BY <1>4, <2>4, <2>5
<1> QED BY <1>2, <1>3, <1>4 DEF Next, Writer

(* At the start nothing is printed and nothing read.                       *)
LEMMA InitTrip ==
  ASSUME Init
  PROVE  TripInv
<1>1. /\ frame = Idle /\ calls = <<>> /\ out = <<>> /\ got = <<>> /\ rd = 0
      /\ reader = [pc |-> "idle", val |-> 0, neg |-> FALSE]
  BY DEF Init
<1>2. Len(calls) = 0 /\ Len(out) = 0 /\ Len(got) = 0 /\ got \in Seq(Int) /\ Written = 0
  BY <1>1 DEF Written
<1>3. reader \in ReaderStates /\ reader.pc = "idle"
  BY <1>1 DEF ReaderStates
<1>4. PICK b : b = [j \in 0..0 |-> 0]
  OBVIOUS
<1>5. b \in [0..0 -> Nat] /\ b[0] = 0
  BY <1>4
<1>6. Ends(b, out, calls, 0)
  BY <1>2, <1>5 DEF Ends
<1>7. Reading(b, out, calls, 0, reader, rd, 0)
  BY <1>1, <1>3, <1>5 DEF Reading, Between
<1>8. Answers(got, calls) /\ ~(Len(got) > Written) /\ \A k \in 1..Len(calls) : calls[k].arg \in Ints
  BY <1>2 DEF Answers
<1>9. Trip
  BY <1>1, <1>2, <1>3, <1>6, <1>7, <1>8 DEF Trip
<1> QED BY <1>9 DEF TripInv

(* Unless LongMin is printed, whose negation overflows, input() at the     *)
(* other end of the pipe returns the integers given to output(), in order, *)
(* and zeros after the end, however the two programs interleave: it never  *)
(* stops in the middle of a number and never takes a byte of the next one  *)
(* (stdio.c:17-90).                                                        *)
THEOREM InputReadsBack ==
  ASSUME LongMin \notin Ints
  PROVE  Spec => []RoundTrip
<1>1. Init => TripInv
  BY InitTrip
<1>2. StdioInv /\ TripInv /\ [Next]_vars => TripInv'
  BY NextTrip
<1>3. TripInv => RoundTrip
  <2> SUFFICES ASSUME TripInv, OnlyOutput, NEW k \in DOMAIN got
               PROVE  got[k] = IF k <= Len(calls) THEN calls[k].arg ELSE 0
    BY DEF RoundTrip, OnlyOutput
  <2>1. got \in Seq(Int) /\ Answers(got, calls)
    BY DEF TripInv, Trip
  <2>2. k \in 1..Len(got)
    BY <2>1
  <2> QED BY <2>1, <2>2 DEF Answers
<1> QED BY <1>1, <1>2, <1>3, StdioAlways, PTL DEF Spec
=============================================================================
