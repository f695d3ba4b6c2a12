----------------------------- MODULE ScanfProofs -----------------------------
(***************************************************************************)
(* Proofs about Scanf: for every string, every format and every memory     *)
(* behind them, the positions stay inside, what is counted is what the     *)
(* caller may use, and widths are respected.                               *)
(***************************************************************************)
EXTENDS Scanf, SequenceTheorems, WellFoundedInduction, TLAPS

-----------------------------------------------------------------------------
(* Characters.                                                             *)

(* The terminator is no letter, no digit and no white space.               *)
LEMMA NulFacts ==
  /\ Lower(NUL) = NUL
  /\ ~IsWs(NUL)
  /\ \A b \in {8, 10, 16} : ~IsDigit(NUL, b)
  /\ ~IsDecimal(NUL)
<1>1. Lower(NUL) = NUL
  BY DEF Lower, NUL
<1>2. ~IsWs(NUL)
  BY DEF IsWs, NUL
<1>3. \A i \in 1..16 : Digits[i] # NUL
  BY DEF Digits, NUL
<1>4. \A b \in {8, 10, 16} : ~IsDigit(NUL, b)
  BY <1>1, <1>3 DEF IsDigit
<1> QED BY <1>1, <1>2, <1>4 DEF IsDecimal

(* A decimal digit has a value.                                            *)
LEMMA DigitFacts ==
  ASSUME NEW c, IsDecimal(c)
  PROVE  DigitValue(c) \in Nat
<1>1. DOMAIN Digits = 1..16
  BY DEF Digits
<1>2. \E i \in DOMAIN Digits : Digits[i] = Lower(c)
  BY <1>1 DEF IsDecimal, IsDigit
<1> DEFINE d == CHOOSE i \in DOMAIN Digits : Digits[i] = Lower(c)
<1>3. d \in 1..16
  BY <1>1, <1>2
<1>4. DigitValue(c) = d - 1
  BY DEF DigitValue
<1> HIDE DEF d
<1> QED BY <1>3, <1>4

(* The first element of a set of indices exists.                           *)
LEMMA FirstIndex ==
  ASSUME NEW i \in Nat, NEW n \in Nat, i <= n, NEW T, n \in T
  PROVE  \E j \in i..n : j \in T /\ \A k \in i..j - 1 : k \notin T
<1> DEFINE U == T \cap (i..n)
<1>1. U \in SUBSET Nat /\ n \in U
  OBVIOUS
<1>2. \E j \in U : \A k \in U : ~ (<<k, j>> \in OpToRel(<, Nat))
  BY <1>1, NatLessThanWellFounded, WFMin
<1>3. PICK j \in U : \A k \in U : ~ (<<k, j>> \in OpToRel(<, Nat))
  BY <1>2
<1>4. \A k \in U : ~(k < j)
  BY <1>1, <1>3 DEF OpToRel
<1>5. \A k \in i..j - 1 : k \notin T
  BY <1>1, <1>4
<1> QED BY <1>3, <1>5

(* A scanning loop over s whose accepted indices T leave out the           *)
(* terminator has a place to stop, and stops at the terminator at the      *)
(* latest.                                                                 *)
LEMMA RunStops ==
  ASSUME NEW s, Len(s) \in Nat, NEW i \in 1..Len(s) + 1, NEW T, Len(s) + 1 \notin T
  PROVE  /\ \E j \in i..Len(s) + 9 :
              (j = Len(s) + 9 \/ j \notin T) /\ \A k \in i..j - 1 : k \in T
         /\ \A j \in i..Len(s) + 9 : (\A k \in i..j - 1 : k \in T) =>
              /\ j \in i..Len(s) + 1
              /\ \A k \in i..j - 1 : k \in 1..Len(s) /\ At(s, k) = s[k]
<1> DEFINE n == Len(s) + 9
           S == {k \in i..n : k = n \/ k \notin T}
<1>1. i \in Nat /\ n \in Nat /\ i <= n /\ n \in S
  OBVIOUS
<1>2. \E j \in i..n : j \in S /\ \A k \in i..j - 1 : k \notin S
  <2> HIDE DEF S, n
  <2> QED BY <1>1, FirstIndex
<1>3. PICK j \in i..n : j \in S /\ \A k \in i..j - 1 : k \notin S
  BY <1>2
<1>4. \A k \in i..j - 1 : k \in i..n /\ k # n
  BY <1>1
<1>5. (j = n \/ j \notin T) /\ \A k \in i..j - 1 : k \in T
  BY <1>3, <1>4
<1>6. ASSUME NEW e \in i..n, \A k \in i..e - 1 : k \in T
      PROVE  /\ e \in i..Len(s) + 1
             /\ \A k \in i..e - 1 : k \in 1..Len(s) /\ At(s, k) = s[k]
  <2>1. e <= Len(s) + 1
    <3> SUFFICES ASSUME e > Len(s) + 1 PROVE FALSE
      BY <1>1
    <3>1. Len(s) + 1 \in i..e - 1
      OBVIOUS
    <3> QED BY <1>6, <3>1
  <2> QED BY <1>1, <2>1 DEF At
<1> QED BY <1>5, <1>6

(* Where the loops of sscanf stop.  One lemma per loop: each instantiates  *)
(* RunStops with the indices that its condition accepts.                   *)

(* skip_ws.                                                                *)
LEMMA SkipWsRun ==
  ASSUME Len(str) \in Nat, NEW i \in 1..Len(str) + 1
  PROVE  /\ SkipWs(i) \in i..Len(str) + 1
         /\ ~IsWs(At(str, SkipWs(i)))
         /\ \A k \in i..SkipWs(i) - 1 : k \in 1..Len(str) /\ IsWs(str[k])
<1> DEFINE T == {k \in i..Len(str) + 9 : IsWs(At(str, k))}
           e == SkipWs(i)
<1>1. Len(str) + 1 \notin T
  BY NulFacts DEF At
<1>2. \E j \in i..Len(str) + 9 :
        (j = Len(str) + 9 \/ ~IsWs(At(str, j))) /\ \A k \in i..j - 1 : IsWs(At(str, k))
  <2> HIDE DEF T
  <2>1. PICK j \in i..Len(str) + 9 : (j = Len(str) + 9 \/ j \notin T) /\ \A k \in i..j - 1 : k \in T
    BY <1>1, RunStops
  <2> QED BY <2>1 DEF T
<1>3. /\ e \in i..Len(str) + 9 /\ (e = Len(str) + 9 \/ ~IsWs(At(str, e)))
      /\ \A k \in i..e - 1 : IsWs(At(str, k))
  BY <1>2 DEF SkipWs, RunEnd
<1> HIDE DEF e
<1>4. \A k \in i..e - 1 : k \in T
  BY <1>3
<1> HIDE DEF T
<1>5. e \in i..Len(str) + 1 /\ \A k \in i..e - 1 : k \in 1..Len(str) /\ At(str, k) = str[k]
  BY <1>1, <1>3, <1>4, RunStops
<1> QED BY <1>3, <1>5 DEF e

(* The digits of an integer.                                               *)
LEMMA DigitsRun ==
  ASSUME Len(str) \in Nat, NEW i \in 1..Len(str) + 1, NEW base \in {8, 10, 16}
  PROVE  /\ DigitsEnd(i, base) \in i..Len(str) + 1
         /\ ~IsDigit(At(str, DigitsEnd(i, base)), base)
         /\ \A k \in i..DigitsEnd(i, base) - 1 : k \in 1..Len(str) /\ IsDigit(str[k], base)
<1> DEFINE T == {k \in i..Len(str) + 9 : IsDigit(At(str, k), base)}
           e == DigitsEnd(i, base)
<1>1. Len(str) + 1 \notin T
  BY NulFacts DEF At
<1>2. \E j \in i..Len(str) + 9 :
        (j = Len(str) + 9 \/ ~IsDigit(At(str, j), base)) /\ \A k \in i..j - 1 : IsDigit(At(str, k), base)
  <2> HIDE DEF T
  <2>1. PICK j \in i..Len(str) + 9 : (j = Len(str) + 9 \/ j \notin T) /\ \A k \in i..j - 1 : k \in T
    BY <1>1, RunStops
  <2> QED BY <2>1 DEF T
<1>3. /\ e \in i..Len(str) + 9 /\ (e = Len(str) + 9 \/ ~IsDigit(At(str, e), base))
      /\ \A k \in i..e - 1 : IsDigit(At(str, k), base)
  BY <1>2 DEF DigitsEnd, RunEnd
<1> HIDE DEF e
<1>4. \A k \in i..e - 1 : k \in T
  BY <1>3
<1> HIDE DEF T
<1>5. e \in i..Len(str) + 1 /\ \A k \in i..e - 1 : k \in 1..Len(str) /\ At(str, k) = str[k]
  BY <1>1, <1>3, <1>4, RunStops
<1> QED BY <1>3, <1>5 DEF e

(* The decimal digits of a floating-point number or a width.               *)
LEMMA DecimalsRun ==
  ASSUME NEW s, Len(s) \in Nat, NEW i \in 1..Len(s) + 1
  PROVE  /\ DecimalsEnd(s, i) \in i..Len(s) + 1
         /\ ~IsDecimal(At(s, DecimalsEnd(s, i)))
         /\ \A k \in i..DecimalsEnd(s, i) - 1 : k \in 1..Len(s) /\ IsDecimal(s[k])
<1> DEFINE T == {k \in i..Len(s) + 9 : IsDecimal(At(s, k))}
           e == DecimalsEnd(s, i)
<1>1. Len(s) + 1 \notin T
  BY NulFacts DEF At
<1>2. \E j \in i..Len(s) + 9 :
        (j = Len(s) + 9 \/ ~IsDecimal(At(s, j))) /\ \A k \in i..j - 1 : IsDecimal(At(s, k))
  <2> HIDE DEF T
  <2>1. PICK j \in i..Len(s) + 9 : (j = Len(s) + 9 \/ j \notin T) /\ \A k \in i..j - 1 : k \in T
    BY <1>1, RunStops
  <2> QED BY <2>1 DEF T
<1>3. /\ e \in i..Len(s) + 9 /\ (e = Len(s) + 9 \/ ~IsDecimal(At(s, e)))
      /\ \A k \in i..e - 1 : IsDecimal(At(s, k))
  BY <1>2 DEF DecimalsEnd, RunEnd
<1> HIDE DEF e
<1>4. \A k \in i..e - 1 : k \in T
  BY <1>3
<1> HIDE DEF T
<1>5. e \in i..Len(s) + 1 /\ \A k \in i..e - 1 : k \in 1..Len(s) /\ At(s, k) = s[k]
  BY <1>1, <1>3, <1>4, RunStops
<1> QED BY <1>3, <1>5 DEF e

(* The characters of a word.                                               *)
LEMMA WordRun ==
  ASSUME Len(str) \in Nat, NEW i \in 1..Len(str) + 1
  PROVE  /\ WordEnd(i) \in i..Len(str) + 1
         /\ ~(At(str, WordEnd(i)) # NUL /\ ~IsWs(At(str, WordEnd(i))))
         /\ \A k \in i..WordEnd(i) - 1 : k \in 1..Len(str) /\ (str[k] # NUL /\ ~IsWs(str[k]))
<1> DEFINE T == {k \in i..Len(str) + 9 : (At(str, k) # NUL /\ ~IsWs(At(str, k)))}
           e == WordEnd(i)
<1>1. Len(str) + 1 \notin T
  BY DEF At
<1>2. \E j \in i..Len(str) + 9 :
        (j = Len(str) + 9 \/ ~(At(str, j) # NUL /\ ~IsWs(At(str, j)))) /\ \A k \in i..j - 1 : (At(str, k) # NUL /\ ~IsWs(At(str, k)))
  <2> HIDE DEF T
  <2>1. PICK j \in i..Len(str) + 9 : (j = Len(str) + 9 \/ j \notin T) /\ \A k \in i..j - 1 : k \in T
    BY <1>1, RunStops
  <2> QED BY <2>1 DEF T
<1>3. /\ e \in i..Len(str) + 9 /\ (e = Len(str) + 9 \/ ~(At(str, e) # NUL /\ ~IsWs(At(str, e))))
      /\ \A k \in i..e - 1 : (At(str, k) # NUL /\ ~IsWs(At(str, k)))
  BY <1>2 DEF WordEnd, RunEnd
<1> HIDE DEF e
<1>4. \A k \in i..e - 1 : k \in T
  BY <1>3
<1> HIDE DEF T
<1>5. e \in i..Len(str) + 1 /\ \A k \in i..e - 1 : k \in 1..Len(str) /\ At(str, k) = str[k]
  BY <1>1, <1>3, <1>4, RunStops
<1> QED BY <1>3, <1>5 DEF e

(* The scanset up to its closing bracket.                                  *)
LEMMA BracketRun ==
  ASSUME Len(fmt) \in Nat, NEW i \in 1..Len(fmt) + 1
  PROVE  /\ BracketEnd(i) \in i..Len(fmt) + 1
         /\ ~(At(fmt, BracketEnd(i)) \notin {NUL, "]"})
         /\ \A k \in i..BracketEnd(i) - 1 : k \in 1..Len(fmt) /\ (fmt[k] \notin {NUL, "]"})
<1> DEFINE T == {k \in i..Len(fmt) + 9 : (At(fmt, k) \notin {NUL, "]"})}
           e == BracketEnd(i)
<1>1. Len(fmt) + 1 \notin T
  BY DEF At
<1>2. \E j \in i..Len(fmt) + 9 :
        (j = Len(fmt) + 9 \/ ~(At(fmt, j) \notin {NUL, "]"})) /\ \A k \in i..j - 1 : (At(fmt, k) \notin {NUL, "]"})
  <2> HIDE DEF T
  <2>1. PICK j \in i..Len(fmt) + 9 : (j = Len(fmt) + 9 \/ j \notin T) /\ \A k \in i..j - 1 : k \in T
    BY <1>1, RunStops
  <2> QED BY <2>1 DEF T
<1>3. /\ e \in i..Len(fmt) + 9 /\ (e = Len(fmt) + 9 \/ ~(At(fmt, e) \notin {NUL, "]"}))
      /\ \A k \in i..e - 1 : (At(fmt, k) \notin {NUL, "]"})
  BY <1>2 DEF BracketEnd, RunEnd
<1> HIDE DEF e
<1>4. \A k \in i..e - 1 : k \in T
  BY <1>3
<1> HIDE DEF T
<1>5. e \in i..Len(fmt) + 1 /\ \A k \in i..e - 1 : k \in 1..Len(fmt) /\ At(fmt, k) = fmt[k]
  BY <1>1, <1>3, <1>4, RunStops
<1> QED BY <1>3, <1>5 DEF e

(* The characters a scanset accepts.                                       *)
LEMMA SetRun ==
  ASSUME Len(str) \in Nat, NEW i \in 1..Len(str) + 1, NEW ps, NEW pe, NEW neg
  PROVE  /\ SetEnd(i, ps, pe, neg) \in i..Len(str) + 1
         /\ ~(At(str, SetEnd(i, ps, pe, neg)) # NUL /\ InSet(ps, pe, At(str, SetEnd(i, ps, pe, neg))) # neg)
         /\ \A k \in i..SetEnd(i, ps, pe, neg) - 1 : k \in 1..Len(str) /\ (str[k] # NUL /\ InSet(ps, pe, str[k]) # neg)
<1> DEFINE T == {k \in i..Len(str) + 9 : (At(str, k) # NUL /\ InSet(ps, pe, At(str, k)) # neg)}
           e == SetEnd(i, ps, pe, neg)
<1>1. Len(str) + 1 \notin T
  BY DEF At
<1>2. \E j \in i..Len(str) + 9 :
        (j = Len(str) + 9 \/ ~(At(str, j) # NUL /\ InSet(ps, pe, At(str, j)) # neg)) /\ \A k \in i..j - 1 : (At(str, k) # NUL /\ InSet(ps, pe, At(str, k)) # neg)
  <2> HIDE DEF T
  <2>1. PICK j \in i..Len(str) + 9 : (j = Len(str) + 9 \/ j \notin T) /\ \A k \in i..j - 1 : k \in T
    BY <1>1, RunStops
  <2> QED BY <2>1 DEF T
<1>3. /\ e \in i..Len(str) + 9 /\ (e = Len(str) + 9 \/ ~(At(str, e) # NUL /\ InSet(ps, pe, At(str, e)) # neg))
      /\ \A k \in i..e - 1 : (At(str, k) # NUL /\ InSet(ps, pe, At(str, k)) # neg)
  BY <1>2 DEF SetEnd, RunEnd
<1> HIDE DEF e
<1>4. \A k \in i..e - 1 : k \in T
  BY <1>3
<1> HIDE DEF T
<1>5. e \in i..Len(str) + 1 /\ \A k \in i..e - 1 : k \in 1..Len(str) /\ At(str, k) = str[k]
  BY <1>1, <1>3, <1>4, RunStops
<1> QED BY <1>3, <1>5 DEF e

-----------------------------------------------------------------------------
(* Positions.                                                              *)

Strs == Seq(Chars)

(* The terminator is read at the terminator only.                          *)
LEMMA AtNul ==
  ASSUME NEW s \in Strs, NEW i \in 1..Len(s) + 1
  PROVE  /\ Len(s) \in Nat
         /\ At(s, i) = NUL <=> i = Len(s) + 1
         /\ Lower(At(s, i)) # NUL => i \in 1..Len(s) /\ i + 1 \in 1..Len(s) + 1
         /\ At(s, i) # NUL => i \in 1..Len(s) /\ i + 1 \in 1..Len(s) + 1
<1>1. Len(s) \in Nat /\ \A k \in 1..Len(s) : s[k] \in Chars
  BY DEF Strs
<1>2. \A k \in 1..Len(s) : s[k] # NUL
  BY <1>1 DEF Chars
<1>3. CASE i = Len(s) + 1
  <2>1. At(s, i) = NUL
    BY <1>1, <1>3 DEF At
  <2> QED BY <1>1, <1>3, <2>1, NulFacts
<1>4. CASE i # Len(s) + 1
  <2>1. i \in 1..Len(s) /\ i + 1 \in 1..Len(s) + 1
    BY <1>1, <1>4
  <2>2. At(s, i) = s[i]
    BY <1>1, <2>1 DEF At
  <2> QED BY <1>1, <1>2, <1>4, <2>1, <2>2
<1> QED BY <1>3, <1>4

(* Where the prefix of an integer leaves the digits.                       *)
LEMMA PrefixFacts ==
  ASSUME str \in Strs, NEW i \in 1..Len(str) + 1, NEW b \in {0, 8, 10, 16}
  PROVE  /\ Prefix(i, b).base \in {8, 10, 16}
         /\ Prefix(i, b).si \in i..Len(str) + 1
         /\ Prefix(i, b).any \in BOOLEAN
         /\ Prefix(i, b).any => Prefix(i, b).si > i
<1> DEFINE zero == At(str, i) = "0"
           hex  == zero /\ Lower(At(str, i + 1)) = "x"
<1>1. Len(str) \in Nat
  BY AtNul
<1>2. zero => i \in 1..Len(str) /\ i + 1 \in 1..Len(str) + 1
  BY AtNul DEF NUL
<1>3. hex => i + 1 \in 1..Len(str) /\ i + 2 \in 1..Len(str) + 1
  <2> SUFFICES ASSUME hex PROVE i + 1 \in 1..Len(str) /\ i + 2 \in 1..Len(str) + 1
    OBVIOUS
  <2>1. PICK j \in 1..Len(str) + 1 : j = i + 1
    BY <1>2
  <2>2. Lower(At(str, j)) # NUL
    BY <2>1 DEF NUL
  <2>3. j \in 1..Len(str) /\ j + 1 \in 1..Len(str) + 1
    BY <2>2, AtNul
  <2> QED BY <1>1, <2>1, <2>3
<1>4. CASE b \in {0, 16} /\ hex
  <2>1. Prefix(i, b) = [base |-> 16, si |-> i + 2, any |-> FALSE]
    BY <1>4 DEF Prefix
  <2> QED BY <1>1, <1>3, <1>4, <2>1
<1>5. CASE b = 0 /\ zero /\ ~hex
  <2>1. Prefix(i, b) = [base |-> 8, si |-> i + 1, any |-> TRUE]
    BY <1>5 DEF Prefix
  <2>2. Prefix(i, b).base = 8 /\ Prefix(i, b).si = i + 1 /\ Prefix(i, b).any = TRUE
    BY <2>1
  <2>3. i + 1 \in i..Len(str) + 1 /\ i + 1 > i
    BY <1>1, <1>2, <1>5
  <2> QED BY <2>2, <2>3
<1>6. CASE b = 0 /\ ~zero
  <2>1. Prefix(i, b) = [base |-> 10, si |-> i, any |-> FALSE]
    BY <1>6 DEF Prefix
  <2> QED BY <1>1, <2>1
<1>7. CASE ~(b \in {0, 16} /\ hex) /\ ~(b = 0 /\ zero /\ ~hex) /\ ~(b = 0 /\ ~zero)
  <2>1. Prefix(i, b) = [base |-> b, si |-> i, any |-> FALSE]
    BY <1>7 DEF Prefix
  <2>2. b # 0
    BY <1>7
  <2> QED BY <1>1, <2>1, <2>2
<1> QED BY <1>4, <1>5, <1>6, <1>7

(* An integer scan that finds something moves forward, and stays inside.   *)
LEMMA ScanIntFacts ==
  ASSUME str \in Strs, NEW i \in 1..Len(str) + 1, NEW b \in {0, 8, 10, 16}, NEW sgn
  PROVE  /\ ScanInt(i, b, sgn).si \in i..Len(str) + 1
         /\ ScanInt(i, b, sgn).any => ScanInt(i, b, sgn).si > i
<1> DEFINE j == IF sgn /\ At(str, i) \in {"-", "+"} THEN i + 1 ELSE i
           p == Prefix(j, b)
           e == DigitsEnd(p.si, p.base)
<1>1. Len(str) \in Nat
  BY AtNul
<1>2. j \in 1..Len(str) + 1 /\ j \in i..Len(str) + 1
  <2>1. CASE sgn /\ At(str, i) \in {"-", "+"}
    <3>1. i + 1 \in 1..Len(str) + 1
      BY <2>1, AtNul DEF NUL
    <3> QED BY <2>1, <3>1
  <2>2. CASE ~(sgn /\ At(str, i) \in {"-", "+"})
    BY <1>1, <2>2
  <2> QED BY <2>1, <2>2
<1>3. ScanInt(i, b, sgn).si = e /\ ScanInt(i, b, sgn).any = (p.any \/ e > p.si)
  BY DEF ScanInt
<1> HIDE DEF j
<1>4. /\ p.base \in {8, 10, 16} /\ p.si \in j..Len(str) + 1 /\ p.any \in BOOLEAN
      /\ p.any => p.si > j
  BY <1>2, PrefixFacts
<1> HIDE DEF p
<1>5. p.si \in 1..Len(str) + 1
  BY <1>1, <1>2, <1>4
<1>6. e \in p.si..Len(str) + 1
  BY <1>1, <1>4, <1>5, DigitsRun
<1> HIDE DEF e
<1> QED BY <1>1, <1>2, <1>3, <1>4, <1>5, <1>6

(* A word of n letters that is there leaves the position inside: none of   *)
(* its letters is the terminator.                                          *)
LEMMA WordFacts ==
  ASSUME str \in Strs, NEW i \in 1..Len(str) + 1
  PROVE  /\ Word(i, <<"i", "n", "f">>) => i + 3 \in 1..Len(str) + 1
         /\ Word(i, <<"n", "a", "n">>) => i + 3 \in 1..Len(str) + 1 /\ ~Word(i, <<"i", "n", "f">>)
         /\ Word(i, <<"i", "n", "i", "t", "y">>) => i + 5 \in 1..Len(str) + 1
<1>1. \A j \in 1..Len(str) + 1 : Lower(At(str, j)) # NUL => j + 1 \in 1..Len(str) + 1
  BY AtNul
<1>2. Len(str) \in Nat
  BY AtNul
<1>3. ASSUME NEW a, NEW b, NEW c, a # NUL, b # NUL, c # NUL, Word(i, <<a, b, c>>)
      PROVE  i + 3 \in 1..Len(str) + 1
  <2>1. /\ Lower(At(str, i)) = a /\ Lower(At(str, i + 1)) = b /\ Lower(At(str, i + 2)) = c
    <3>1. \A k \in {1, 2, 3} : Lower(At(str, i + k - 1)) = <<a, b, c>>[k]
      BY <1>3 DEF Word
    <3>2. i + 1 - 1 = i /\ i + 2 - 1 = i + 1 /\ i + 3 - 1 = i + 2
      BY <1>2
    <3> QED BY <3>1, <3>2
  <2>2. i + 1 \in 1..Len(str) + 1
    BY <1>1, <1>3, <2>1
  <2>3. i + 2 \in 1..Len(str) + 1
    BY <1>1, <1>2, <1>3, <2>1, <2>2
  <2> QED BY <1>1, <1>2, <1>3, <2>1, <2>3
<1>4. ASSUME Word(i, <<"i", "n", "i", "t", "y">>)
      PROVE  i + 5 \in 1..Len(str) + 1
  <2>1. /\ Lower(At(str, i)) = "i" /\ Lower(At(str, i + 1)) = "n" /\ Lower(At(str, i + 2)) = "i"
        /\ Lower(At(str, i + 3)) = "t" /\ Lower(At(str, i + 4)) = "y"
    <3> DEFINE w == <<"i", "n", "i", "t", "y">>
    <3>w. DOMAIN w = 1..5 /\ w[1] = "i" /\ w[2] = "n" /\ w[3] = "i" /\ w[4] = "t" /\ w[5] = "y"
      OBVIOUS
    <3> HIDE DEF w
    <3>1. \A k \in {1, 2, 3, 4, 5} : Lower(At(str, i + k - 1)) = w[k]
      <4>1. \A k \in DOMAIN w : Lower(At(str, i + k - 1)) = w[k]
        BY <1>4 DEF Word, w
      <4> QED BY <3>w, <4>1
    <3>2. i + 1 - 1 = i /\ i + 2 - 1 = i + 1 /\ i + 3 - 1 = i + 2 /\ i + 4 - 1 = i + 3 /\ i + 5 - 1 = i + 4
      BY <1>2
    <3> QED BY <3>w, <3>1, <3>2
  <2>2. i + 1 \in 1..Len(str) + 1
    BY <1>1, <2>1 DEF NUL
  <2>3. i + 2 \in 1..Len(str) + 1
    BY <1>1, <1>2, <2>1, <2>2 DEF NUL
  <2>4. i + 3 \in 1..Len(str) + 1
    BY <1>1, <1>2, <2>1, <2>3 DEF NUL
  <2>5. i + 4 \in 1..Len(str) + 1
    BY <1>1, <1>2, <2>1, <2>4 DEF NUL
  <2> QED BY <1>1, <1>2, <2>1, <2>5 DEF NUL
<1>5. "i" # NUL /\ "n" # NUL /\ "f" # NUL /\ "a" # NUL
  BY DEF NUL
<1>6. ASSUME Word(i, <<"n", "a", "n">>), Word(i, <<"i", "n", "f">>) PROVE FALSE
  <2>1. Lower(At(str, i + 1 - 1)) = <<"n", "a", "n">>[1] /\ Lower(At(str, i + 1 - 1)) = <<"i", "n", "f">>[1]
    BY <1>6 DEF Word
  <2> QED BY <2>1
<1> QED BY <1>3, <1>4, <1>5, <1>6

(* The exponent stays inside, whether digits follow it or not.             *)
LEMMA ExponentFacts ==
  ASSUME str \in Strs, NEW i \in 1..Len(str) + 1
  PROVE  Exponent(i).si \in i..Len(str) + 1
<1>1. Len(str) \in Nat
  BY AtNul
<1>2. CASE Lower(At(str, i)) # "e"
  <2>1. Exponent(i).si = i
    BY <1>2 DEF Exponent
  <2> QED BY <1>1, <2>1
<1>3. CASE Lower(At(str, i)) = "e"
  <2> DEFINE d == IF At(str, i + 1) \in {"-", "+"} THEN i + 2 ELSE i + 1
  <2>1. Exponent(i).si = DecimalsEnd(str, d)
    BY <1>3 DEF Exponent
  <2>2. i + 1 \in 1..Len(str) + 1
    BY <1>3, AtNul DEF NUL
  <2>3. At(str, i + 1) # NUL => (i + 1) + 1 \in 1..Len(str) + 1
    BY <2>2, AtNul
  <2>4. d \in 1..Len(str) + 1 /\ d >= i
    <3>1. CASE At(str, i + 1) \in {"-", "+"}
      <4>1. At(str, i + 1) # NUL
        BY <3>1 DEF NUL
      <4> QED BY <1>1, <2>3, <3>1, <4>1
    <3>2. CASE At(str, i + 1) \notin {"-", "+"}
      BY <2>2, <3>2
    <3> QED BY <3>1, <3>2
  <2> HIDE DEF d
  <2>5. DecimalsEnd(str, d) \in d..Len(str) + 1
    BY <1>1, <2>4, DecimalsRun
  <2> QED BY <1>1, <2>1, <2>4, <2>5
<1> QED BY <1>2, <1>3

(* A float scan that finds something moves forward, and stays inside.      *)
LEMMA ScanFloatFacts ==
  ASSUME str \in Strs, NEW i \in 1..Len(str) + 1
  PROVE  /\ ScanFloat(i).si \in i..Len(str) + 1
         /\ ScanFloat(i).any => ScanFloat(i).si > i
<1> DEFINE s   == IF At(str, i) \in {"-", "+"} THEN i + 1 ELSE i
           dot == DecimalsEnd(str, s)
           f   == IF At(str, dot) = "." THEN dot + 1 ELSE dot
           e   == IF f > dot THEN DecimalsEnd(str, f) ELSE dot
           inf == Word(s, <<"i", "n", "f">>)
           nan == Word(s, <<"n", "a", "n">>)
           long == Word(s + 3, <<"i", "n", "i", "t", "y">>)
<1>1. Len(str) \in Nat
  BY AtNul
<1>3. s \in 1..Len(str) + 1 /\ s >= i
  <2>1. CASE At(str, i) \in {"-", "+"}
    <3>1. i + 1 \in 1..Len(str) + 1
      BY <2>1, AtNul DEF NUL
    <3> QED BY <2>1, <3>1
  <2>2. CASE At(str, i) \notin {"-", "+"}
    BY <1>1, <2>2
  <2> QED BY <2>1, <2>2
<1>2. ~(inf /\ nan)
  BY <1>3, WordFacts
<1>4. CASE inf
  <2>0. ScanFloat(i).si = IF long THEN s + 8 ELSE s + 3
    BY <1>2, <1>4 DEF ScanFloat
  <2> HIDE DEF s
  <2>1. s + 3 \in 1..Len(str) + 1
    BY <1>3, <1>4, WordFacts
  <2>2. long => (s + 3) + 5 \in 1..Len(str) + 1
    BY <2>1, WordFacts
  <2>3. (IF long THEN s + 8 ELSE s + 3) \in i..Len(str) + 1 /\ (IF long THEN s + 8 ELSE s + 3) > i
    BY <1>1, <1>3, <2>1, <2>2
  <2> QED BY <2>0, <2>3
<1>5. CASE ~inf /\ nan
  <2>0. ScanFloat(i).si = s + 3
    BY <1>5 DEF ScanFloat
  <2> HIDE DEF s
  <2>1. s + 3 \in 1..Len(str) + 1
    BY <1>3, <1>5, WordFacts
  <2>2. s + 3 \in i..Len(str) + 1 /\ s + 3 > i
    BY <1>1, <1>3, <2>1
  <2> QED BY <2>0, <2>2
<1>6. CASE ~inf /\ ~nan
  <2>0. /\ ScanFloat(i).si = IF dot = s /\ e = f THEN e ELSE Exponent(e).si
        /\ dot = s /\ e = f => ScanFloat(i).any = FALSE
    BY <1>6 DEF ScanFloat
  <2> HIDE DEF s
  <2>1. dot \in s..Len(str) + 1
    BY <1>1, <1>3, DecimalsRun
  <2> HIDE DEF dot
  <2>2. dot \in 1..Len(str) + 1
    BY <1>1, <1>3, <2>1
  <2>3. f \in dot..Len(str) + 1
    <3>1. At(str, dot) = "." => dot + 1 \in 1..Len(str) + 1
      BY <2>2, AtNul DEF NUL
    <3> QED BY <1>1, <2>2, <3>1
  <2> HIDE DEF f
  <2>4. f \in 1..Len(str) + 1
    BY <1>1, <2>2, <2>3
  <2>5. DecimalsEnd(str, f) \in f..Len(str) + 1
    BY <1>1, <2>4, DecimalsRun
  <2>6. e \in f..Len(str) + 1
    BY <1>1, <2>2, <2>3, <2>4, <2>5
  <2> HIDE DEF e
  <2>7. e \in 1..Len(str) + 1
    BY <1>1, <2>4, <2>6
  <2>8. Exponent(e).si \in e..Len(str) + 1
    BY <2>7, ExponentFacts
  <2>9. e \in i..Len(str) + 1 /\ Exponent(e).si \in i..Len(str) + 1
    BY <1>1, <1>3, <2>1, <2>3, <2>6, <2>8
  <2>10. ~(dot = s /\ e = f) => Exponent(e).si > i
    BY <1>1, <1>3, <2>1, <2>3, <2>6, <2>8
  <2> QED BY <2>0, <2>9, <2>10
<1> QED BY <1>4, <1>5, <1>6

-----------------------------------------------------------------------------
(* Directives.                                                             *)

(* A set of naturals that has, with every element but 0, the one before,   *)
(* is empty or contains 0.                                                 *)
LEMMA Descent ==
  ASSUME NEW B \in SUBSET Nat, 0 \notin B, \A m \in Nat : m + 1 \in B => m \in B
  PROVE  B = {}
<1> SUFFICES ASSUME B # {} PROVE FALSE
  OBVIOUS
<1>1. PICK m \in B : \A k \in B : ~ (<<k, m>> \in OpToRel(<, Nat))
  BY NatLessThanWellFounded, WFMin
<1>2. m # 0 /\ m - 1 \in Nat /\ (m - 1) + 1 = m
  OBVIOUS
<1>3. m - 1 \in B
  BY <1>2
<1>4. <<m - 1, m>> \in OpToRel(<, Nat)
  BY <1>2 DEF OpToRel
<1> QED BY <1>1, <1>3, <1>4

(* The number that digits denote is a natural: the function that computes  *)
(* it digit by digit exists.                                               *)
LEMMA NumberNat ==
  ASSUME NEW ds, Len(ds) \in Nat, \A k \in 1..Len(ds) : DigitValue(ds[k]) \in Nat
  PROVE  Number(ds) \in Nat
<1> DEFINE Good(f, m) == f = [k \in 0..m |-> IF k = 0 THEN 0 ELSE f[k - 1] * 10 + DigitValue(ds[k])]
           NoGood == {m \in Nat : ~\E f : Good(f, m)}
           n == CHOOSE f : Good(f, Len(ds))
           NotNat == {m \in Nat : m <= Len(ds) /\ n[m] \notin Nat}
<1>1. NoGood = {}
  <2>1. 0 \notin NoGood
    <3> DEFINE f == [k \in 0..0 |-> 0]
    <3>1. Good(f, 0)
      OBVIOUS
    <3> QED BY <3>1
  <2>2. ASSUME NEW m \in Nat, m \notin NoGood PROVE m + 1 \notin NoGood
    <3>1. PICK f : Good(f, m)
      BY <2>2
    <3> DEFINE g == [k \in 0..m + 1 |-> IF k <= m THEN f[k] ELSE f[m] * 10 + DigitValue(ds[m + 1])]
    <3>2. \A k \in 0..m : g[k] = f[k] /\ f[k] = IF k = 0 THEN 0 ELSE f[k - 1] * 10 + DigitValue(ds[k])
      BY <3>1
    <3>3. g[m + 1] = f[m] * 10 + DigitValue(ds[m + 1]) /\ m \in 0..m /\ m + 1 # 0 /\ (m + 1) - 1 = m
      OBVIOUS
    <3>4. \A k \in 0..m + 1 : k \in 0..m \/ k = m + 1
      OBVIOUS
    <3>5. \A k \in 0..m : k # 0 => k - 1 \in 0..m
      OBVIOUS
    <3>6. DOMAIN g = 0..m + 1 /\ g = [k \in 0..m + 1 |-> g[k]]
      OBVIOUS
    <3> HIDE DEF g
    <3>7. \A k \in 0..m + 1 : g[k] = IF k = 0 THEN 0 ELSE g[k - 1] * 10 + DigitValue(ds[k])
      BY <3>2, <3>3, <3>4, <3>5
    <3>8. Good(g, m + 1)
      BY <3>6, <3>7
    <3> QED BY <3>8
  <2> HIDE DEF NoGood
  <2>3. \A m \in Nat : m + 1 \in NoGood => m \in NoGood
    BY <2>2
  <2>4. NoGood \in SUBSET Nat
    BY DEF NoGood
  <2> QED BY <2>1, <2>3, <2>4, Descent
<1>2. Good(n, Len(ds))
  BY <1>1
<1>3. Number(ds) = n[Len(ds)]
  BY DEF Number
<1> HIDE DEF n
<1>4. \A k \in 0..Len(ds) : n[k] = IF k = 0 THEN 0 ELSE n[k - 1] * 10 + DigitValue(ds[k])
  BY <1>2
<1>5. NotNat = {}
  <2>1. 0 \notin NotNat
    BY <1>4
  <2>2. ASSUME NEW m \in Nat, m + 1 \in NotNat PROVE m \in NotNat
    <3>1. m + 1 \in 0..Len(ds) /\ m + 1 # 0 /\ (m + 1) - 1 = m /\ m + 1 \in 1..Len(ds) /\ m <= Len(ds)
      BY <2>2
    <3>2. n[m + 1] = n[m] * 10 + DigitValue(ds[m + 1])
      BY <1>4, <3>1
    <3>3. DigitValue(ds[m + 1]) \in Nat
      BY <3>1
    <3>4. n[m] \in Nat => n[m + 1] \in Nat
      BY <3>2, <3>3
    <3> QED BY <2>2, <3>1, <3>4
  <2>3. NotNat \in SUBSET Nat
    OBVIOUS
  <2> HIDE DEF NotNat
  <2> QED BY <2>1, <2>2, <2>3, Descent
<1> QED BY <1>3, <1>5

(* A conversion specification ends inside the format, behind its start,    *)
(* and its width is a number.                                              *)
LEMMA DirectiveFacts ==
  ASSUME fmt \in Strs, fi \in 1..Len(fmt) + 1, At(fmt, fi) = "%"
  PROVE  /\ Directive.next \in fi + 1..Len(fmt) + 1
         /\ Directive.width \in Nat
         /\ Directive.suppress \in BOOLEAN
<1> DEFINE sup   == At(fmt, fi + 1) = "*"
           w     == IF sup THEN fi + 2 ELSE fi + 1
           l     == DecimalsEnd(fmt, w)
           m     == IF At(fmt, l) \in {"l", "h", "z", "j"}
                    THEN IF At(fmt, l + 1) \in {"l", "h"} THEN l + 2 ELSE l + 1
                    ELSE l
           short == NUL \in {At(fmt, k) : k \in fi + 1..m}
<1>1. /\ Directive.next = IF short THEN Len(fmt) + 1 ELSE m + 1
      /\ Directive.width = Number(SubSeq(fmt, w, l - 1))
      /\ Directive.suppress = sup
  BY DEF Directive
<1>2. Len(fmt) \in Nat /\ fi \in 1..Len(fmt) /\ fi + 1 \in 1..Len(fmt) + 1
  BY AtNul DEF NUL
<1>3. \A i \in 1..Len(fmt) + 1 : At(fmt, i) # NUL => i + 1 \in 1..Len(fmt) + 1
  BY AtNul
<1>4. w \in fi + 1..Len(fmt) + 1
  <2>1. CASE sup
    <3>1. At(fmt, fi + 1) # NUL
      BY <2>1 DEF NUL
    <3>2. (fi + 1) + 1 \in 1..Len(fmt) + 1
      BY <1>2, <1>3, <3>1
    <3> QED BY <1>2, <2>1, <3>2
  <2>2. CASE ~sup
    BY <1>2, <2>2
  <2> QED BY <2>1, <2>2
<1> HIDE DEF w
<1>5. w \in 1..Len(fmt) + 1
  BY <1>2, <1>4
<1>6. /\ l \in w..Len(fmt) + 1
      /\ \A k \in w..l - 1 : k \in 1..Len(fmt) /\ IsDecimal(fmt[k])
  BY <1>2, <1>5, DecimalsRun
<1> HIDE DEF l
<1>7. l \in 1..Len(fmt) + 1
  BY <1>2, <1>5, <1>6
<1>8. m \in l..Len(fmt) + 1
  <2>1. CASE At(fmt, l) \in {"l", "h", "z", "j"}
    <3>1. At(fmt, l) # NUL
      BY <2>1 DEF NUL
    <3>2. l + 1 \in 1..Len(fmt) + 1
      BY <1>3, <1>7, <3>1
    <3>3. At(fmt, l + 1) \in {"l", "h"} => (l + 1) + 1 \in 1..Len(fmt) + 1
      <4> SUFFICES ASSUME At(fmt, l + 1) \in {"l", "h"} PROVE (l + 1) + 1 \in 1..Len(fmt) + 1
        OBVIOUS
      <4>1. At(fmt, l + 1) # NUL
        BY DEF NUL
      <4> QED BY <1>3, <3>2, <4>1
    <3> QED BY <1>2, <1>7, <2>1, <3>2, <3>3
  <2>2. CASE At(fmt, l) \notin {"l", "h", "z", "j"}
    BY <1>2, <1>7, <2>2
  <2> QED BY <2>1, <2>2
<1> HIDE DEF m
<1>9. m \in fi + 1..Len(fmt) + 1
  BY <1>2, <1>4, <1>6, <1>8
<1>10. Directive.next \in fi + 1..Len(fmt) + 1
  <2>1. CASE m = Len(fmt) + 1
    <3>1. At(fmt, m) = NUL
      BY <1>2, <1>9, <2>1, AtNul
    <3>2. m \in fi + 1..m
      BY <1>2, <1>9
    <3>3. short
      BY <3>1, <3>2
    <3>4. Len(fmt) + 1 \in fi + 1..Len(fmt) + 1
      BY <1>2
    <3> QED BY <1>1, <3>3, <3>4
  <2>2. CASE m # Len(fmt) + 1
    <3>1. m + 1 \in fi + 1..Len(fmt) + 1 /\ Len(fmt) + 1 \in fi + 1..Len(fmt) + 1
      BY <1>2, <1>9, <2>2
    <3> QED BY <1>1, <3>1
  <2> QED BY <2>1, <2>2
<1>11. Directive.width \in Nat
  <2> DEFINE ds == SubSeq(fmt, w, l - 1)
  <2>1. fmt \in Seq(Chars)
    BY DEF Strs
  <2>2. w \in 1..Len(fmt) + 1 /\ l - 1 \in w - 1..Len(fmt) /\ w \in Nat /\ l - 1 \in Nat
    BY <1>2, <1>5, <1>6
  <2>3. /\ Len(ds) = l - w /\ Len(ds) \in Nat
        /\ \A k \in 1..Len(ds) : ds[k] = fmt[w + k - 1] /\ w + k - 1 \in w..l - 1
    BY <1>2, <1>5, <1>6, <2>1, <2>2, SubSeqProperties
  <2>4. \A k \in 1..Len(ds) : DigitValue(ds[k]) \in Nat
    BY <1>6, <2>3, DigitFacts
  <2> HIDE DEF ds
  <2>5. Number(ds) \in Nat
    BY <2>3, <2>4, NumberNat
  <2> QED BY <1>1, <2>5 DEF ds
<1> QED BY <1>1, <1>10, <1>11

-----------------------------------------------------------------------------
(* What is stored.                                                         *)

(* The input from i to j - 1.                                              *)
Piece(i, j) == SubSeq(str, i, j - 1)

(* A width leaves room for the terminator, and keeps a beginning of the    *)
(* text; only a width of 1 keeps nothing of a nonempty one.                *)
KeptOK(text, w, from, to) ==
  /\ IsPrefix(Kept(text, w), text)
  /\ w > 0 => Len(Kept(text, w)) + 1 <= w
  /\ w = 0 => Kept(text, w) = text
  /\ Kept(text, w) # <<>> => from < to
  /\ w # 1 /\ from < to => Kept(text, w) # <<>>

(* That is so of every piece of the input.                                 *)
LEMMA KeptFacts ==
  ASSUME str \in Strs, NEW from \in 1..Len(str) + 1, NEW to \in from..Len(str) + 1, NEW w \in Nat,
         NEW text, text = Piece(from, to)
  PROVE  KeptOK(text, w, from, to)
<1>1. Len(str) \in Nat /\ str \in Seq(Chars)
  BY DEF Strs
<1>2. from \in Int /\ to - 1 \in Int /\ \A i \in from..to - 1 : str[i] \in Chars
  BY <1>1
<1>3. text \in Seq(Chars) /\ Len(text) = IF from <= to - 1 THEN (to - 1) - from + 1 ELSE 0
  BY <1>2, SubSeqProperties DEF Piece
<1>4. Len(text) \in Nat /\ (Len(text) > 0 <=> from < to)
  BY <1>1, <1>3
<1>5. text = <<>> <=> Len(text) = 0
  BY <1>3
<1>6. CASE w = 0 \/ Len(text) < w
  <2>1. Kept(text, w) = text
    BY <1>6 DEF Kept
  <2>2. IsPrefix(text, text)
    BY <1>4 DEF IsPrefix
  <2>3. w > 0 => Len(text) + 1 <= w
    BY <1>4, <1>6
  <2>4. text # <<>> <=> from < to
    BY <1>4, <1>5
  <2> QED BY <2>1, <2>2, <2>3, <2>4 DEF KeptOK
<1>7. CASE ~(w = 0 \/ Len(text) < w)
  <2>1. Kept(text, w) = SubSeq(text, 1, w - 1) /\ w >= 1 /\ w - 1 \in Nat /\ w - 1 < Len(text)
    BY <1>4, <1>7 DEF Kept
  <2> DEFINE u == SubSeq(text, 1, w - 1)
  <2>2. \A i \in 1..w - 1 : i \in 1..Len(text) /\ text[i] \in Chars
    BY <1>3, <1>4, <2>1
  <2>3. u \in Seq(Chars) /\ Len(u) = w - 1
    BY <2>1, <2>2, SubSeqProperties
  <2>4. IsPrefix(u, text)
    <3>1. SubSeq(u, 1, Len(u)) = u
      BY <2>3, SubSeqFull
    <3>2. SubSeq(text, 1, Len(u)) = u
      BY <2>3
    <3> HIDE DEF u
    <3> QED BY <1>4, <2>1, <2>3, <3>1, <3>2 DEF IsPrefix
  <2> HIDE DEF u
  <2>5. u = <<>> <=> Len(u) = 0
    BY <2>3, EmptySeq
  <2>6. from < to /\ w > 0 /\ Len(u) + 1 <= w /\ (w # 1 => Len(u) # 0)
    BY <1>4, <2>1, <2>3
  <2>7. Kept(text, w) = u
    BY <2>1 DEF u
  <2> QED BY <2>4, <2>5, <2>6, <2>7 DEF KeptOK
<1> QED BY <1>6, <1>7

(* What is true of everything stored through an argument.                  *)
ArgOK(a) ==
  /\ a.from \in 1..Len(str) + 1 /\ a.to \in a.from..Len(str) + 1
  /\ a.counted \in BOOLEAN /\ (a.counted => a.from < a.to)
  /\ a.conv \in {"s", "["} =>
       /\ IsPrefix(a.val, Text(a))
       /\ a.width > 0 => Len(a.val) + 1 <= a.width
       /\ a.width = 0 => a.val = Text(a)

(* Positions and counters.                                                 *)
PlaceInv ==
  /\ str \in Strs /\ fmt \in Strs
  /\ si \in 1..Len(str) + 1 /\ fi \in 1..Len(fmt) + 1
  /\ turns \in Nat /\ turns <= fi /\ (pc = "scan" => turns < fi)
  /\ convs \in Nat /\ pc \in {"scan", "break", "done"}

(* The arguments: each is right, they follow each other, and none reaches  *)
(* beyond the current position.                                            *)
ArgsInv ==
  /\ \E S : args \in Seq(S)
  /\ \A k \in 1..Len(args) : ArgOK(args[k]) /\ args[k].to <= si
  /\ \A k \in 1..Len(args) : k > 1 => args[k - 1].to <= args[k].from

(* The counted arguments come first.  An uncounted one while the scan goes *)
(* on is a word that was not there: the input is used up, so that nothing  *)
(* can be counted after it.                                                *)
CountInv ==
  /\ count \in 0..Len(args) /\ ret \in {-1} \cup 0..Len(args)
  /\ (\A k \in 1..Len(args) : args[k].width # 1) =>
       /\ \A k \in 1..Len(args) : args[k].counted <=> k <= count
       /\ pc = "scan" /\ count < Len(args) => si = Len(str) + 1

ScanInv == PlaceInv /\ ArgsInv /\ CountInv

-----------------------------------------------------------------------------
(* A turn of the loop over the format moves forward in both strings, and   *)
(* stores nothing or one argument.                                         *)
MoveTurn ==
  /\ UNCHANGED <<str, fmt, ret>>
  /\ pc = "scan" /\ pc' \in {"scan", "break"}
  /\ si' \in si..Len(str) + 1
  /\ fi' \in fi..Len(fmt) + 1 /\ (pc' = "scan" => fi' > fi)
  /\ turns' = turns + 1 /\ convs' \in Nat

StoreTurn(a) ==
  /\ ArgOK(a) /\ a.from >= si /\ a.to = si'
  /\ args' = Append(args, a)
  /\ count' = IF a.counted THEN count + 1 ELSE count
  /\ a.counted \/ a.width = 1 \/ pc' = "break" \/ si' = Len(str) + 1

(* Such a turn keeps the positions inside.                                 *)
LEMMA MovePlaces ==
  ASSUME PlaceInv, MoveTurn
  PROVE  PlaceInv'
<1>1. /\ Len(str) \in Nat /\ Len(fmt) \in Nat
  BY DEF PlaceInv, Strs
<1>2. /\ str' = str /\ fmt' = fmt /\ turns' = turns + 1 /\ turns \in Nat /\ turns < fi
      /\ si \in 1..Len(str) + 1 /\ fi \in 1..Len(fmt) + 1
      /\ si' \in si..Len(str) + 1 /\ fi' \in fi..Len(fmt) + 1 /\ (pc' = "scan" => fi' > fi)
  BY DEF PlaceInv, MoveTurn
<1>3. /\ si' \in 1..Len(str) + 1 /\ fi' \in 1..Len(fmt) + 1
      /\ turns' \in Nat /\ turns' <= fi' /\ (pc' = "scan" => turns' < fi')
  BY <1>1, <1>2
<1> QED BY <1>2, <1>3 DEF PlaceInv, MoveTurn

(* Arguments stay right when the string is the same.                       *)
LEMMA SameArg ==
  ASSUME str' = str, NEW a, ArgOK(a)
  PROVE  ArgOK(a)'
  BY DEF ArgOK, Text

(* A turn that stores nothing.                                             *)
LEMMA PlainStep ==
  ASSUME ScanInv, MoveTurn, UNCHANGED <<args, count>>
  PROVE  ScanInv'
<1>1. PlaceInv'
  BY MovePlaces DEF ScanInv
<1>2. /\ Len(str) \in Nat /\ str' = str /\ si \in 1..Len(str) + 1 /\ si' \in si..Len(str) + 1
      /\ args' = args /\ count' = count /\ ret' = ret /\ pc = "scan"
  BY DEF ScanInv, PlaceInv, Strs, MoveTurn
<1>3. ArgsInv'
  <2>1. \A k \in 1..Len(args) : ArgOK(args[k]) /\ args[k].to <= si
    BY DEF ScanInv, ArgsInv
  <2>2. ASSUME NEW k \in 1..Len(args) PROVE ArgOK(args[k])' /\ args[k].to <= si'
    <3>1. PICK a : a = args[k]
      OBVIOUS
    <3>2. ArgOK(a) /\ a.to <= si /\ a.from \in 1..Len(str) + 1 /\ a.to \in a.from..Len(str) + 1
      BY <2>1, <3>1 DEF ArgOK
    <3>3. ArgOK(a)'
      BY <1>2, <3>2, SameArg
    <3>4. a.to <= si'
      BY <1>2, <3>2
    <3> QED BY <1>2, <3>1, <3>3, <3>4
  <2> QED BY <1>2, <2>2 DEF ScanInv, ArgsInv
<1>4. CountInv'
  <2>1. si = Len(str) + 1 => si' = Len(str) + 1
    BY <1>2
  <2> QED BY <1>2, <2>1 DEF ScanInv, CountInv
<1> QED BY <1>1, <1>3, <1>4 DEF ScanInv

(* A turn that stores an argument.                                         *)
LEMMA StoreStep ==
  ASSUME ScanInv, MoveTurn, NEW a, StoreTurn(a)
  PROVE  ScanInv'
<1>1. PlaceInv'
  BY MovePlaces DEF ScanInv
<1>2. /\ Len(str) \in Nat /\ str' = str /\ si \in 1..Len(str) + 1 /\ si' \in si..Len(str) + 1
      /\ ret' = ret /\ pc = "scan"
  BY DEF ScanInv, PlaceInv, Strs, MoveTurn
<1>3. /\ ArgOK(a) /\ a.from >= si /\ a.to = si' /\ args' = Append(args, a)
      /\ count' = IF a.counted THEN count + 1 ELSE count
      /\ a.counted \/ a.width = 1 \/ pc' = "break" \/ si' = Len(str) + 1
  BY DEF StoreTurn
<1>4. /\ a.from \in 1..Len(str) + 1 /\ a.to \in a.from..Len(str) + 1
      /\ a.counted \in BOOLEAN /\ (a.counted => a.from < a.to)
  BY <1>3 DEF ArgOK
<1>5. PICK S : args \in Seq(S)
  BY DEF ScanInv, ArgsInv
<1>6. args \in Seq(S \cup {a}) /\ a \in S \cup {a}
  BY <1>5, SeqMonotonic
<1>7. /\ args' \in Seq(S \cup {a}) /\ Len(args) \in Nat /\ Len(args') = Len(args) + 1
      /\ \A k \in 1..Len(args) : args'[k] = args[k]
      /\ args'[Len(args) + 1] = a
  BY <1>3, <1>6, AppendProperties
<1>8. \A k \in 1..Len(args) :
        /\ ArgOK(args[k]) /\ args[k].to <= si
        /\ k > 1 => args[k - 1].to <= args[k].from
  BY DEF ScanInv, ArgsInv
<1> DEFINE N == Len(args)
<1>9. \A k \in 1..Len(args') : k \in 1..N \/ k = N + 1
  BY <1>7
<1>10. ArgsInv'
  <2>1. ASSUME NEW k \in 1..Len(args')
        PROVE  (ArgOK(args[k]) /\ args[k].to <= si)'
    <3>1. CASE k = N + 1
      <4>1. ArgOK(a)'
        BY <1>2, <1>3, SameArg
      <4>2. a.to <= si' /\ args'[k] = a
        BY <1>2, <1>3, <1>7, <3>1
      <4> QED BY <4>1, <4>2
    <3>2. CASE k \in 1..N
      <4>1. PICK b : b = args[k]
        OBVIOUS
      <4>2. ArgOK(b) /\ b.to <= si /\ b.from \in 1..Len(str) + 1 /\ b.to \in b.from..Len(str) + 1
        BY <1>8, <3>2, <4>1 DEF ArgOK
      <4>3. ArgOK(b)'
        BY <1>2, <4>2, SameArg
      <4>4. b.to <= si'
        BY <1>2, <4>2
      <4>5. args'[k] = b
        BY <1>7, <3>2, <4>1
      <4> QED BY <4>3, <4>4, <4>5
    <3> QED BY <1>9, <3>1, <3>2
  <2>2. ASSUME NEW k \in 1..Len(args'), k > 1
        PROVE  args'[k - 1].to <= args'[k].from
    <3>1. CASE k = N + 1
      <4>1. N \in 1..N /\ k - 1 = N
        BY <1>7, <2>2, <3>1
      <4>2. args[N].to <= si /\ ArgOK(args[N])
        BY <1>8, <4>1
      <4>3. args[N].to \in args[N].from..Len(str) + 1 /\ args[N].from \in 1..Len(str) + 1
        BY <4>2 DEF ArgOK
      <4>4. args[N].to <= a.from
        BY <1>2, <1>3, <1>4, <4>2, <4>3
      <4> QED BY <1>7, <3>1, <4>1, <4>4
    <3>2. CASE k \in 1..N
      <4>1. k - 1 \in 1..N
        BY <1>7, <2>2, <3>2
      <4> QED BY <1>7, <1>8, <2>2, <3>2, <4>1
    <3> QED BY <1>9, <3>1, <3>2
  <2>3. \E Z : args' \in Seq(Z)
    BY <1>7
  <2> QED BY <2>1, <2>2, <2>3 DEF ArgsInv
<1>11. count \in 0..N /\ ret \in {-1} \cup 0..N
  BY DEF ScanInv, CountInv
<1>12. count' \in 0..N + 1 /\ ret' \in {-1} \cup 0..N + 1
  <2>1. count' = count \/ count' = count + 1
    BY <1>3
  <2> QED BY <1>2, <1>7, <1>11, <2>1
<1>13. ASSUME \A k \in 1..Len(args') : args'[k].width # 1
       PROVE  /\ \A k \in 1..Len(args') : args'[k].counted <=> k <= count'
              /\ pc' = "scan" /\ count' < Len(args') => si' = Len(str) + 1
  <2>1. a.width # 1 /\ \A k \in 1..N : args[k].width # 1
    <3>1. N + 1 \in 1..Len(args') /\ \A k \in 1..N : k \in 1..Len(args')
      BY <1>7
    <3> QED BY <1>7, <1>13, <3>1
  <2>2. /\ \A k \in 1..N : args[k].counted <=> k <= count
        /\ count < N => si = Len(str) + 1
    BY <1>2, <2>1 DEF ScanInv, CountInv
  <2>3. CASE a.counted
    <3>1. count = N /\ count' = N + 1
      BY <1>2, <1>3, <1>4, <1>7, <1>11, <2>2, <2>3
    <3>2. \A k \in 1..N : args[k].counted /\ k <= count'
      BY <1>7, <2>2, <3>1
    <3>3. N + 1 <= count' /\ ~(count' < Len(args'))
      BY <1>7, <3>1
    <3> QED BY <1>7, <1>9, <2>3, <3>2, <3>3
  <2>4. CASE ~a.counted
    <3>1. count' = count /\ ~(N + 1 <= count')
      BY <1>3, <1>7, <1>11, <2>4
    <3>2. pc' = "scan" => si' = Len(str) + 1 \/ pc' = "break"
      BY <1>3, <2>1, <2>4
    <3> QED BY <1>7, <1>9, <2>2, <2>4, <3>1, <3>2
  <2> QED BY <1>4, <2>3, <2>4
<1>14. CountInv'
  BY <1>2, <1>7, <1>12, <1>13 DEF CountInv
<1> QED BY <1>1, <1>10, <1>14 DEF ScanInv

-----------------------------------------------------------------------------
(* The conversions.                                                        *)

(* Where a conversion specification is, and what follows it.               *)
LEMMA AtPercent ==
  ASSUME ScanInv, NEW cs, AtConversion(cs)
  PROVE  /\ pc = "scan" /\ Directive.conv \in cs
         /\ Directive.next \in fi + 1..Len(fmt) + 1
         /\ Directive.width \in Nat /\ Directive.suppress \in BOOLEAN
  BY DirectiveFacts DEF ScanInv, PlaceInv, AtConversion

(* The numbers behind the positions.                                       *)
LEMMA PlaceNumbers ==
  ASSUME ScanInv
  PROVE  /\ Len(str) \in Nat /\ Len(fmt) \in Nat /\ str \in Strs /\ fmt \in Strs
         /\ si \in 1..Len(str) + 1 /\ fi \in 1..Len(fmt) + 1 /\ convs \in Nat
  BY DEF ScanInv, PlaceInv, Strs

(* A conversion that stops the scan.                                       *)
LEMMA BreakStep ==
  ASSUME ScanInv, NEW cs, AtConversion(cs), NEW i \in si..Len(str) + 1, Break(i), turns' = turns + 1
  PROVE  ScanInv'
<1>1. fi' \in fi..Len(fmt) + 1
  BY AtPercent, PlaceNumbers DEF Break
<1>2. MoveTurn /\ UNCHANGED <<args, count>>
  BY <1>1, AtPercent, PlaceNumbers DEF MoveTurn, Break, input
<1> QED BY <1>2, PlainStep

(* A conversion that matched a nonempty piece of the input.                *)
LEMMA AssignStep ==
  ASSUME ScanInv, NEW cs, AtConversion(cs), cs \cap {"s", "["} = {},
         NEW from \in si..Len(str) + 1, NEW to \in from + 1..Len(str) + 1, NEW val,
         Assign(from, to, val), turns' = turns + 1
  PROVE  ScanInv'
<1>1. /\ fi' \in fi + 1..Len(fmt) + 1 /\ convs' = convs + 1 /\ si' = to /\ pc = "scan" /\ pc' = "scan"
      /\ UNCHANGED <<str, fmt, ret>>
  BY AtPercent DEF Assign, input
<1>2. fi' \in fi..Len(fmt) + 1 /\ fi' > fi /\ to \in si..Len(str) + 1 /\ convs' \in Nat
  BY <1>1, PlaceNumbers
<1>3. MoveTurn
  BY <1>1, <1>2 DEF MoveTurn
<1>4. CASE Directive.suppress
  BY <1>3, <1>4, PlainStep DEF Assign
<1>5. CASE ~Directive.suppress
  <2> DEFINE a == [conv |-> Directive.conv, from |-> from, to |-> to, val |-> val,
                   width |-> Directive.width, counted |-> TRUE]
  <2>1. args' = Append(args, a) /\ count' = count + 1
    BY <1>5 DEF Assign, VaArg
  <2>2. a.from = from /\ a.to = to /\ a.counted = TRUE /\ a.conv \notin {"s", "["}
    BY AtPercent
  <2> HIDE DEF a
  <2>3. a.from \in 1..Len(str) + 1 /\ a.to \in a.from..Len(str) + 1 /\ a.from < a.to /\ a.from >= si
    BY <2>2, PlaceNumbers
  <2>4. ArgOK(a)
    BY <2>2, <2>3 DEF ArgOK
  <2>5. StoreTurn(a)
    BY <1>1, <2>1, <2>2, <2>3, <2>4 DEF StoreTurn
  <2> QED BY <1>3, <2>5, StoreStep
<1> QED BY <1>4, <1>5, AtPercent

(* %d, %i, %u, %o, %x and %X.                                              *)
LEMMA ConvIntStep ==
  ASSUME ScanInv, ConvInt, turns' = turns + 1
  PROVE  ScanInv'
<1> DEFINE how  == IntConv[Directive.conv]
           from == SkipWs(si)
           r    == ScanInt(from, how.base, how.sgn)
           cs   == DOMAIN IntConv
<1>1. AtConversion(cs) /\ IF r.any THEN Assign(from, r.si, r.val) ELSE Break(r.si)
  BY DEF ConvInt
<1>2. cs = {"d", "i", "u", "o", "x", "X"}
  BY DEF IntConv
<1>3. how.base \in {0, 8, 10, 16}
  <2>1. PICK c \in cs : c = Directive.conv
    BY <1>1, AtPercent
  <2>2. /\ IntConv["d"] = [base |-> 10, sgn |-> TRUE] /\ IntConv["i"] = [base |-> 0, sgn |-> TRUE]
        /\ IntConv["u"] = [base |-> 10, sgn |-> FALSE] /\ IntConv["o"] = [base |-> 8, sgn |-> FALSE]
        /\ IntConv["x"] = [base |-> 16, sgn |-> FALSE] /\ IntConv["X"] = [base |-> 16, sgn |-> FALSE]
    BY DEF IntConv
  <2>3. c = "d" \/ c = "i" \/ c = "u" \/ c = "o" \/ c = "x" \/ c = "X"
    BY <1>2, <2>1
  <2>4. IntConv[c].base \in {0, 8, 10, 16}
    BY <2>2, <2>3
  <2> QED BY <2>1, <2>4
<1>4. cs \cap {"s", "["} = {}
  BY <1>2
<1> HIDE DEF how, cs
<1>5. from \in si..Len(str) + 1
  BY PlaceNumbers, SkipWsRun
<1> HIDE DEF from
<1>6. from \in 1..Len(str) + 1
  BY <1>5, PlaceNumbers
<1>7. r.si \in from..Len(str) + 1 /\ (r.any => r.si > from)
  BY <1>3, <1>6, PlaceNumbers, ScanIntFacts
<1> HIDE DEF r
<1>8. r.si \in si..Len(str) + 1 /\ (r.any => r.si \in from + 1..Len(str) + 1)
  BY <1>5, <1>7, PlaceNumbers
<1>9. CASE r.any
  BY <1>1, <1>4, <1>5, <1>8, <1>9, AssignStep
<1>10. CASE ~r.any
  BY <1>1, <1>8, <1>10, BreakStep
<1> QED BY <1>9, <1>10

(* %f, %g and %e.                                                          *)
LEMMA ConvFloatStep ==
  ASSUME ScanInv, ConvFloat, turns' = turns + 1
  PROVE  ScanInv'
<1> DEFINE from == SkipWs(si)
           r    == ScanFloat(from)
           cs   == {"f", "F", "g", "G", "e", "E"}
<1>1. AtConversion(cs) /\ IF r.any THEN Assign(from, r.si, r.val) ELSE Break(r.si)
  BY DEF ConvFloat
<1>2. cs \cap {"s", "["} = {}
  OBVIOUS
<1> HIDE DEF cs
<1>5. from \in si..Len(str) + 1
  BY PlaceNumbers, SkipWsRun
<1> HIDE DEF from
<1>6. from \in 1..Len(str) + 1
  BY <1>5, PlaceNumbers
<1>7. r.si \in from..Len(str) + 1 /\ (r.any => r.si > from)
  BY <1>6, PlaceNumbers, ScanFloatFacts
<1> HIDE DEF r
<1>8. r.si \in si..Len(str) + 1 /\ (r.any => r.si \in from + 1..Len(str) + 1)
  BY <1>5, <1>7, PlaceNumbers
<1>9. CASE r.any
  BY <1>1, <1>2, <1>5, <1>8, <1>9, AssignStep
<1>10. CASE ~r.any
  BY <1>1, <1>8, <1>10, BreakStep
<1> QED BY <1>9, <1>10

(* %c.                                                                     *)
LEMMA ConvCharStep ==
  ASSUME ScanInv, ConvChar, turns' = turns + 1
  PROVE  ScanInv'
<1>1. AtConversion({"c"}) /\ IF At(str, si) = NUL THEN Break(si) ELSE Assign(si, si + 1, At(str, si))
  BY DEF ConvChar
<1>2. si \in si..Len(str) + 1
  BY PlaceNumbers
<1>3. CASE At(str, si) = NUL
  BY <1>1, <1>2, <1>3, BreakStep
<1>4. CASE At(str, si) # NUL
  <2>1. si + 1 \in si + 1..Len(str) + 1
    <3>1. si + 1 \in 1..Len(str) + 1
      BY <1>4, AtNul, PlaceNumbers
    <3> QED BY <3>1, PlaceNumbers
  <2>2. {"c"} \cap {"s", "["} = {}
    OBVIOUS
  <2>3. \E cs : AtConversion(cs) /\ cs \cap {"s", "["} = {}
    BY <1>1, <2>2
  <2> QED BY <1>1, <1>2, <1>4, <2>1, <2>3, AssignStep
<1> QED BY <1>3, <1>4

(* White space in the format.                                              *)
LEMMA WhiteSpaceStep ==
  ASSUME ScanInv, WhiteSpace, turns' = turns + 1
  PROVE  ScanInv'
<1>1. SkipWs(si) \in si..Len(str) + 1
  BY PlaceNumbers, SkipWsRun
<1>2. At(fmt, fi) # NUL
  BY NulFacts DEF WhiteSpace
<1>3. fi + 1 \in 1..Len(fmt) + 1
  BY <1>2, AtNul, PlaceNumbers
<1>4. fi + 1 \in fi..Len(fmt) + 1 /\ fi + 1 > fi
  BY <1>3, PlaceNumbers
<1>5. MoveTurn /\ UNCHANGED <<args, count>>
  BY <1>1, <1>4, PlaceNumbers DEF WhiteSpace, Advance, MoveTurn, input
<1> QED BY <1>5, PlainStep

(* An ordinary character.                                                  *)
LEMMA LiteralStep ==
  ASSUME ScanInv, Literal, turns' = turns + 1
  PROVE  ScanInv'
<1>1. pc = "scan" /\ At(fmt, fi) # NUL
  BY DEF Literal
<1>2. fi + 1 \in 1..Len(fmt) + 1
  BY <1>1, AtNul, PlaceNumbers
<1>3. fi + 1 \in fi..Len(fmt) + 1 /\ fi + 1 > fi
  BY <1>2, PlaceNumbers
<1>4. CASE At(str, si) = At(fmt, fi)
  <2>1. si + 1 \in 1..Len(str) + 1
    BY <1>1, <1>4, AtNul, PlaceNumbers
  <2>2. si + 1 \in si..Len(str) + 1
    BY <2>1, PlaceNumbers
  <2>3. MoveTurn /\ UNCHANGED <<args, count>>
    BY <1>1, <1>3, <1>4, <2>2, PlaceNumbers DEF Literal, Advance, MoveTurn, input
  <2> QED BY <2>3, PlainStep
<1>5. CASE At(str, si) # At(fmt, fi)
  <2>1. si \in si..Len(str) + 1 /\ fi \in fi..Len(fmt) + 1
    BY PlaceNumbers
  <2>2. MoveTurn /\ UNCHANGED <<args, count>>
    BY <1>1, <1>5, <2>1, PlaceNumbers DEF Literal, MoveTurn, input
  <2> QED BY <2>2, PlainStep
<1> QED BY <1>4, <1>5

(* A format that ends inside a conversion specification.                   *)
LEMMA TruncatedStep ==
  ASSUME ScanInv, Truncated, turns' = turns + 1
  PROVE  ScanInv'
<1>1. AtConversion({NUL}) /\ Break(si) /\ si \in si..Len(str) + 1
  BY PlaceNumbers DEF Truncated
<1> QED BY <1>1, BreakStep

(* A specification that only moves on in the format.                       *)
LEMMA AdvanceStep ==
  ASSUME ScanInv, pc = "scan", NEW i \in si..Len(str) + 1, NEW f \in fi + 1..Len(fmt) + 1,
         Advance(i, f), turns' = turns + 1
  PROVE  ScanInv'
<1>1. f \in fi..Len(fmt) + 1 /\ f > fi
  BY PlaceNumbers
<1>2. MoveTurn /\ UNCHANGED <<args, count>>
  BY <1>1, PlaceNumbers DEF Advance, MoveTurn, input
<1> QED BY <1>2, PlainStep

(* %%.                                                                     *)
LEMMA ConvPercentStep ==
  ASSUME ScanInv, ConvPercent, turns' = turns + 1
  PROVE  ScanInv'
<1>1. /\ AtConversion({"%"})
      /\ IF At(str, si) = "%" THEN Advance(si + 1, Directive.next) ELSE Break(si)
  BY DEF ConvPercent
<1>2. pc = "scan" /\ Directive.next \in fi + 1..Len(fmt) + 1
  BY <1>1, AtPercent
<1>3. CASE At(str, si) = "%"
  <2>1. At(str, si) # NUL
    BY <1>3 DEF NUL
  <2>2. si + 1 \in 1..Len(str) + 1
    BY <2>1, AtNul, PlaceNumbers
  <2>3. si + 1 \in si..Len(str) + 1
    BY <2>2, PlaceNumbers
  <2>4. Advance(si + 1, Directive.next)
    BY <1>1, <1>3
  <2> QED BY <1>2, <2>3, <2>4, AdvanceStep
<1>4. CASE At(str, si) # "%"
  <2>1. Break(si) /\ si \in si..Len(str) + 1
    BY <1>1, <1>4, PlaceNumbers
  <2> QED BY <1>1, <2>1, BreakStep
<1> QED BY <1>3, <1>4

(* An unknown conversion.                                                  *)
LEMMA ConvUnknownStep ==
  ASSUME ScanInv, ConvUnknown, turns' = turns + 1
  PROVE  ScanInv'
<1>1. pc = "scan" /\ At(fmt, fi) = "%" /\ Advance(si, Directive.next)
  BY DEF ConvUnknown
<1>2. AtConversion({Directive.conv})
  BY <1>1 DEF AtConversion
<1>3. Directive.next \in fi + 1..Len(fmt) + 1 /\ si \in si..Len(str) + 1
  BY <1>2, AtPercent, PlaceNumbers
<1> QED BY <1>1, <1>3, AdvanceStep

(* %s.                                                                     *)
LEMMA ConvStringStep ==
  ASSUME ScanInv, ConvString, turns' = turns + 1
  PROVE  ScanInv'
<1> DEFINE from == SkipWs(si)
           to   == WordEnd(from)
           text == Piece(from, to)
           kept == Kept(text, Directive.width)
           a    == [conv |-> "s", from |-> from, to |-> to, val |-> kept,
                    width |-> Directive.width, counted |-> kept # <<>>]
<1>1. /\ AtConversion({"s"}) /\ si' = to /\ fi' = Directive.next
      /\ convs' = IF to > from THEN convs + 1 ELSE convs
      /\ IF Directive.suppress THEN UNCHANGED <<args, count>>
         ELSE VaArg(a) /\ count' = IF kept # <<>> THEN count + 1 ELSE count
      /\ UNCHANGED <<str, fmt, pc, ret>>
  BY DEF ConvString, input, Piece
<1>2. /\ from \in si..Len(str) + 1 /\ ~IsWs(At(str, from))
  BY PlaceNumbers, SkipWsRun
<1>3. a.conv = "s" /\ a.from = from /\ a.to = to /\ a.val = kept
      /\ a.width = Directive.width /\ a.counted = (kept # <<>>)
  OBVIOUS
<1> HIDE DEF a, from
<1>4. from \in 1..Len(str) + 1
  BY <1>2, PlaceNumbers
<1>5. to \in from..Len(str) + 1 /\ ~(At(str, to) # NUL /\ ~IsWs(At(str, to)))
  BY <1>4, PlaceNumbers, WordRun
<1> HIDE DEF to
<1>6. Directive.width \in Nat /\ pc = "scan" /\ Directive.next \in fi + 1..Len(fmt) + 1
  BY <1>1, AtPercent
<1>7. /\ IsPrefix(kept, text)
      /\ Directive.width > 0 => Len(kept) + 1 <= Directive.width
      /\ Directive.width = 0 => kept = text
      /\ kept # <<>> => from < to
      /\ Directive.width # 1 /\ from < to => kept # <<>>
  <2> HIDE DEF text
  <2>1. PICK w, f, t, u : w = Directive.width /\ f = from /\ t = to /\ u = text
    OBVIOUS
  <2>2. f \in 1..Len(str) + 1 /\ t \in f..Len(str) + 1 /\ u = Piece(f, t) /\ str \in Strs
        /\ w \in Nat
    BY <1>4, <1>5, <1>6, <2>1, PlaceNumbers DEF text
  <2>3. KeptOK(u, w, f, t)
    BY <2>2, KeptFacts
  <2> QED BY <2>1, <2>3 DEF KeptOK
<1> HIDE DEF kept, text
<1>8. to \in si..Len(str) + 1 /\ Directive.next \in fi..Len(fmt) + 1 /\ Directive.next > fi
  BY <1>2, <1>4, <1>5, <1>6, PlaceNumbers
<1>9. MoveTurn
  BY <1>1, <1>6, <1>8, PlaceNumbers DEF MoveTurn
<1>10. CASE Directive.suppress
  BY <1>1, <1>9, <1>10, PlainStep
<1>11. CASE ~Directive.suppress
  <2>1. ArgOK(a)
    <3>1. Text(a) = text
      BY <1>3 DEF Text, text, Piece
    <3>2. a.counted \in BOOLEAN /\ (a.counted => a.from < a.to)
      BY <1>3, <1>7
    <3>3. a.from \in 1..Len(str) + 1 /\ a.to \in a.from..Len(str) + 1
      BY <1>3, <1>4, <1>5
    <3>4. /\ IsPrefix(a.val, Text(a))
          /\ a.width > 0 => Len(a.val) + 1 <= a.width
          /\ a.width = 0 => a.val = Text(a)
      BY <1>3, <1>7, <3>1
    <3> QED BY <3>2, <3>3, <3>4 DEF ArgOK
  <2>2. kept = <<>> /\ Directive.width # 1 => to = Len(str) + 1
    <3> SUFFICES ASSUME kept = <<>>, Directive.width # 1 PROVE to = Len(str) + 1
      OBVIOUS
    <3>1. from = to
      BY <1>4, <1>5, <1>7, PlaceNumbers
    <3>2. At(str, to) = NUL
      BY <1>2, <1>5, <3>1
    <3> QED BY <1>4, <3>1, <3>2, AtNul, PlaceNumbers
  <2>3. a.from >= si
    BY <1>2, <1>3, PlaceNumbers
  <2>4. args' = Append(args, a) /\ count' = IF a.counted THEN count + 1 ELSE count
    BY <1>1, <1>3, <1>11 DEF VaArg
  <2>5. StoreTurn(a)
    BY <1>1, <1>3, <2>1, <2>2, <2>3, <2>4 DEF StoreTurn
  <2> QED BY <1>9, <2>5, StoreStep
<1> QED BY <1>6, <1>10, <1>11, AtPercent

(* Where a scanset is written: its brackets are inside the format.         *)
LEMMA SetPlaces ==
  ASSUME fmt \in Strs, NEW d \in 1..Len(fmt) + 1,
         NEW ps, ps = IF At(fmt, d) = "^" THEN d + 1 ELSE d,
         NEW pe, pe = BracketEnd(IF At(fmt, ps) = "]" THEN ps + 1 ELSE ps)
  PROVE  /\ pe \in d..Len(fmt) + 1
         /\ At(fmt, pe) # NUL => pe + 1 \in d + 1..Len(fmt) + 1
<1>1. Len(fmt) \in Nat
  BY DEF Strs
<1>2. \A i \in 1..Len(fmt) + 1 : At(fmt, i) # NUL => i + 1 \in 1..Len(fmt) + 1
  BY AtNul
<1>3. "^" # NUL /\ "]" # NUL
  BY DEF NUL
<1>4. ps \in d..Len(fmt) + 1
  <2>1. CASE At(fmt, d) = "^"
    <3>1. d + 1 \in 1..Len(fmt) + 1
      BY <1>2, <1>3, <2>1
    <3> QED BY <1>1, <2>1, <3>1
  <2>2. CASE At(fmt, d) # "^"
    BY <1>1, <2>2
  <2> QED BY <2>1, <2>2
<1>5. ps \in 1..Len(fmt) + 1
  BY <1>1, <1>4
<1>6. PICK b : b = IF At(fmt, ps) = "]" THEN ps + 1 ELSE ps
  OBVIOUS
<1>7. b \in ps..Len(fmt) + 1
  <2>1. CASE At(fmt, ps) = "]"
    <3>1. ps + 1 \in 1..Len(fmt) + 1
      BY <1>2, <1>3, <1>5, <2>1
    <3> QED BY <1>1, <1>5, <1>6, <2>1, <3>1
  <2>2. CASE At(fmt, ps) # "]"
    BY <1>1, <1>5, <1>6, <2>2
  <2> QED BY <2>1, <2>2
<1>8. b \in 1..Len(fmt) + 1
  BY <1>1, <1>5, <1>7
<1>9. pe \in b..Len(fmt) + 1
  BY <1>1, <1>6, <1>8, BracketRun
<1>10. pe \in d..Len(fmt) + 1 /\ pe \in 1..Len(fmt) + 1
  BY <1>1, <1>4, <1>7, <1>9
<1>11. At(fmt, pe) # NUL => pe + 1 \in 1..Len(fmt) + 1
  BY <1>2, <1>10
<1>12. At(fmt, pe) # NUL => pe + 1 \in d + 1..Len(fmt) + 1
  BY <1>1, <1>10, <1>11
<1> QED BY <1>10, <1>12

(* %[.                                                                     *)
LEMMA ConvSetStep ==
  ASSUME ScanInv, ConvSet, turns' = turns + 1
  PROVE  ScanInv'
<1> DEFINE neg  == At(fmt, Directive.next) = "^"
           ps   == IF neg THEN Directive.next + 1 ELSE Directive.next
           pe   == BracketEnd(IF At(fmt, ps) = "]" THEN ps + 1 ELSE ps)
           to   == SetEnd(si, ps, pe, neg)
           text == Piece(si, to)
           kept == Kept(text, Directive.width)
           a    == [conv |-> "[", from |-> si, to |-> to, val |-> kept,
                    width |-> Directive.width, counted |-> kept # <<>>]
<1>1. /\ AtConversion({"["}) /\ UNCHANGED <<str, fmt, ret>>
      /\ IF At(fmt, pe) = NUL
         THEN pc' = "break" /\ fi' = pe /\ UNCHANGED <<si, count, args, convs>>
         ELSE /\ si' = to /\ fi' = pe + 1
              /\ convs' = IF to > si THEN convs + 1 ELSE convs
              /\ IF Directive.suppress THEN UNCHANGED <<args, count, pc>>
                 ELSE VaArg(a) /\ CountSet(kept)
  BY DEF ConvSet, input, Piece
<1>2. /\ pc = "scan" /\ Directive.width \in Nat /\ Directive.suppress \in BOOLEAN
      /\ Directive.next \in fi + 1..Len(fmt) + 1
  BY <1>1, AtPercent
<1>3. /\ pe \in Directive.next..Len(fmt) + 1
      /\ At(fmt, pe) # NUL => pe + 1 \in Directive.next + 1..Len(fmt) + 1
  <2>1. PICK d, p : d = Directive.next /\ p = ps
    OBVIOUS
  <2>2. d \in 1..Len(fmt) + 1 /\ p = (IF At(fmt, d) = "^" THEN d + 1 ELSE d) /\ fmt \in Strs
    BY <1>2, <2>1, PlaceNumbers
  <2>3. PICK e : e = pe
    OBVIOUS
  <2>4. e = BracketEnd(IF At(fmt, p) = "]" THEN p + 1 ELSE p)
    BY <2>1, <2>3
  <2>5. e \in d..Len(fmt) + 1 /\ (At(fmt, e) # NUL => e + 1 \in d + 1..Len(fmt) + 1)
    BY <2>2, <2>4, SetPlaces
  <2> HIDE DEF pe
  <2> QED BY <2>1, <2>3, <2>5
<1>4. a.conv = "[" /\ a.from = si /\ a.to = to /\ a.val = kept
      /\ a.width = Directive.width /\ a.counted = (kept # <<>>)
  OBVIOUS
<1> HIDE DEF a, pe, ps, neg
<1>5. to \in si..Len(str) + 1
  BY PlaceNumbers, SetRun
<1> HIDE DEF to
<1>6. /\ pe \in fi..Len(fmt) + 1
      /\ At(fmt, pe) # NUL => pe + 1 \in fi..Len(fmt) + 1 /\ pe + 1 > fi
  BY <1>2, <1>3, PlaceNumbers
<1>7. CASE At(fmt, pe) = NUL
  <2>1. si \in si..Len(str) + 1
    BY PlaceNumbers
  <2>2. MoveTurn /\ UNCHANGED <<args, count>>
    BY <1>1, <1>2, <1>6, <1>7, <2>1, PlaceNumbers DEF MoveTurn
  <2> QED BY <2>2, PlainStep
<1>8. CASE At(fmt, pe) # NUL /\ Directive.suppress
  <2>1. MoveTurn /\ UNCHANGED <<args, count>>
    BY <1>1, <1>2, <1>5, <1>6, <1>8, PlaceNumbers DEF MoveTurn
  <2> QED BY <2>1, PlainStep
<1>9. CASE At(fmt, pe) # NUL /\ ~Directive.suppress
  <2>1. /\ si' = to /\ fi' = pe + 1 /\ convs' \in Nat /\ args' = Append(args, a)
        /\ CountSet(kept)
    BY <1>1, <1>9, PlaceNumbers DEF VaArg
  <2>2. pc' \in {"scan", "break"}
    BY <1>2, <2>1 DEF CountSet
  <2>3. MoveTurn
    BY <1>1, <1>2, <1>5, <1>6, <1>9, <2>1, <2>2 DEF MoveTurn
  <2>4. KeptOK(text, Directive.width, si, to)
    <3> HIDE DEF text
    <3>1. PICK w, f, t, u : w = Directive.width /\ f = si /\ t = to /\ u = text
      OBVIOUS
    <3>2. f \in 1..Len(str) + 1 /\ t \in f..Len(str) + 1 /\ u = Piece(f, t) /\ str \in Strs
          /\ w \in Nat
      BY <1>2, <1>5, <3>1, PlaceNumbers DEF text
    <3>3. KeptOK(u, w, f, t)
      BY <3>2, KeptFacts
    <3> QED BY <3>1, <3>3
  <2>5. /\ IsPrefix(kept, text)
        /\ Directive.width > 0 => Len(kept) + 1 <= Directive.width
        /\ Directive.width = 0 => kept = text
        /\ kept # <<>> => si < to
    <3> HIDE DEF text
    <3> QED BY <2>4 DEF KeptOK
  <2> HIDE DEF kept, text
  <2>6. ArgOK(a)
    <3>1. Text(a) = text
      BY <1>4 DEF Text, text, Piece
    <3>2. a.counted \in BOOLEAN /\ (a.counted => a.from < a.to)
      BY <1>4, <2>5
    <3>3. a.from \in 1..Len(str) + 1 /\ a.to \in a.from..Len(str) + 1
      BY <1>4, <1>5, PlaceNumbers
    <3>4. /\ IsPrefix(a.val, Text(a))
          /\ a.width > 0 => Len(a.val) + 1 <= a.width
          /\ a.width = 0 => a.val = Text(a)
      BY <1>4, <2>5, <3>1
    <3> QED BY <3>2, <3>3, <3>4 DEF ArgOK
  <2>7. a.from >= si
    BY <1>4, PlaceNumbers
  <2>8. /\ count' = IF a.counted THEN count + 1 ELSE count
        /\ a.counted \/ pc' = "break"
    BY <1>4, <2>1 DEF CountSet
  <2>9. StoreTurn(a)
    BY <1>4, <2>1, <2>6, <2>7, <2>8 DEF StoreTurn
  <2> QED BY <2>3, <2>9, StoreStep
<1> QED BY <1>7, <1>8, <1>9

(* The end of the call.                                                    *)
LEMMA ReturnStep ==
  ASSUME ScanInv, Return
  PROVE  ScanInv'
<1>1. /\ UNCHANGED <<str, fmt, fi, si, count, args, convs, turns>> /\ pc' = "done"
      /\ ret' \in {-1, count}
  BY DEF Return, input
<1>2. PlaceInv'
  BY <1>1 DEF ScanInv, PlaceInv
<1>3. ArgsInv'
  <2>1. \A k \in 1..Len(args) : ArgOK(args[k])'
    <3> SUFFICES ASSUME NEW k \in 1..Len(args) PROVE ArgOK(args[k])'
      OBVIOUS
    <3>1. PICK a : a = args[k]
      OBVIOUS
    <3>2. ArgOK(a)
      BY <3>1 DEF ScanInv, ArgsInv
    <3>3. ArgOK(a)'
      BY <1>1, <3>2, SameArg
    <3> QED BY <1>1, <3>1, <3>3
  <2> QED BY <1>1, <2>1 DEF ScanInv, ArgsInv
<1>4. CountInv'
  <2>1. ret' \in {-1} \cup 0..Len(args)
    BY <1>1 DEF ScanInv, CountInv
  <2> QED BY <1>1, <2>1 DEF ScanInv, CountInv
<1> QED BY <1>2, <1>3, <1>4 DEF ScanInv

(* Nothing changes.                                                        *)
LEMMA ScanStutter ==
  ASSUME ScanInv, UNCHANGED vars
  PROVE  ScanInv'
<1>1. UNCHANGED <<str, fmt, fi, si, count, args, convs, turns, pc, ret>>
  BY DEF vars
<1>2. PlaceInv'
  BY <1>1 DEF ScanInv, PlaceInv
<1>3. ArgsInv'
  <2>1. \A k \in 1..Len(args) : ArgOK(args[k])'
    <3> SUFFICES ASSUME NEW k \in 1..Len(args) PROVE ArgOK(args[k])'
      OBVIOUS
    <3>1. PICK a : a = args[k]
      OBVIOUS
    <3>2. ArgOK(a)
      BY <3>1 DEF ScanInv, ArgsInv
    <3>3. ArgOK(a)'
      BY <1>1, <3>2, SameArg
    <3> QED BY <1>1, <3>1, <3>3
  <2> QED BY <1>1, <2>1 DEF ScanInv, ArgsInv
<1>4. CountInv'
  BY <1>1 DEF ScanInv, CountInv
<1> QED BY <1>2, <1>3, <1>4 DEF ScanInv

-----------------------------------------------------------------------------
(* The invariant holds when the call starts.                               *)
LEMMA InitScanInv ==
  ASSUME Init
  PROVE  ScanInv
<1>1. PICK c \in Cases : str = c[1] /\ fmt = c[2]
  BY DEF Init
<1>2. str \in Strs /\ fmt \in Strs
  BY <1>1, ScanfAssumption DEF Strs
<1>3. Len(str) \in Nat /\ Len(fmt) \in Nat
  BY <1>2 DEF Strs
<1>4. PlaceInv
  BY <1>2, <1>3 DEF Init, PlaceInv
<1>5. args = <<>> /\ Len(args) = 0 /\ args \in Seq({})
  BY DEF Init
<1>6. 1..Len(args) = {}
  BY <1>5
<1>7. ArgsInv
  BY <1>5, <1>6 DEF ArgsInv
<1>8. CountInv
  BY <1>5, <1>6 DEF Init, CountInv
<1> QED BY <1>4, <1>7, <1>8 DEF ScanInv

(* Every step keeps it.                                                    *)
LEMMA NextScanInv ==
  ASSUME ScanInv, [Next]_vars
  PROVE  ScanInv'
<1>1. CASE Turn
  BY <1>1, WhiteSpaceStep, LiteralStep, TruncatedStep, ConvIntStep, ConvFloatStep, ConvStringStep,
     ConvCharStep, ConvSetStep, ConvPercentStep, ConvUnknownStep DEF Turn
<1>2. CASE Return
  BY <1>2, ReturnStep
<1>3. CASE UNCHANGED vars
  BY <1>3, ScanStutter
<1> QED BY <1>1, <1>2, <1>3 DEF Next

(* So it always holds.                                                     *)
LEMMA ScanAlways == Spec => []ScanInv
<1>1. Init => ScanInv
  BY InitScanInv
<1>2. ScanInv /\ [Next]_vars => ScanInv'
  BY NextScanInv
<1> QED BY <1>1, <1>2, PTL DEF Spec

(* Neither position of sscanf ever passes its terminator, every turn of    *)
(* the loop but the last moves on in the format, and the result is -1 or   *)
(* at most the number of destinations written, whatever the strings are,   *)
(* whatever follows them in memory and wherever the format is cut short    *)
(* (sscanf.c:300-501).                                                     *)
THEOREM ScanStaysInBounds == Spec => []InBounds
<1>1. ScanInv => InBounds
  BY DEF ScanInv, PlaceInv, CountInv, InBounds
<1> QED BY <1>1, ScanAlways, PTL

(* The destinations that sscanf counts are the first of those it wrote,    *)
(* and come from nonempty pieces of the input in their order               *)
(* (sscanf.c:350-487), for every input.                                    *)
THEOREM CountedComeFirst == Spec => []CountedFirst
<1>1. ScanInv => CountedFirst
  <2> SUFFICES ASSUME ScanInv PROVE CountedFirst
    OBVIOUS
  <2>1. DOMAIN args = 1..Len(args)
    BY DEF ScanInv, ArgsInv
  <2>2. \A k \in DOMAIN args : args[k].counted => args[k].from < args[k].to
    BY <2>1 DEF ScanInv, ArgsInv, ArgOK
  <2>3. \A k \in DOMAIN args : k > 1 => args[k - 1].to <= args[k].from
    BY <2>1 DEF ScanInv, ArgsInv
  <2>4. (\A k \in DOMAIN args : args[k].width # 1) =>
          \A k \in DOMAIN args : args[k].counted <=> k <= count
    BY <2>1 DEF ScanInv, CountInv
  <2> QED BY <2>2, <2>3, <2>4 DEF CountedFirst
<1> QED BY <1>1, ScanAlways, PTL

(* A width bounds what %s and %[ write, terminator included, and what is   *)
(* written is a beginning of the text (sscanf.c:423-429, 471-477), for     *)
(* every input.                                                            *)
THEOREM WidthsRespected == Spec => []WidthBounds
<1>1. ScanInv => WidthBounds
  <2> SUFFICES ASSUME ScanInv PROVE WidthBounds
    OBVIOUS
  <2>1. DOMAIN args = 1..Len(args)
    BY DEF ScanInv, ArgsInv
  <2>2. \A k \in DOMAIN args : ArgOK(args[k])
    BY <2>1 DEF ScanInv, ArgsInv
  <2> QED BY <2>2 DEF ArgOK, WidthBounds
<1> QED BY <1>1, ScanAlways, PTL
=============================================================================
