------------------------------- MODULE Scanf -------------------------------
(***************************************************************************)
(* One call of sscanf (src/libc/sscanf.c): the format is read directive by *)
(* directive, each one consuming input and storing through the next        *)
(* variadic argument.  An action is one turn of the loop over the format.  *)
(*                                                                         *)
(* Characters are one-letter strings ordered by Ascii; indices start at 1, *)
(* so the terminator of s is at Len(s) + 1.  The && of the code is the     *)
(* bitwise &, which reads both operands: bytes beyond the terminator are   *)
(* read, and may be anything (past).  A long is LongMax + 1 wide in each   *)
(* direction; a double is the decimal it is built from, before rounding.   *)
(***************************************************************************)
EXTENDS Integers, Sequences, SequencesExt

CONSTANTS
  Cases,     \* <<string, format>> pairs of the calls considered
  Past,      \* characters that may follow a terminator in memory
  LongMax,   \* 2^63 - 1
  FracCap    \* fraction digits kept by the float scanner: 18

NUL == "NUL"

VARIABLES
  str, fmt, past,  \* the arguments, and the memory behind their terminators
  fi, si,          \* positions in fmt and str
  count,           \* conversions counted
  args,            \* what each variadic argument has received, and from where
  convs,           \* history: conversions that matched, suppressed ones too
  turns,           \* history: turns of the loop over the format
  pc, ret

vars == <<str, fmt, past, fi, si, count, args, convs, turns, pc, ret>>
input == <<str, fmt, past>>

-----------------------------------------------------------------------------
(* Characters.                                                             *)
Ascii ==
  <<NUL, "\t", "\n", "\r", " ", "%", "*", "+", ",", "-", ".", "0", "1", "2", "3", "4", "5",
    "6", "7", "8", "9", "A", "B", "C", "D", "E", "F", "G", "I", "N", "T", "X", "Y", "[",
    "]", "^", "a", "b", "c", "d", "e", "f", "g", "h", "i", "j", "k", "l", "n", "o", "s",
    "t", "u", "x", "y", "z">>
Code(c) == CHOOSE i \in DOMAIN Ascii : Ascii[i] = c

(* What a string is made of: every character but the terminator.           *)
Chars == {Ascii[i] : i \in DOMAIN Ascii} \ {NUL}

ASSUME ScanfAssumption ==
  /\ LongMax \in Nat /\ FracCap \in Nat /\ LongMax > 9 /\ 10 ^ FracCap <= LongMax
  /\ \A c \in Cases : c \in Seq(Chars) \X Seq(Chars)

Lower(c) ==
  LET of == [A |-> "a", B |-> "b", C |-> "c", D |-> "d", E |-> "e", F |-> "f",
             I |-> "i", N |-> "n", T |-> "t", X |-> "x", Y |-> "y"]
  IN  IF c \in DOMAIN of THEN of[c] ELSE c

IsWs(c) == c \in {" ", "\t", "\n", "\r"}

Digits == <<"0", "1", "2", "3", "4", "5", "6", "7", "8", "9", "a", "b", "c", "d", "e", "f">>
IsDigit(c, base) == \E i \in 1..base : Digits[i] = Lower(c)
IsDecimal(c) == IsDigit(c, 10)
DigitValue(c) == (CHOOSE i \in DOMAIN Digits : Digits[i] = Lower(c)) - 1

(* The byte at index i of the array that holds s.                          *)
At(s, i) ==
  IF i <= Len(s) THEN s[i] ELSE IF i = Len(s) + 1 THEN NUL ELSE past

(* The first index from i on whose byte fails P: where a scanning loop     *)
(* stops.  A loop that misses the terminator is followed for 8 bytes.      *)
RunEnd(s, i, P(_)) ==
  CHOOSE j \in i..Len(s) + 9 :
    /\ j = Len(s) + 9 \/ ~P(At(s, j))
    /\ \A k \in i..j - 1 : P(At(s, k))

(* The loops over white space, digits and the characters of a word.        *)
SkipWs(i)          == RunEnd(str, i, IsWs)
DigitsEnd(i, base) == RunEnd(str, i, LAMBDA c : IsDigit(c, base))
DecimalsEnd(s, i)  == RunEnd(s, i, IsDecimal)
WordEnd(i)         == RunEnd(str, i, LAMBDA c : c # NUL /\ ~IsWs(c))

-----------------------------------------------------------------------------
(* Integers.                                                               *)
LongMin == -LongMax - 1
Wrap(v) == ((v - LongMin) % (2 * (LongMax + 1))) + LongMin

(* Mutant of AddDigit: the check forgets the digit about to be added.      *)
AddDigitLate(acc, digit, base, isSigned) ==
  LET over == acc.overflow \/ (isSigned /\ base = 10 /\ acc.val > LongMax \div 10)
  IN  [overflow |-> over, val |-> IF over THEN acc.val ELSE Wrap(acc.val * base + digit)]

(* One digit more: overflow is looked for in signed decimals only, and     *)
(* freezes the value.                                                      *)
AddDigit(acc, digit, base, isSigned) ==
  LET over == \/ acc.overflow
              \/ isSigned /\ base = 10 /\ acc.val > (LongMax - digit) \div 10
  IN  [overflow |-> over, val |-> IF over THEN acc.val ELSE Wrap(acc.val * base + digit)]

(* Mutant of Prefix: the prefix test looks at the x alone.                 *)
PrefixByX(i, base) ==
  IF base \in {0, 16} /\ Lower(At(str, i + 1)) = "x"
  THEN [base |-> 16, si |-> i + 2, any |-> FALSE]
  ELSE [base |-> IF base = 0 THEN 10 ELSE base, si |-> i, any |-> FALSE]

(* The prefix decides the base: si is where the digits start, any whether  *)
(* a digit has been consumed already.                                      *)
Prefix(i, base) ==
  LET zero == At(str, i) = "0"
      hex  == zero /\ Lower(At(str, i + 1)) = "x"
  IN  CASE base \in {0, 16} /\ hex    -> [base |-> 16, si |-> i + 2, any |-> FALSE]
        [] base = 0 /\ zero /\ ~hex   -> [base |-> 8, si |-> i + 1, any |-> TRUE]
        [] base = 0 /\ ~zero          -> [base |-> 10, si |-> i, any |-> FALSE]
        [] OTHER                      -> [base |-> base, si |-> i, any |-> FALSE]

ScanInt(i, base, isSigned) ==
  LET neg  == isSigned /\ At(str, i) = "-"
      p    == Prefix(IF isSigned /\ At(str, i) \in {"-", "+"} THEN i + 1 ELSE i, base)
      end  == DigitsEnd(p.si, p.base)
      acc[k \in p.si..end] ==   \* the loop's state before str[k]
        IF k = p.si THEN [overflow |-> FALSE, val |-> 0]
        ELSE AddDigit(acc[k - 1], DigitValue(str[k - 1]), p.base, isSigned)
      over == acc[end].overflow
  IN  [si  |-> end,
       any |-> p.any \/ end > p.si,
       val |-> CASE over /\ neg  -> LongMin
                 [] over /\ ~neg -> LongMax
                 [] ~over /\ neg -> Wrap(0 - acc[end].val)
                 [] OTHER        -> acc[end].val]

-----------------------------------------------------------------------------
(* Floating point.  A number is m / 10^d * 10^e.                           *)
Number(ds) ==
  LET n[k \in 0..Len(ds)] == IF k = 0 THEN 0 ELSE n[k - 1] * 10 + DigitValue(ds[k])
  IN  n[Len(ds)]
LongNumber(ds) == Wrap(Number(ds))

Word(i, w) == \A k \in DOMAIN w : Lower(At(str, i + k - 1)) = w[k]

(* Fraction digits from i to j - 1: those after the first FracCap count    *)
(* neither in frac_part nor in frac_scale.                                 *)
Fraction(i, j) ==
  LET kept == SubSeq(str, i, IF j - i > FracCap THEN i + FracCap - 1 ELSE j - 1)
  IN  [part |-> Number(kept), digits |-> Len(kept)]

(* An "e" is consumed, with its sign, even when no digit follows.          *)
Exponent(i) ==
  LET neg == At(str, i + 1) = "-"
      d   == IF At(str, i + 1) \in {"-", "+"} THEN i + 2 ELSE i + 1
      end == DecimalsEnd(str, d)
      n   == Number(SubSeq(str, d, end - 1))
  IN  IF Lower(At(str, i)) # "e" THEN [si |-> i, e |-> 0]
      ELSE [si |-> end, e |-> IF neg THEN 0 - n ELSE n]

ScanFloat(i) ==
  LET neg  == At(str, i) = "-"
      s    == IF At(str, i) \in {"-", "+"} THEN i + 1 ELSE i
      dot  == DecimalsEnd(str, s)
      f    == IF At(str, dot) = "." THEN dot + 1 ELSE dot
      end  == IF f > dot THEN DecimalsEnd(str, f) ELSE dot
      frac == Fraction(f, end)
      exp  == Exponent(end)
      int  == LongNumber(SubSeq(str, s, dot - 1))
  IN  CASE Word(s, <<"i", "n", "f">>) ->
             [si  |-> IF Word(s + 3, <<"i", "n", "i", "t", "y">>) THEN s + 8 ELSE s + 3,
              any |-> TRUE, val |-> [kind |-> "inf", neg |-> neg]]
        [] Word(s, <<"n", "a", "n">>) ->
             [si |-> s + 3, any |-> TRUE, val |-> [kind |-> "nan"]]
        [] OTHER ->
             IF dot = s /\ end = f THEN [si |-> end, any |-> FALSE]
             ELSE [si |-> exp.si, any |-> TRUE,
                   val |-> [kind |-> "num", neg |-> neg, e |-> exp.e, d |-> frac.digits,
                            m |-> int * 10 ^ frac.digits + frac.part]]

-----------------------------------------------------------------------------
(* Scansets: whether c is in the set written in fmt from ps to pe - 1.     *)
InSet(ps, pe, c) ==
  LET in[k \in ps..pe] ==
        CASE k = pe -> FALSE
          [] k + 2 < pe /\ fmt[k + 1] = "-" ->
               (Code(fmt[k]) <= Code(c) /\ Code(c) <= Code(fmt[k + 2])) \/ in[k + 3]
          [] OTHER -> c = fmt[k] \/ in[k + 1]
  IN  IF ps < pe /\ fmt[ps] = "]" THEN c = "]" \/ in[ps + 1] ELSE in[ps]

(* The loop to the closing bracket, and the one over the input.            *)
BracketEnd(i) == RunEnd(fmt, i, LAMBDA c : c \notin {NUL, "]"})
SetEnd(i, ps, pe, neg) == RunEnd(str, i, LAMBDA c : c # NUL /\ InSet(ps, pe, c) # neg)

(* Mutant of Kept: the terminator is not counted in the width.             *)
KeptAll(text, width) ==
  IF width = 0 \/ Len(text) <= width THEN text ELSE SubSeq(text, 1, width)

(* What %s and %[ store of the text they consume: a width leaves room for  *)
(* the terminator.                                                         *)
Kept(text, width) ==
  IF width = 0 \/ Len(text) < width THEN text ELSE SubSeq(text, 1, width - 1)

-----------------------------------------------------------------------------
(* The conversion specification at fi: '*', width, length modifier,        *)
(* conversion character.  It is NUL when the format ends before it.        *)
Directive ==
  LET sup   == At(fmt, fi + 1) = "*"
      w     == IF sup THEN fi + 2 ELSE fi + 1
      l     == DecimalsEnd(fmt, w)
      m     == IF At(fmt, l) \in {"l", "h", "z", "j"}
               THEN IF At(fmt, l + 1) \in {"l", "h"} THEN l + 2 ELSE l + 1
               ELSE l
      short == NUL \in {At(fmt, k) : k \in fi + 1..m}
  IN  [suppress |-> sup, width |-> Number(SubSeq(fmt, w, l - 1)),
       conv |-> IF short THEN NUL ELSE At(fmt, m),
       next |-> IF short THEN Len(fmt) + 1 ELSE m + 1]

AtConversion(cs) ==
  /\ pc = "scan" /\ At(fmt, fi) = "%"
  /\ Directive.conv \in cs

(* va_arg: the next variadic slot is taken.                                *)
VaArg(a) == args' = Append(args, a)

(* A conversion that matched str[from .. to - 1]: it is stored and counted *)
(* unless it is suppressed.                                                *)
Assign(from, to, val) ==
  /\ si' = to /\ fi' = Directive.next /\ convs' = convs + 1
  /\ IF Directive.suppress
     THEN UNCHANGED <<args, count>>
     ELSE /\ VaArg([conv |-> Directive.conv, from |-> from, to |-> to, val |-> val,
                    width |-> Directive.width, counted |-> TRUE])
          /\ count' = count + 1
  /\ UNCHANGED <<input, pc, ret>>

(* break: scanning stops with the input position at i.                     *)
Break(i) ==
  /\ pc' = "break" /\ si' = i /\ fi' = Directive.next
  /\ UNCHANGED <<input, count, args, convs, ret>>

Advance(i, f) ==
  /\ si' = i /\ fi' = f
  /\ UNCHANGED <<input, count, args, convs, pc, ret>>

-----------------------------------------------------------------------------
Init ==
  /\ \E c \in Cases : str = c[1] /\ fmt = c[2]
  /\ past \in Past
  /\ fi = 1 /\ si = 1 /\ count = 0 /\ args = <<>> /\ convs = 0 /\ turns = 0
  /\ pc = "scan" /\ ret = 0

(* Whitespace in the format skips any whitespace in the input.             *)
WhiteSpace ==
  /\ pc = "scan" /\ IsWs(At(fmt, fi))
  /\ Advance(SkipWs(si), fi + 1)

(* Any other character must be there in the input.                         *)
Literal ==
  /\ pc = "scan" /\ ~IsWs(At(fmt, fi)) /\ At(fmt, fi) \notin {"%", NUL}
  /\ IF At(str, si) = At(fmt, fi) THEN Advance(si + 1, fi + 1)
     ELSE /\ pc' = "break"
          /\ UNCHANGED <<input, fi, si, count, args, convs, ret>>

Truncated ==
  /\ AtConversion({NUL})
  /\ Break(si)

IntConv ==
  [d |-> [base |-> 10, sgn |-> TRUE],  i |-> [base |-> 0, sgn |-> TRUE],
   u |-> [base |-> 10, sgn |-> FALSE], o |-> [base |-> 8, sgn |-> FALSE],
   x |-> [base |-> 16, sgn |-> FALSE], X |-> [base |-> 16, sgn |-> FALSE]]

ConvInt ==
  /\ AtConversion(DOMAIN IntConv)
  /\ LET how  == IntConv[Directive.conv]
         from == SkipWs(si)
         r    == ScanInt(from, how.base, how.sgn)
     IN  IF r.any THEN Assign(from, r.si, r.val) ELSE Break(r.si)

ConvFloat ==
  /\ AtConversion({"f", "F", "g", "G", "e", "E"})
  /\ LET from == SkipWs(si)
         r    == ScanFloat(from)
     IN  IF r.any THEN Assign(from, r.si, r.val) ELSE Break(r.si)

(* A word: stored even when it is empty, counted only when something was   *)
(* stored; the scan goes on either way.                                    *)
ConvString ==
  /\ AtConversion({"s"})
  /\ LET from == SkipWs(si)
         to   == WordEnd(from)
         kept == Kept(SubSeq(str, from, to - 1), Directive.width)
     IN  /\ si' = to /\ fi' = Directive.next
         /\ convs' = IF to > from THEN convs + 1 ELSE convs
         /\ IF Directive.suppress
            THEN UNCHANGED <<args, count>>
            ELSE /\ VaArg([conv |-> "s", from |-> from, to |-> to, val |-> kept,
                           width |-> Directive.width, counted |-> kept # <<>>])
                 /\ count' = IF kept # <<>> THEN count + 1 ELSE count
  /\ UNCHANGED <<input, pc, ret>>

ConvChar ==
  /\ AtConversion({"c"})
  /\ IF At(str, si) = NUL THEN Break(si) ELSE Assign(si, si + 1, At(str, si))

(* Mutant of CountSet: an empty scanset does not stop the scan.            *)
CountSetGoesOn(kept) ==
  /\ count' = IF kept = <<>> THEN count ELSE count + 1
  /\ UNCHANGED pc

CountSet(kept) ==
  IF kept = <<>> THEN pc' = "break" /\ UNCHANGED count
  ELSE count' = count + 1 /\ UNCHANGED pc

(* A scanset: an empty one is stored but ends the scan, unless suppressed; *)
(* a set without its ] ends the scan before an argument is taken.          *)
ConvSet ==
  /\ AtConversion({"["})
  /\ LET neg  == At(fmt, Directive.next) = "^"
         ps   == IF neg THEN Directive.next + 1 ELSE Directive.next
         pe   == BracketEnd(IF At(fmt, ps) = "]" THEN ps + 1 ELSE ps)
         to   == SetEnd(si, ps, pe, neg)
         kept == Kept(SubSeq(str, si, to - 1), Directive.width)
     IN  IF At(fmt, pe) = NUL
         THEN /\ pc' = "break" /\ fi' = pe
              /\ UNCHANGED <<si, count, args, convs>>
         ELSE /\ si' = to /\ fi' = pe + 1
              /\ convs' = IF to > si THEN convs + 1 ELSE convs
              /\ IF Directive.suppress
                 THEN UNCHANGED <<args, count, pc>>
                 ELSE /\ VaArg([conv |-> "[", from |-> si, to |-> to, val |-> kept,
                                width |-> Directive.width, counted |-> kept # <<>>])
                      /\ CountSet(kept)
  /\ UNCHANGED <<input, ret>>

ConvPercent ==
  /\ AtConversion({"%"})
  /\ IF At(str, si) = "%" THEN Advance(si + 1, Directive.next) ELSE Break(si)

(* A conversion the code does not know is skipped.                         *)
ConvUnknown ==
  /\ pc = "scan" /\ At(fmt, fi) = "%"
  /\ Directive.conv \notin DOMAIN IntConv \cup
       {NUL, "f", "F", "g", "G", "e", "E", "s", "c", "[", "%"}
  /\ Advance(si, Directive.next)

Return ==
  /\ pc = "break" \/ (pc = "scan" /\ At(fmt, fi) = NUL)
  /\ pc' = "done"
  /\ ret' = IF count = 0 /\ At(str, si) = NUL THEN -1 ELSE count
  /\ UNCHANGED <<input, fi, si, count, args, convs, turns>>

Turn ==
  /\ \/ WhiteSpace \/ Literal \/ Truncated \/ ConvInt \/ ConvFloat \/ ConvString
     \/ ConvChar \/ ConvSet \/ ConvPercent \/ ConvUnknown
  /\ turns' = turns + 1

Next ==
  \/ Turn \/ Return
  \/ (pc = "done" /\ UNCHANGED vars)   \* the caller has its result

Spec == Init /\ [][Next]_vars

-----------------------------------------------------------------------------
(* What is stored, and where it came from.                                 *)
Text(a) == SubSeq(str, a.from, a.to - 1)

(* Neither position ever passes its terminator, however the format ends    *)
(* and whatever the bytes are that the unconditional & of the prefix and   *)
(* inf tests reads behind it (sscanf.c:95, 187, 196, 321-348, 457-462);    *)
(* and every turn of the loop but the last moves forward in the format, so *)
(* every call returns (sscanf.c:300-497).  With it, the variables' types.  *)
InBounds ==
  /\ si \in 1..Len(str) + 1 /\ fi \in 1..Len(fmt) + 1 /\ turns <= fi
  /\ count \in 0..Len(args) /\ convs \in Nat
  /\ pc \in {"scan", "break", "done"} /\ ret \in {-1} \cup 0..Len(args)

SumSeq(s) ==
  LET sum[k \in 0..Len(s)] == IF k = 0 THEN 0 ELSE sum[k - 1] + s[k]
  IN  sum[Len(s)]

(* The integer a consumed text denotes, by its place values.               *)
Denoted(t, conv) ==
  LET neg    == t[1] = "-"
      body   == IF t[1] \in {"-", "+"} THEN Tail(t) ELSE t
      hex    == Len(body) > 2 /\ body[1] = "0" /\ Lower(body[2]) = "x"
      base   == CASE conv \in {"x", "X"} \/ (conv = "i" /\ hex) -> 16
                  [] conv = "o" \/ (conv = "i" /\ ~hex /\ body[1] = "0") -> 8
                  [] OTHER -> 10
      ds     == IF base = 16 /\ hex THEN SubSeq(body, 3, Len(body)) ELSE body
      places == [k \in DOMAIN ds |-> DigitValue(ds[k]) * base ^ (Len(ds) - k)]
      sum    == SumSeq(places)
  IN  [base |-> base, val |-> IF neg THEN 0 - sum ELSE sum]

IntsExact ==
  \A k \in DOMAIN args : args[k].conv \in DOMAIN IntConv =>
    LET n == Denoted(Text(args[k]), args[k].conv)
    IN  args[k].val =
          IF IntConv[args[k].conv].sgn /\ n.base = 10
          THEN CASE n.val > LongMax -> LongMax
                 [] n.val < LongMin -> LongMin
                 [] OTHER           -> n.val
          ELSE Wrap(n.val)

FloatsExact ==
  \A k \in DOMAIN args :
    (args[k].conv \in {"f", "e", "g"} /\ args[k].val.kind = "num") =>
      LET v     == args[k].val
          t     == Text(args[k])
          upto(P(_)) == IF \E j \in DOMAIN t : P(t[j])
                        THEN CHOOSE j \in DOMAIN t : P(t[j]) /\ \A h \in 1..j - 1 : ~P(t[h])
                        ELSE Len(t) + 1
          e     == upto(LAMBDA c : Lower(c) = "e")
          dot   == upto(LAMBDA c : c = ".")
          point == IF dot < e THEN dot ELSE e
          ds(i, j) == SelectSeq(SubSeq(t, i, j), IsDecimal)
          whole == Number(ds(1, point - 1))
          all   == Number(ds(1, e - 1))
          fd    == Len(ds(point, e - 1))
          exp   == Number(ds(e, Len(t)))
          diff  == all * 10 ^ v.d - v.m * 10 ^ fd
      IN  whole <= LongMax =>
            /\ v.neg = (t[1] = "-")
            /\ v.e = IF e < Len(t) /\ t[e + 1] = "-" THEN 0 - exp ELSE exp
            /\ diff >= 0
            /\ diff * 10 ^ FracCap < 10 ^ (fd + v.d)
            /\ fd <= FracCap => diff = 0

(* What is stored is what the text consumed denotes.  An integer is        *)
(* clamped to the range of long when it was scanned as a signed decimal    *)
(* and taken modulo its width otherwise (sscanf.c:54-138); a double is cut *)
(* after FracCap fraction digits, and is exact up to there as long as its  *)
(* integer part fits a long (sscanf.c:218-272).                            *)
NumbersExact == IntsExact /\ FloatsExact

(* The destinations counted are the first ones passed, so the caller may   *)
(* use exactly the first count of them; each comes from a nonempty piece   *)
(* of the input, and the pieces follow each other (sscanf.c:350-487).  A   *)
(* width of 1 leaves %s no room for a character: it is not counted while   *)
(* the scan goes on.                                                       *)
CountedFirst ==
  /\ \A k \in DOMAIN args : args[k].counted => args[k].from < args[k].to
  /\ \A k \in DOMAIN args : k > 1 => args[k - 1].to <= args[k].from
  /\ (\A k \in DOMAIN args : args[k].width # 1) =>
        \A k \in DOMAIN args : args[k].counted <=> k <= count

(* A width bounds the bytes a %s or %[ writes, terminator included, and    *)
(* what is written is the beginning of the text consumed                   *)
(* (sscanf.c:423-429, 471-477).                                            *)
WidthBounds ==
  \A k \in DOMAIN args : args[k].conv \in {"s", "["} =>
    /\ IsPrefix(args[k].val, Text(args[k]))
    /\ args[k].width > 0 => Len(args[k].val) + 1 <= args[k].width
    /\ args[k].width = 0 => args[k].val = Text(args[k])

(* P2-D, sscanf.c:499: EOF means that the input ran out before any         *)
(* conversion.                                                             *)
EOFMeansNoConversion == ret = -1 => convs = 0
=============================================================================
