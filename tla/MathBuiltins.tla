---------------------------- MODULE MathBuiltins ----------------------------
(***************************************************************************)
(* The floating-point helpers of src/libc/mathbuiltins.c: sign, NaN and    *)
(* infinity tests on the bits of a double, their float and long double     *)
(* variants, and round().                                                  *)
(*                                                                         *)
(* A double is its bit pattern, an integer of 1 + e + m bits, with the     *)
(* widths e and m as parameters (11 and 52 in the code, 8 and 23 for a     *)
(* float).  Magnitudes are counted in units of the smallest double, so     *)
(* sums are exact before they are rounded to nearest, ties to even.        *)
(***************************************************************************)
EXTENDS Integers

CONSTANTS
  DoubleFmt, FloatFmt,   \* [e |-> exponent bits, m |-> mantissa bits]
  LongMax                \* 2^63 - 1

ASSUME MathAssumption ==
  /\ DoubleFmt \in [e : Nat \ {0, 1}, m : Nat \ {0}]
  /\ FloatFmt \in [e : Nat \ {0, 1}, m : Nat \ {0}]
  /\ FloatFmt.e < DoubleFmt.e /\ FloatFmt.m < DoubleFmt.m
  /\ LongMax \in Nat

VARIABLES
  arg,   \* the argument: its type ("double", "float", "long double") and bits
  res    \* results so far: name -> value

vars == <<arg, res>>

-----------------------------------------------------------------------------
(* Bit patterns.                                                           *)
Patterns(f) == 0..2 ^ (1 + f.e + f.m) - 1
SignOf(f, b) == b \div 2 ^ (f.e + f.m)
ExpOf(f, b)  == (b \div 2 ^ f.m) % 2 ^ f.e
ManOf(f, b)  == b % 2 ^ f.m
Bias(f)      == 2 ^ (f.e - 1) - 1

(* |x| in units of 2^-k; of infinity, the value the next binade starts at. *)
Magnitude(f, b, k) ==
  LET x == IF ExpOf(f, b) = 0 THEN 1 ELSE ExpOf(f, b)
      n == IF ExpOf(f, b) = 0 THEN ManOf(f, b) ELSE 2 ^ f.m + ManOf(f, b)
  IN  n * 2 ^ (k + x - Bias(f) - f.m)

D == DoubleFmt
Unit == Bias(D) - 1 + D.m           \* 2^-Unit is the smallest double
One  == 2 ^ Unit
Half == One \div 2
Mag(b) == Magnitude(D, b, Unit)
SignMask == 2 ^ (D.e + D.m)
InfBits  == (2 ^ D.e - 1) * 2 ^ D.m

(* The double nearest to v units, ties to the even mantissa.               *)
Nearest(v) ==
  LET lo == CHOOSE b \in 0..InfBits - 1 : Mag(b) <= v /\ (v < Mag(b + 1) \/ b = InfBits - 1)
      below == v - Mag(lo)
      above == Mag(lo + 1) - v
  IN  IF below < above \/ (below = above /\ lo % 2 = 0) THEN lo ELSE lo + 1

(* Mutant of Widen: an exponent of all ones is not special.                *)
WidenFinite(b) ==
  SignOf(FloatFmt, b) * SignMask + Nearest(Magnitude(FloatFmt, b, Unit))

(* FCVT: a float as a double; every float is one exactly.                  *)
Widen(b) ==
  LET sign == SignOf(FloatFmt, b) * SignMask
      man  == ManOf(FloatFmt, b) * 2 ^ (D.m - FloatFmt.m)
  IN  IF ExpOf(FloatFmt, b) = 2 ^ FloatFmt.e - 1 THEN sign + InfBits + man
      ELSE sign + Nearest(Magnitude(FloatFmt, b, Unit))

-----------------------------------------------------------------------------
(* The functions on a double.                                              *)
BuiltinSignbit(b) == b \div 2 ^ (D.e + D.m)

Isnand(b) ==
  IF (b \div 2 ^ D.m) % 2 ^ D.e = 2 ^ D.e - 1 /\ b % 2 ^ D.m # 0 THEN 1 ELSE 0

Isinfd(b) ==
  IF (b \div 2 ^ D.m) % 2 ^ D.e = 2 ^ D.e - 1 /\ b % 2 ^ D.m = 0
  THEN IF b \div 2 ^ (D.e + D.m) # 0 THEN -1 ELSE 1
  ELSE 0

(* (long)x truncates and saturates (FCVTZS); (double)i rounds.             *)
TruncToLong(v, max) == IF v \div One > max THEN max ELSE v \div One

(* Mutant of Round: nothing is added before truncating.                    *)
RoundDown(b) ==
  IF Isnand(b) # 0 \/ Isinfd(b) # 0 THEN b
  ELSE Nearest(TruncToLong(Mag(b), LongMax) * One) + SignOf(D, b) * SignMask

Round(b) ==
  LET positive == SignOf(D, b) = 0 \/ Mag(b) = 0
      sum == Mag(Nearest(Mag(b) + Half))
      i   == TruncToLong(sum, IF positive THEN LongMax ELSE LongMax + 1)
  IN  IF Isnand(b) # 0 \/ Isinfd(b) # 0 THEN b
      ELSE Nearest(i * One) + (IF ~positive /\ i # 0 THEN SignMask ELSE 0)

-----------------------------------------------------------------------------
(* The float variants promote their argument, the long double ones pass it *)
(* on: long double is double.                                              *)
Promoted == IF arg.type = "float" THEN Widen(arg.bits) ELSE arg.bits

Store(name, v) ==
  /\ name \notin DOMAIN res
  /\ res' = [n \in DOMAIN res \cup {name} |-> IF n = name THEN v ELSE res[n]]
  /\ UNCHANGED arg

CallSignbit == Store("signbit", BuiltinSignbit(Promoted))
CallIsnan   == Store("isnan", Isnand(Promoted))
CallIsinf   == Store("isinf", Isinfd(Promoted))
CallRound   == arg.type = "double" /\ Store("round", Round(arg.bits))

Init ==
  /\ arg \in [type : {"double", "long double"}, bits : Patterns(D)]
               \cup [type : {"float"}, bits : Patterns(FloatFmt)]
  /\ res = <<>>

Next == CallSignbit \/ CallIsnan \/ CallIsinf \/ CallRound

Spec == Init /\ [][Next]_vars

-----------------------------------------------------------------------------
(* The tests agree with the class and the sign of the argument in its own  *)
(* format, and so with each other: the promotion of a float keeps the sign *)
(* of a NaN and of zero and turns no subnormal into anything else          *)
(* (mathbuiltins.c:18-86).                                                 *)
Classified ==
  LET f    == IF arg.type = "float" THEN FloatFmt ELSE D
      inf0 == (2 ^ f.e - 1) * 2 ^ f.m    \* the pattern of +infinity
      sign == IF arg.bits >= 2 ^ (f.e + f.m) THEN 1 ELSE 0
      abs  == arg.bits - sign * 2 ^ (f.e + f.m)
      nan  == abs > inf0
      inf  == abs = inf0
  IN  /\ "signbit" \in DOMAIN res => res["signbit"] = sign
      /\ "isnan" \in DOMAIN res => (res["isnan"] = 1) = nan
      /\ "isinf" \in DOMAIN res => res["isinf"] = CASE ~inf -> 0 [] sign = 1 -> -1 [] OTHER -> 1

(* round() gives the nearest integer, halves away from zero, for every     *)
(* magnitude below 2^m that a long holds, except for the double just below *)
(* 0.5, whose sum with 0.5 rounds up to 1 (mathbuiltins.c:90-103).         *)
RoundNearest ==
  "round" \in DOMAIN res =>
    LET x == arg.bits
        r == res["round"]
        v == Mag(x)
    IN  CASE ExpOf(D, x) = 2 ^ D.e - 1 -> r = x
          [] /\ v < 2 ^ D.m * One /\ v \div One < LongMax
             /\ v # Mag(Nearest(Half) - 1) ->
               /\ Mag(r) = ((v + Half) \div One) * One
               /\ Mag(r) > 0 => SignOf(D, r) = SignOf(D, x)
          [] OTHER -> TRUE
=============================================================================
