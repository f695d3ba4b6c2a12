-------------------------- MODULE MC_MathBuiltins --------------------------
(***************************************************************************)
(* Doubles of 9 bits, floats of 6 and longs of 7: subnormals, halves,      *)
(* odd integers beyond 2^m and magnitudes beyond a long all occur.         *)
(***************************************************************************)
EXTENDS MathBuiltins

MCDouble == [e |-> 4, m |-> 4]
MCFloat  == [e |-> 3, m |-> 2]
=============================================================================
