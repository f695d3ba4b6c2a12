------------------------------ MODULE MC_Frame ------------------------------
(***************************************************************************)
(* Calls for model checking Frame: every short list of parameters, the     *)
(* lists that just fill the registers, and bodies with each kind of local. *)
(***************************************************************************)
EXTENDS Frame

Int64     == [class |-> "int", bytes |-> 8]
Double    == [class |-> "fp", bytes |-> 8]
Struct(b) == [class |-> "struct", bytes |-> b]
Local(kd, n, b, a) == [kind |-> kd, n |-> n, bytes |-> b, align |-> a]

Call(ps, var, ptr, ex, ret, ls, t) ==
  [params |-> ps, variadic |-> var, ptr |-> ptr, extra |-> ex, ret |-> ret,
   retFP |-> FALSE, locals |-> ls, temps |-> t]

Classes == {Int64, Double, Struct(4), Struct(12), Struct(24)}
Lists   == {<<>>} \cup {<<a>> : a \in Classes} \cup {<<a, b>> : a, b \in Classes}
             \cup {<<a, b, c>> : a, b, c \in Classes}
Many(n, p) == [i \in 1..n |-> p]

(* The lists that fill the registers: seven integers and one more of each  *)
(* class, nine of the same.                                                *)
FullLists == {Many(6, Int64) \o <<p, q>> : p, q \in Classes}
               \cup {Many(9, Int64), Many(9, Double), Many(5, Struct(12)) \o <<Struct(24)>>}

Bodies == {<<>>, <<Local("scalar", 1, 8, 0), Local("longDouble", 1, 16, 16), Local("chars", 5, 1, 0)>>,
           <<Local("array", 3, 8, 32), Local("struct", 1, 12, 0)>>,
           <<Local("vla", 3, 8, 0), Local("scalar", 1, 8, 0), Local("alloca", 8, 1, 0)>>}

FixedCalls ==
  {[Call(ps, FALSE, ptr, <<>>, 0, <<>>, 1) EXCEPT !.retFP = fp8] :
     ps \in Lists \cup FullLists, ptr, fp8 \in BOOLEAN}
    \cup {Call(ps, FALSE, ptr, <<>>, ret, ls, t) :
            ps \in {<<>>, <<Int64, Struct(24)>>}, ptr \in BOOLEAN, ret \in {0, 8, 16, 24},
            ls \in Bodies, t \in {0, 3}}

VariadicCalls ==
  {Call(ps, TRUE, ptr, ex, 0, ls, 1) :
     ps \in {<<a>> : a \in Classes} \cup {<<a, b>> : a, b \in Classes} \cup {Many(6, Int64)},
     ptr \in BOOLEAN, ex \in {<<>>, <<Int64, Double>>, <<Int64, Int64, Int64>>},
     ls \in {<<>>, <<Local("array", 2, 8, 0)>>}}

(* Frames that are not regular: an array of structs next to a VLA, and one *)
(* that reaches past 4096 bytes.                                           *)
IrregularCalls ==
  {Call(<<Int64>>, FALSE, FALSE, <<>>, 0, ls, 1) :
     ls \in {<<Local("structArray", 2, 24, 0), Local("vla", 2, 8, 0)>>,
            <<Local("array", 510, 8, 0), Local("struct", 1, 12, 0)>>}}

MCCalls == FixedCalls \cup VariadicCalls \cup IrregularCalls

(* Variadic functions with a floating-point parameter or a VLA.            *)
VaStartCalls ==
  {Call(ps, TRUE, FALSE, <<Int64>>, 0, ls, 0) :
     ps \in {<<Int64, Double>>, <<Double, Int64>>, <<Int64>>}, ls \in Bodies}
=============================================================================
