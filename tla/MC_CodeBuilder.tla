--------------------------- MODULE MC_CodeBuilder ---------------------------
(***************************************************************************)
(* Requests for model checking CodeBuilder: loads and stores that the      *)
(* peephole can and cannot pair up, immediates of one and two words, a     *)
(* pool of two, and one label.                                             *)
(***************************************************************************)
EXTENDS CodeBuilder

Str(r, s) == [op |-> "str", rt |-> r, off |-> s]
Ldr(r, s) == [op |-> "ldr", rt |-> r, off |-> s]
Mov(r, v) == [op |-> "movimm", rt |-> r, val |-> v]

MCPool == <<"f", "g">>

MCRequests ==
  {Str(0, 16), Str(1, 16), Ldr(0, 16), Ldr(1, 16), Ldr(0, 24), Mov(0, 9), Mov(0, 0),
   [op |-> "ldrglobal", name |-> "g"],
   [op |-> "b", label |-> "L"], [op |-> "bcond", label |-> "L"],
   [op |-> "adr", rt |-> 1, label |-> "L"]}
=============================================================================
