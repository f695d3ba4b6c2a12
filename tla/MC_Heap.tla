------------------------------ MODULE MC_Heap ------------------------------
(***************************************************************************)
(* The programs of MC_Layout, linked and run: each calls sbrk with small   *)
(* increments of both signs, one the kernel refuses and one that overflows.*)
(***************************************************************************)
EXTENDS MC_Layout, Heap

MCIncrements == {16, -8, 64, AddrMax}
=============================================================================
