----------------------------- MODULE ByteStream -----------------------------
(***************************************************************************)
(* What a caller of the output functions of src/libc relies on: each call  *)
(* has a text, the texts reach the file descriptor one after the other and *)
(* in order, and bytes are missing only where the kernel took fewer than   *)
(* it was given (which the callers in stdio.c and printf.c do not notice). *)
(***************************************************************************)
EXTENDS Naturals, Sequences

VARIABLES
  todo,    \* what is left of the current call's text
  sent,    \* what the file descriptor has accepted
  losses   \* writes that were cut short

streamVars == <<todo, sent, losses>>

StreamInit == todo = <<>> /\ sent = <<>> /\ losses = 0

(* A call starts only when nothing of an earlier text is left.             *)
Begin ==
  /\ todo = <<>>
  /\ todo' \in Seq(0..255)
  /\ UNCHANGED <<sent, losses>>

(* The next m bytes are given to the descriptor, which accepts k of them.  *)
Give(m, k) ==
  /\ sent' = sent \o SubSeq(todo, 1, k)
  /\ todo' = SubSeq(todo, m + 1, Len(todo))
  /\ losses' = IF k < m THEN losses + 1 ELSE losses

GiveSome == \E m \in 1..Len(todo) : \E k \in 0..m : Give(m, k)

StreamSpec ==
  StreamInit /\ [][Begin \/ GiveSome]_streamVars /\ WF_streamVars(GiveSome)
=============================================================================
