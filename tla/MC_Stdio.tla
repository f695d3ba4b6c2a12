------------------------------ MODULE MC_Stdio ------------------------------
(***************************************************************************)
(* Instances of Stdio: LongMax = 127 and a buffer of five bytes, which is  *)
(* what -127 and its newline need.                                         *)
(***************************************************************************)
EXTENDS Stdio

(* The most negative long is left out of Ints: 0 - x overflows for it.     *)
MCInts    == {-127, -10, 0, 7, 100}
MCChars   == {65, 65 + 256}
MCStrings == {<<>>, <<49, 50>>}
MCFormats == {<<10>>, <<97, 10, 98, 10>>, <<49, 50, 51, 52, 10>>}
MCSizes   == {-1, 0, 1, 3, 6}

(* Texts that do not end in a newline.                                     *)
OpenFormats == {<<97>>, <<98, 10>>}
=============================================================================
