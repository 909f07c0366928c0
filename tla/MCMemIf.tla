------------------------------ MODULE MCMemIf -------------------------------
(***************************************************************************)
(* Four words of three bytes, two words in a chunk, and a command may still *)
(* be on its way when the next call starts.  HTIF writes the first three    *)
(* words, the target's program one byte of the fourth.                      *)
(***************************************************************************)
EXTENDS MemIf

AllBytes == 0 .. 11
ThreeWords == 0 .. 8

(* Inside a word at every offset, whole words, across one boundary and two,  *)
(* one chunk, and a chunk and a word.                                        *)
SomeRanges == {<<1, 1>>, <<0, 3>>, <<2, 2>>, <<1, 4>>, <<2, 5>>, <<0, 6>>, <<0, 9>>, <<1, 8>>, <<10, 1>>}
=============================================================================
