------------------------------ MODULE MCClint -------------------------------
(* Lower halves of four values roll over after a few ticks, and the delay is *)
(* nearly as long as one round of them.                                      *)
EXTENDS Clint
=============================================================================
