--------------------------- MODULE MCAesBaseband ----------------------------
(* Three blocks and vectors of two bits, so that carries and the overflow of  *)
(* a counter fall into a text.                                              *)
EXTENDS AesBaseband
=============================================================================
