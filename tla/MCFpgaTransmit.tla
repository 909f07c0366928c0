--------------------------- MODULE MCFpgaTransmit ---------------------------
(* One packet of up to three bits in bytes of two.                           *)
EXTENDS FpgaTransmit
=============================================================================
