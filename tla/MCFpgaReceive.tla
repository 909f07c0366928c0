--------------------------- MODULE MCFpgaReceive ---------------------------
(* Two-bit bytes, four slots and up to seven bytes after a reset: the FIFO   *)
(* fills, refuses and drains while the chip goes on.                        *)
EXTENDS FpgaReceive
=============================================================================
