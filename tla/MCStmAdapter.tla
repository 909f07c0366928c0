---------------------------- MODULE MCStmAdapter ----------------------------
(***************************************************************************)
(* Small instances of StmAdapter: one or two words of two half values.  The *)
(* addresses and halves are apart from each other and from the opcodes 0, 1 *)
(* and 4, so that a field in the wrong place shows.                         *)
(***************************************************************************)
EXTENDS StmAdapter

OneAddr  == {16}
TwoAddrs == {16, 20}
TwoHalves == {0, 7}
=============================================================================
