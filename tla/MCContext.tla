----------------------------- MODULE MCContext ------------------------------
(* Context with three contexts: a creator and two that it or they create.   *)
EXTENDS Context
=============================================================================
