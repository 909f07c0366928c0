------------------------------ MODULE FifoSize ------------------------------
(* The size of the FIFOs of traffic_adapter.v, shared by fifo.v and its users. *)
EXTENDS Naturals

CONSTANT DEPTH  \* number of slots; 64 in the code

ASSUME DepthAssumption == DEPTH \in Nat /\ DEPTH >= 2
=============================================================================
