------------------------------ MODULE ByteQueue ------------------------------
(***************************************************************************)
(* What a FIFO promises: a queue of at most DEPTH elements.  In one clock   *)
(* cycle it takes an element, gives one, or both; a write into a full queue *)
(* is refused unless an element leaves in the same cycle.                   *)
(***************************************************************************)
EXTENDS Naturals, Sequences

CONSTANTS DEPTH, Data

VARIABLES queue,  \* the elements, oldest first
          out     \* what the last read returned

QInit == queue = <<>> /\ out \in Data

QWrite == /\ Len(queue) < DEPTH
          /\ \E d \in Data : queue' = Append(queue, d)
          /\ out' = out

QRead == /\ queue # <<>>
         /\ queue' = Tail(queue) /\ out' = Head(queue)

QWriteRead == /\ queue # <<>>
              /\ \E d \in Data : queue' = Append(Tail(queue), d)
              /\ out' = Head(queue)

QReset == queue' = <<>> /\ out' = out

QNext == QWrite \/ QRead \/ QWriteRead \/ QReset

QSpec == QInit /\ [][QNext]_<<queue, out>>
=============================================================================
