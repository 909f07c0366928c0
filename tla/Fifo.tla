-------------------------------- MODULE Fifo --------------------------------
(***************************************************************************)
(* fifo.v: the synchronous ring buffer between the UART and the TileLink    *)
(* side of the FPGA adapter, one step per clock cycle.  It keeps each       *)
(* pointer and, registered beside it, the pointer advanced by one, which    *)
(* the next full or empty flag is computed from.                            *)
(*                                                                          *)
(* The code wires it with DEPTH 64; its pointers are $clog2(DEPTH) bits     *)
(* wide, so for a power of two they wrap at DEPTH.                          *)
(*                                                                          *)
(* The reader is that of tx_fifo in traffic_adapter.v: rd_en only while the *)
(* FIFO is not empty.  The writer may write at any time.                    *)
(***************************************************************************)
EXTENDS FifoSize, Sequences

CONSTANT Data  \* the values of an element

VARIABLES read_ptr, write_ptr, read_adv_ptr, write_adv_ptr, buffer, full, empty,
          out      \* what the reader latched from dout in its last read

ptrs == <<read_ptr, write_ptr, read_adv_ptr, write_adv_ptr>>
vars == <<ptrs, buffer, full, empty, out>>

Slot == 0 .. DEPTH - 1

(* A sum truncated to the width of a pointer; sums stay below 2 * DEPTH.    *)
Wrap(n) == IF n >= DEPTH THEN n - DEPTH ELSE n

Init == /\ read_ptr = 0 /\ write_ptr = 0
        /\ read_adv_ptr = 1 /\ write_adv_ptr = 1
        /\ empty = TRUE /\ full = FALSE
        /\ buffer \in [Slot -> Data] /\ out \in Data

Reset == /\ read_ptr' = 0 /\ write_ptr' = 0
         /\ read_adv_ptr' = 1 /\ write_adv_ptr' = 1
         /\ empty' = TRUE /\ full' = FALSE
         /\ UNCHANGED <<buffer, out>>

(* The flags a write or a read leaves behind.                               *)
FullAfterWrite_Early == write_adv_ptr = Wrap(read_ptr + 1)
FullAfterWrite == write_adv_ptr = read_ptr
EmptyAfterRead == read_adv_ptr = write_ptr

AdvanceWrite(d) == /\ buffer' = [buffer EXCEPT ![write_ptr] = d]
                   /\ write_ptr' = Wrap(write_ptr + 1)
                   /\ write_adv_ptr' = Wrap(write_ptr + 2)

AdvanceRead == /\ read_ptr' = Wrap(read_ptr + 1)
               /\ read_adv_ptr' = Wrap(read_ptr + 2)
               /\ out' = buffer[read_ptr]

(* wr_en and not rd_en; a full FIFO ignores it.                             *)
Write(d) == /\ ~full
            /\ AdvanceWrite(d)
            /\ full' = FullAfterWrite
            /\ empty' = FALSE
            /\ UNCHANGED <<read_ptr, read_adv_ptr, out>>

(* rd_en and not wr_en.                                                     *)
Read == /\ ~empty
        /\ AdvanceRead
        /\ empty' = EmptyAfterRead
        /\ full' = FALSE
        /\ UNCHANGED <<write_ptr, write_adv_ptr, buffer>>

(* A read that is lost to a write in the same cycle.                        *)
WriteRead_Kept(d) == /\ ~empty
                     /\ AdvanceWrite(d) /\ out' = buffer[read_ptr]
                     /\ UNCHANGED <<read_ptr, read_adv_ptr, full, empty>>

(* wr_en and rd_en: both sides advance and the flags stay.                  *)
WriteRead(d) == /\ ~empty
                /\ AdvanceWrite(d) /\ AdvanceRead
                /\ UNCHANGED <<full, empty>>

Next == \/ Reset
        \/ \E d \in Data : Write(d)
        \/ Read
        \/ \E d \in Data : WriteRead(d)

(* A cycle with neither, or with a write into a full FIFO, changes nothing. *)
Spec == Init /\ [][Next]_vars

-----------------------------------------------------------------------------
TypeOK == /\ read_ptr \in Slot /\ write_ptr \in Slot
          /\ read_adv_ptr \in Slot /\ write_adv_ptr \in Slot
          /\ buffer \in [Slot -> Data]
          /\ full \in BOOLEAN /\ empty \in BOOLEAN
          /\ out \in Data

(* The flags tell the two states with equal pointers apart, and are raised  *)
(* in no other: a flag wrong by one position loses or invents DEPTH bytes.  *)
FlagsExact == /\ ~(full /\ empty)
              /\ (full \/ empty) <=> read_ptr = write_ptr

(* The registered successors never lag behind their pointers, whatever mix  *)
(* of writes, reads and simultaneous ones came before.                      *)
AdvancedInStep == /\ read_adv_ptr = Wrap(read_ptr + 1)
                  /\ write_adv_ptr = Wrap(write_ptr + 1)

FifoInv == TypeOK /\ FlagsExact /\ AdvancedInStep

(* The elements in the ring, oldest first.                                  *)
Count == IF full THEN DEPTH ELSE Wrap(write_ptr + DEPTH - read_ptr)
Contents == [i \in 1 .. Count |-> buffer[Wrap(read_ptr + i - 1)]]

Queue == INSTANCE ByteQueue WITH queue <- Contents

(* The ring is a queue: bytes leave in the order in which they came, none    *)
(* is lost, overwritten, repeated or invented, at any fill level.           *)
ImplementsQueue == Queue!QSpec
=============================================================================
