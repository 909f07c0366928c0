---------------------------- MODULE FpgaReceive ----------------------------
(***************************************************************************)
(* The receiving half of the FPGA traffic adapter: tl_receiver.v collects   *)
(* the chip's serial bits into bytes, adapter_controller.v writes them to   *)
(* tx_fifo, traffic_adapter.v hands them to uart_transmitter.v.             *)
(*                                                                          *)
(* Everything is clocked by sysclk: one step is one cycle of all registers  *)
(* at once, each computed from the values before the cycle.  tx_fifo is an  *)
(* instance of Fifo.  Past the controller a byte is its number among the    *)
(* accepted ones, 0 for one that never was accepted, so that the properties *)
(* can tell bytes apart.  The UART's symbols are left out: a frame takes    *)
(* some number of cycles.                                                   *)
(*                                                                          *)
(* The reset of top.v is one cycle long (button_parser.v ends in an edge    *)
(* detector), and not every register has a reset value.                     *)
(***************************************************************************)
EXTENDS FifoSize, Sequences

CONSTANTS BYTE,     \* bits of a byte
          MaxBits   \* bound of the model: bits the chip sends after a reset

ASSUME ByteAssumption  == BYTE \in Nat /\ BYTE >= 2
ASSUME MaxAssumption   == MaxBits \in Nat

Bit  == {0, 1}
None == 2     \* a cycle without a TL_CLK edge, or with TL_IN_VALID low at it
Byte == [0 .. BYTE - 1 -> Bit]
Zero == [i \in 0 .. BYTE - 1 |-> 0]
Item == 0 .. MaxBits
NoItem == 0

VARIABLES
  state, tl_byte_ctr, tl_rx_byte, tl_rx_valid,      \* tl_receiver.v
  tl_rx_ready, tx_fifo_wr_en, tx_fifo_input,        \* adapter_controller.v
  read_ptr, write_ptr, read_adv_ptr, write_adv_ptr, buffer, full, empty, out, \* tx_fifo
  uart_tx_data_in_valid,                            \* traffic_adapter.v
  transmit_phase, data_in_ready, tx_buffer,         \* uart_transmitter.v
  edge_was,    \* whether the cycle before had a bit: TL_CLK edges are apart
  taken,       \* history: bits taken since the reset
  chip_byte,   \* history: the byte the chip is sending, or has just sent
  accepted,    \* history: how many bytes the controller took since the reset
  echo         \* history: the numbers of the bytes that UART frames were started with

receiver   == <<state, tl_byte_ctr, tl_rx_byte, tl_rx_valid>>
controller == <<tl_rx_ready, tx_fifo_wr_en, tx_fifo_input>>
uart       == <<transmit_phase, data_in_ready, tx_buffer>>
tx_fifo    == <<read_ptr, write_ptr, read_adv_ptr, write_adv_ptr, buffer, full, empty, out>>
vars == <<receiver, controller, tx_fifo, uart_tx_data_in_valid, uart, edge_was, taken,
          chip_byte, accepted, echo>>

TxFifo == INSTANCE Fifo WITH Data <- Item

-----------------------------------------------------------------------------
(* Just after a reset that found the adapter idle.                          *)
Init == /\ state = "IDLE" /\ tl_byte_ctr = 0 /\ tl_rx_byte = Zero /\ tl_rx_valid = FALSE
        /\ tl_rx_ready = FALSE /\ tx_fifo_wr_en = FALSE /\ tx_fifo_input = NoItem
        /\ buffer = [i \in 0 .. DEPTH - 1 |-> NoItem] /\ out = NoItem /\ TxFifo!Init
        /\ uart_tx_data_in_valid = FALSE
        /\ transmit_phase = FALSE /\ data_in_ready = TRUE /\ tx_buffer = NoItem
        /\ edge_was = FALSE /\ taken = 0 /\ chip_byte = Zero /\ accepted = 0 /\ echo = <<>>

(* The counter of the bits of a byte, and one that is not taken back to 0.   *)
NextCtr_NoWrap == tl_byte_ctr + 1
NextCtr        == IF tl_byte_ctr = BYTE - 1 THEN 0 ELSE tl_byte_ctr + 1

(* Whether the bit being taken is the last of its byte, and the test one     *)
(* bit early.                                                               *)
LastBit_Early == tl_byte_ctr = BYTE - 2
LastBit       == tl_byte_ctr = BYTE - 1

(* tl_receiver: the bits of a byte are or-ed into tl_rx_byte, which is not   *)
(* cleared for the next byte.                                               *)
ReceiveFirst(in) ==
    /\ state = "IDLE"
    /\ tl_rx_valid' = FALSE
    /\ IF in = None
         THEN UNCHANGED state /\ tl_byte_ctr' = 0 /\ tl_rx_byte' = Zero
         ELSE state' = "RECEIVING" /\ tl_byte_ctr' = 1 /\ tl_rx_byte' = [Zero EXCEPT ![0] = in]

ReceiveNext(in) ==
    /\ state = "RECEIVING"
    /\ UNCHANGED state
    /\ tl_rx_valid' = (in # None /\ LastBit)
    /\ IF in = None
         THEN UNCHANGED <<tl_byte_ctr, tl_rx_byte>>
         ELSE /\ tl_rx_byte' = [tl_rx_byte EXCEPT ![tl_byte_ctr] = IF in = 1 THEN 1 ELSE @]
              /\ tl_byte_ctr' = NextCtr

(* The ready signal of the controller is a cycle behind the FIFO; a ready    *)
(* signal that does not look at it.                                         *)
RxReady_Always == TRUE
RxReady        == ~full

(* adapter_controller, receiver side: a byte that comes while tl_rx_ready    *)
(* is low is dropped.                                                       *)
Control ==
    /\ tl_rx_ready' = RxReady
    /\ tx_fifo_wr_en' = (tl_rx_valid /\ tl_rx_ready)
    /\ IF tl_rx_valid /\ tl_rx_ready
         THEN /\ tx_fifo_input' = accepted + 1
              /\ accepted' = accepted + 1
         ELSE UNCHANGED <<tx_fifo_input, accepted>>

(* tx_fifo_rd_en, combinational, and dout, which is 0 without it.            *)
ReadEnable == ~empty /\ data_in_ready
Dout == IF ReadEnable THEN buffer[read_ptr] ELSE NoItem

FifoCycle == CASE tx_fifo_wr_en /\ ReadEnable -> TxFifo!WriteRead(tx_fifo_input)
               [] tx_fifo_wr_en /\ ~ReadEnable /\ ~full -> TxFifo!Write(tx_fifo_input)
               [] ~tx_fifo_wr_en /\ ReadEnable -> TxFifo!Read
               [] OTHER -> UNCHANGED tx_fifo

(* data_in_ready when a frame is over, and a stop bit that forgets it.       *)
ReadyAfterStop_Lost == FALSE
ReadyAfterStop      == TRUE

(* uart_transmitter: takes data_in in the cycle after the one that popped    *)
(* it; "over" is the cycle after the stop bit.                              *)
UartStart == ~transmit_phase /\ uart_tx_data_in_valid
UartCycle(over) ==
    CASE UartStart ->
           /\ data_in_ready' = FALSE /\ transmit_phase' = TRUE /\ tx_buffer' = Dout
           /\ echo' = Append(echo, Dout)
      [] transmit_phase /\ over ->
           /\ data_in_ready' = ReadyAfterStop
           /\ transmit_phase' = FALSE /\ tx_buffer' = NoItem
           /\ UNCHANGED echo
      [] OTHER -> UNCHANGED <<uart, echo>>

(* One cycle of sysclk in which the chip may give the bit "in".              *)
Cycle(in, over) ==
    /\ in # None => ~edge_was /\ taken < MaxBits
    /\ ReceiveFirst(in) \/ ReceiveNext(in)
    /\ Control
    /\ FifoCycle
    /\ uart_tx_data_in_valid' = ReadEnable
    /\ UartCycle(over)
    /\ edge_was' = (in # None)
    /\ IF in = None THEN UNCHANGED <<taken, chip_byte>>
       ELSE /\ taken' = taken + 1
            /\ chip_byte' = [IF taken % BYTE = 0 THEN Zero ELSE chip_byte
                               EXCEPT ![taken % BYTE] = in]

(* tl_rx_ready after a reset, and the same register without a reset value.   *)
ReadyInReset_Kept == tl_rx_ready
ReadyInReset      == FALSE

(* A cycle with reset high.  tl_rx_valid has no reset value and keeps its    *)
(* own; uart_tx_data_in_valid has none and follows the FIFO as it was.      *)
Reset ==
    /\ state' = "IDLE" /\ tl_byte_ctr' = 0 /\ tl_rx_byte' = Zero /\ UNCHANGED tl_rx_valid
    /\ tl_rx_ready' = ReadyInReset /\ tx_fifo_wr_en' = FALSE /\ tx_fifo_input' = NoItem
    /\ TxFifo!Reset
    /\ uart_tx_data_in_valid' = ReadEnable
    /\ transmit_phase' = FALSE /\ data_in_ready' = TRUE /\ tx_buffer' = NoItem
    /\ edge_was' = FALSE /\ taken' = 0 /\ chip_byte' = Zero /\ accepted' = 0 /\ echo' = <<>>

Next == \/ \E in \in Bit \cup {None}, over \in BOOLEAN : Cycle(in, over)
        \/ Reset

(* The clock runs and no UART frame takes for ever; the chip and the user    *)
(* are free.                                                                *)
Spec == Init /\ [][Next]_vars /\ WF_vars(\E in \in Bit \cup {None} : Cycle(in, TRUE))

-----------------------------------------------------------------------------
TypeOK ==
    /\ state \in {"IDLE", "RECEIVING"} /\ tl_byte_ctr \in 0 .. BYTE - 1
    /\ tl_rx_byte \in Byte /\ tl_rx_valid \in BOOLEAN
    /\ tl_rx_ready \in BOOLEAN /\ tx_fifo_wr_en \in BOOLEAN /\ tx_fifo_input \in Item
    /\ uart_tx_data_in_valid \in BOOLEAN
    /\ transmit_phase \in BOOLEAN /\ data_in_ready \in BOOLEAN /\ tx_buffer \in Item
    /\ edge_was \in BOOLEAN /\ taken \in 0 .. MaxBits /\ chip_byte \in Byte
    /\ accepted \in 0 .. MaxBits /\ echo \in Seq(0 .. MaxBits)

(* A byte the controller took has a slot: tl_rx_ready is a cycle old when it *)
(* is looked at and the write is another cycle later, yet the FIFO never    *)
(* drops a write, because bytes are at least two TL_CLK edges apart.        *)
AcceptedFits == tx_fifo_wr_en => ~full

(* A byte is offered only when the chip has finished it, never in the middle  *)
(* of the next one, and carries at least the ones of the byte the chip sent. *)
BytesFramed ==
    tl_rx_valid /\ state = "RECEIVING" =>
        /\ taken > 0 /\ taken % BYTE = 0 /\ tl_byte_ctr = 0
        /\ \A i \in 0 .. BYTE - 1 : chip_byte[i] = 1 => tl_rx_byte[i] = 1

(* Only bytes that the chip finished after the reset are taken, though the   *)
(* reset leaves tl_rx_valid as it finds it.                                 *)
NothingFromBeforeReset == accepted <= taken \div BYTE

(* What the UART sends of the chip's bytes, it sends in their order and at   *)
(* most once.                                                               *)
NoByteTwice == \A i, j \in 1 .. Len(echo) :
                 i < j /\ echo[i] # 0 /\ echo[j] # 0 => echo[i] < echo[j]

(* The FIFO is always emptied again: the handshake with the UART does not    *)
(* lock up, whatever the cycle in which bytes and ends of frames come.      *)
Drained == ~empty ~> empty

(* Under this traffic the ring of fifo.v is a queue: no byte is lost,        *)
(* repeated or overtaken in it, at any fill level.                          *)
ImplementsQueue == TxFifo!ImplementsQueue

(* "UART should make a copy of din for himself": the UART sends the bytes    *)
(* that were taken out of the FIFO for it, each of them.                    *)
EveryByteSent == \A i \in 1 .. Len(echo) : echo[i] = i
=============================================================================
