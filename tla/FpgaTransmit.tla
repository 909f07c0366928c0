---------------------------- MODULE FpgaTransmit ----------------------------
(***************************************************************************)
(* The sending half of the FPGA traffic adapter: bytes from uart_receiver.v  *)
(* go through rx_fifo and the transmitter side of adapter_controller.v to    *)
(* tl_transmitter.v, which shifts them out to the chip.  The first byte of a *)
(* packet is its length in bits.                                            *)
(*                                                                          *)
(* As in FpgaReceive one step is one cycle of sysclk, the UART's symbols are *)
(* left out, and the FIFO is an instance of Fifo.  Unlike tx_fifo, rx_fifo   *)
(* may be read while it is empty.                                           *)
(***************************************************************************)
EXTENDS FifoSize, Sequences

CONSTANT BYTE     \* bits of a byte, at least two

Byte == 0 .. 2^BYTE - 1
BitOf(b, i) == (b \div 2^i) % 2

(* A packet as the host sends it: its length, and as many bytes as it fills. *)
Filled(n) == (n + BYTE - 1) \div BYTE
Packet == UNION {{<<n>> \o d : d \in [1 .. Filled(n) -> Byte]} : n \in Byte \ {0}}
BitsOf(p) == [i \in 1 .. p[1] |-> BitOf(p[2 + (i - 1) \div BYTE], (i - 1) % BYTE)]

VARIABLES
  rx_running, has_byte, data_out,                   \* uart_receiver.v
  read_ptr, write_ptr, read_adv_ptr, write_adv_ptr, buffer, full, empty, out, \* rx_fifo
  rx_fifo_empty_buff, tx_state, rx_fifo_rd_en, tl_tx_length, tl_tx_valid, \* adapter_controller.v
  state, tx_buffered_length, bit_ctr, fifo_byte_ctr, tl_tx_ready, tx_done, \* tl_transmitter.v
  tl_out_valid, tl_out_bits,
  edge_was,    \* whether the cycle before had an edge of TL_CLK
  packet,      \* history: what the host sends
  rest,        \* the bytes of it that are not received yet
  sent         \* history: the bits the chip was given, one more than asked at most

uart        == <<rx_running, has_byte, data_out, rest>>
rx_fifo     == <<read_ptr, write_ptr, read_adv_ptr, write_adv_ptr, buffer, full, empty, out>>
controller  == <<rx_fifo_empty_buff, tx_state, rx_fifo_rd_en, tl_tx_length, tl_tx_valid>>
transmitter == <<state, tx_buffered_length, bit_ctr, fifo_byte_ctr, tl_tx_ready, tx_done,
                 tl_out_valid, tl_out_bits, sent>>
vars == <<uart, rx_fifo, controller, transmitter, edge_was, packet>>

RxFifo == INSTANCE Fifo WITH Data <- Byte

(* Just after a reset.  tl_tx_ready and tx_done have no reset value.         *)
Init == /\ rx_running = FALSE /\ has_byte = FALSE /\ data_out = 0
        /\ buffer = [i \in 0 .. DEPTH - 1 |-> 0] /\ out = 0 /\ RxFifo!Init
        /\ rx_fifo_empty_buff = FALSE /\ tx_state = "IDLE" /\ rx_fifo_rd_en = FALSE
        /\ tl_tx_length = 0 /\ tl_tx_valid = FALSE
        /\ state = "IDLE" /\ tx_buffered_length = 0 /\ bit_ctr = 0 /\ fifo_byte_ctr = 0
        /\ tl_tx_ready \in BOOLEAN /\ tx_done \in BOOLEAN
        /\ tl_out_valid = FALSE /\ tl_out_bits = 0
        /\ edge_was = FALSE /\ packet \in Packet /\ rest = packet /\ sent = <<>>

-----------------------------------------------------------------------------
(* uart_receiver: between "start" and "stop" a frame is shifted in.         *)
Offered == has_byte /\ ~rx_running          \* data_out_valid, rx_fifo_wr_en

UartCycle(line) ==
    CASE line = "stop" ->
           /\ rx_running /\ rx_running' = FALSE
           /\ has_byte' = TRUE /\ data_out' = Head(rest) /\ rest' = Tail(rest)
      [] line = "start" ->
           /\ ~rx_running /\ rest # <<>> /\ rx_running' = TRUE
           /\ has_byte' = (has_byte /\ full)
           /\ UNCHANGED <<data_out, rest>>
      [] line = "quiet" ->
           /\ has_byte' = (has_byte /\ full)
           /\ UNCHANGED <<rx_running, data_out, rest>>

Dout == IF rx_fifo_rd_en /\ (Offered \/ ~empty) THEN buffer[read_ptr] ELSE 0

(* Both at once move both pointers, even those of an empty or a full FIFO.   *)
FifoCycle ==
    CASE Offered /\ rx_fifo_rd_en ->
           RxFifo!AdvanceWrite(data_out) /\ RxFifo!AdvanceRead /\ UNCHANGED <<full, empty>>
      [] Offered /\ ~rx_fifo_rd_en /\ ~full -> RxFifo!Write(data_out)
      [] ~Offered /\ rx_fifo_rd_en /\ ~empty -> RxFifo!Read
      [] OTHER -> UNCHANGED rx_fifo

-----------------------------------------------------------------------------
(* adapter_controller, transmitter side.  PARSING takes the length from the  *)
(* FIFO's output in every cycle it lasts.                                   *)
Idle == /\ tx_state = "IDLE"
        /\ IF rx_fifo_empty_buff /\ ~empty
             THEN rx_fifo_rd_en' = TRUE /\ tx_state' = "PARSING"
             ELSE UNCHANGED <<rx_fifo_rd_en, tx_state>>
        /\ UNCHANGED <<tl_tx_length, tl_tx_valid>>

Parsing == /\ tx_state = "PARSING"
           /\ tl_tx_length' = Dout
           /\ tl_tx_valid' = tl_tx_ready /\ rx_fifo_rd_en' = tl_tx_ready
           /\ tx_state' = IF tl_tx_ready THEN "TRANSMITTING" ELSE "PARSING"

Transmitting ==
    /\ tx_state = "TRANSMITTING"
    /\ IF tx_done
         THEN /\ tx_state' = "IDLE" /\ tl_tx_length' = 0
              /\ UNCHANGED <<tl_tx_valid, rx_fifo_rd_en>>
         ELSE /\ tl_tx_valid' = (tl_tx_ready /\ ~tl_tx_valid)
              /\ rx_fifo_rd_en' = (rx_fifo_rd_en \/ (tl_tx_ready /\ ~tl_tx_valid))
              /\ UNCHANGED <<tx_state, tl_tx_length>>

ControllerCycle == /\ rx_fifo_empty_buff' = empty
                   /\ Idle \/ Parsing \/ Transmitting

-----------------------------------------------------------------------------
(* tl_transmitter.  The buffered length is one bit wide; less one it is 0 or *)
(* the largest number of a word, which no bit_ctr reaches.                  *)
LastBit == tx_buffered_length = 1

Take == /\ state = "IDLE"
        /\ IF tl_tx_valid
             THEN /\ state' = "TRANSMITTING" /\ tx_done' = FALSE
                  /\ tx_buffered_length' = tl_tx_length % 2
             ELSE UNCHANGED <<state, tx_done, tx_buffered_length>>
        /\ UNCHANGED <<bit_ctr, fifo_byte_ctr, tl_tx_ready, tl_out_valid, tl_out_bits, sent>>

Shift(edge, tl_out_ready) ==
    /\ state = "TRANSMITTING"
    /\ IF ~(edge /\ tl_out_ready)
         THEN UNCHANGED transmitter
         ELSE /\ tl_out_bits' = BitOf(Dout, fifo_byte_ctr) /\ tl_out_valid' = TRUE
              /\ sent' = IF Len(sent) > packet[1] THEN sent
                         ELSE Append(sent, BitOf(Dout, fifo_byte_ctr))
              /\ IF LastBit
                   THEN /\ state' = "EXITING" /\ tx_done' = FALSE /\ tx_buffered_length' = 0
                        /\ bit_ctr' = 0 /\ fifo_byte_ctr' = 0 /\ tl_tx_ready' = FALSE
                   ELSE /\ bit_ctr' = (bit_ctr + 1) % 2^BYTE
                        /\ fifo_byte_ctr' = (fifo_byte_ctr + 1) % BYTE
                        /\ tl_tx_ready' = (tl_tx_ready \/ fifo_byte_ctr = BYTE - 1)
                        /\ UNCHANGED <<state, tx_done, tx_buffered_length>>

Leave(edge) ==
    /\ state = "EXITING"
    /\ IF edge
         THEN /\ tl_out_valid' = FALSE /\ state' = "IDLE" /\ tl_tx_ready' = FALSE /\ tx_done' = TRUE
              /\ UNCHANGED <<tx_buffered_length, bit_ctr, fifo_byte_ctr, tl_out_bits, sent>>
         ELSE UNCHANGED transmitter

-----------------------------------------------------------------------------
Cycle(line, edge, tl_out_ready) ==
    /\ edge => ~edge_was
    /\ UartCycle(line)
    /\ FifoCycle
    /\ ControllerCycle
    /\ Take \/ Shift(edge, tl_out_ready) \/ Leave(edge)
    /\ edge_was' = edge
    /\ UNCHANGED packet

Next == \E line \in {"quiet", "start", "stop"}, edge, tl_out_ready \in BOOLEAN :
            Cycle(line, edge, tl_out_ready)

(* sysclk runs, the host goes on with its packet, TL_CLK keeps coming and     *)
(* the chip keeps being ready at it.                                         *)
Spec == /\ Init /\ [][Next]_vars
        /\ WF_vars(Next)
        /\ SF_vars(\E line \in {"start", "stop"}, edge, tl_out_ready \in BOOLEAN :
                       Cycle(line, edge, tl_out_ready))
        /\ SF_vars(\E line \in {"quiet", "start", "stop"} : Cycle(line, TRUE, TRUE))

-----------------------------------------------------------------------------
(* "this is the header on top of UART to tell FPGA how big of a TSI packet   *)
(* to expect and transfer": a packet that arrives is shifted out to the chip *)
(* bit by bit.                                                              *)
Transferred == [](rest = <<>> => <>(sent = BitsOf(packet)))
=============================================================================
