----------------------------- MODULE StmAdapter -----------------------------
(***************************************************************************)
(* The STM32F446 TileLink traffic adapter with its two neighbours.          *)
(*                                                                          *)
(*   tl_host.py  --UART-->  app.c / tilelink.c  --serial TileLink-->  chip  *)
(*                                                                          *)
(* Three contexts of the firmware interleave: the main loop (APP_main), the *)
(* UART receive callback (DMA half-transfer and line-idle events) and the   *)
(* timer capture interrupt on every TL_CLK edge (TL_update).  The timer     *)
(* interrupt has the highest priority, so it is one step; the callback      *)
(* cannot be preempted by the main loop, so it is one step; the main loop   *)
(* can be preempted between any two of its assignments that the others see. *)
(*                                                                          *)
(* A frame is sent one field per clock edge instead of one bit: the four    *)
(* fields are those the properties tell apart, in the order in which        *)
(* TL_serialize lays their bits out.  The data field is split in the two    *)
(* halves that the UART delivers apart.                                     *)
(***************************************************************************)
EXTENDS Naturals

CONSTANTS Addr,   \* word addresses of the chip that the host uses
          Half    \* the values of half a data word

ASSUME AddrAssumption == Addr \subseteq Nat /\ Addr # {}
ASSUME HalfAssumption == Half \subseteq Nat /\ 0 \in Half

(* tilelink.h: opcodes of channel A and D, and the frame layout.            *)
PUTFULLDATA   == 0
GET           == 4
ACCESSACK     == 0
ACCESSACKDATA == 1
TOTAL_SIZE    == 4
BUFFER_SIZE   == 8    \* 256 for 123 bits in the code: room after the frame
Field         == {"lo", "hi", "address", "opcode"}
FieldAt(i)    == <<"lo", "hi", "address", "opcode">>[i + 1]

Cell   == Half \cup Addr \cup {PUTFULLDATA, GET, ACCESSACK, ACCESSACKDATA}
Frame  == [Field -> Cell]
Buffer == [0 .. BUFFER_SIZE - 1 -> Cell]
ZeroFrame  == [f \in Field |-> 0]
ZeroBuffer == [i \in 0 .. BUFFER_SIZE - 1 |-> 0]

VARIABLES
  host,              \* the script: "idle", "waiting" in ser.read(12), "killed", "stm_reset"
  req, got,          \* its last request and the last reply it read, as frames
  wire,              \* its 12 bytes: "quiet", "sent", "head" (10 landed) or "tail" (12)
  half_event,        \* DMA half-transfer interrupt not yet served
  edges,             \* TL_CLK edges since the first bytes of the request landed
  serial_rx_buffer, serial_tx_buffer, frame_pending,      \* app.c
  pc, ser,           \* where APP_main is, and the index of the loop in TL_serialize
  tx_frame, tx_buffer, tx_bit_offset, tx_finished, tx_pending,     \* tl, sending
  rx_buffer, rx_bit_offset, rx_finished, rx_pending,               \* tl, receiving
  MOSI_Data, MOSI_Valid, MISO_Ready,                               \* output pins
  chip, chip_in, chip_out, chip_bit,  \* the chip's serdes: phase, shift registers, index
  mem,               \* the chip's memory
  execs,             \* history: how often the chip performed the current request
  stale              \* history: the high half in the receive buffer when it was asked

hostVars == <<host, req, got>>
uartVars == <<wire, half_event, edges, serial_rx_buffer>>
mainVars == <<pc, ser, serial_tx_buffer>>
txVars   == <<tx_bit_offset, tx_finished, tx_pending>>
rxVars   == <<rx_buffer, rx_bit_offset, rx_finished, rx_pending>>
pins     == <<MOSI_Data, MOSI_Valid, MISO_Ready>>
chipVars == <<chip, chip_in, chip_out, chip_bit>>
history  == <<execs, stale>>
vars == <<hostVars, uartVars, mainVars, frame_pending, tx_frame, tx_buffer, txVars, rxVars,
          pins, chipVars, mem, history>>

Request == {r \in Frame : /\ r["opcode"] \in {PUTFULLDATA, GET}
                          /\ r["address"] \in Addr
                          /\ r["lo"] \in Half /\ r["hi"] \in Half
                          /\ r["opcode"] = GET => r["lo"] = 0 /\ r["hi"] = 0}
NoRequest == [f \in Field |-> IF f = "opcode" THEN GET
                              ELSE IF f = "address" THEN CHOOSE a \in Addr : TRUE ELSE 0]

-----------------------------------------------------------------------------
(* Power-on and reset state of the firmware: zeroed globals, low output pins. *)
FirmwareInit ==
    /\ serial_rx_buffer = ZeroFrame /\ serial_tx_buffer = ZeroFrame
    /\ frame_pending = 0 /\ pc = "loop" /\ ser = 0
    /\ tx_frame = ZeroFrame /\ tx_buffer = ZeroBuffer
    /\ tx_bit_offset = 0 /\ tx_finished = 0 /\ tx_pending = 0
    /\ rx_buffer = ZeroBuffer
    /\ rx_bit_offset = 0 /\ rx_finished = 0 /\ rx_pending = 0
    /\ MOSI_Data = 0 /\ MOSI_Valid = 0 /\ MISO_Ready = 0

FirmwareReset ==
    /\ serial_rx_buffer' = ZeroFrame /\ serial_tx_buffer' = ZeroFrame
    /\ frame_pending' = 0 /\ pc' = "loop" /\ ser' = 0
    /\ tx_frame' = ZeroFrame /\ tx_buffer' = ZeroBuffer
    /\ tx_bit_offset' = 0 /\ tx_finished' = 0 /\ tx_pending' = 0
    /\ rx_buffer' = ZeroBuffer
    /\ rx_bit_offset' = 0 /\ rx_finished' = 0 /\ rx_pending' = 0
    /\ MOSI_Data' = 0 /\ MOSI_Valid' = 0 /\ MISO_Ready' = 0

ChipInit == /\ chip = "recv" /\ chip_bit = 0
            /\ chip_in = ZeroBuffer /\ chip_out = ZeroBuffer

ChipReset == /\ chip' = "recv" /\ chip_bit' = 0
             /\ chip_in' = ZeroBuffer /\ chip_out' = ZeroBuffer

Init == /\ host = "idle" /\ req = NoRequest /\ got = ZeroFrame
        /\ wire = "quiet" /\ half_event = FALSE /\ edges = 0
        /\ FirmwareInit /\ ChipInit
        /\ mem = [a \in Addr |-> <<0, 0>>]
        /\ execs = 0 /\ stale = 0

-----------------------------------------------------------------------------
(* The host script, one blocking request at a time.                         *)

(* TL_Get, TL_PutFullData: ser.write of the packed request.                 *)
HostAsk(r) ==
    /\ host = "idle"
    /\ host' = "waiting" /\ req' = r /\ wire' = "sent"
    /\ execs' = 0 /\ stale' = serial_rx_buffer["hi"]
    /\ UNCHANGED <<got, half_event, edges, serial_rx_buffer, mainVars, frame_pending, tx_frame,
                   tx_buffer, txVars, rxVars, pins, chipVars, mem>>

(* The operator gives up on a script that waits (ser.read has no timeout).   *)
HostKill ==
    /\ host = "waiting"
    /\ host' = "killed"
    /\ UNCHANGED <<req, got, uartVars, mainVars, frame_pending, tx_frame, tx_buffer, txVars,
                   rxVars, pins, chipVars, mem, history>>

(* "reset STM32, and then reset OSCIBEAR", run the script again; the bytes   *)
(* of the killed script have left the wire by the time a hand does this.    *)
ResetStm ==
    /\ host = "killed" /\ wire = "quiet" /\ ~half_event
    /\ host' = "stm_reset"
    /\ FirmwareReset
    /\ UNCHANGED <<req, got, wire, half_event, edges, chipVars, mem, history>>

ResetChip ==
    /\ host = "stm_reset"
    /\ host' = "idle" /\ req' = NoRequest
    /\ ChipReset
    /\ execs' = 0 /\ stale' = 0
    /\ UNCHANGED <<got, uartVars, mainVars, frame_pending, tx_frame, tx_buffer, txVars, rxVars,
                   pins, mem>>

-----------------------------------------------------------------------------
(* UART reception: 12 bytes into a 20-byte DMA transfer.  The half-transfer *)
(* event comes after byte 10, the idle event after byte 12, and both call   *)
(* the same callback; the DMA keeps writing while they wait.  (The events   *)
(* are those of UART_DMARxHalfCplt and HAL_UART_IRQHandler in the vendor's  *)
(* stm32f4xx_hal_uart.c, which the firmware links.)                         *)

Landed(n) == serial_rx_buffer' = [f \in Field |-> IF f \in n THEN req[f] ELSE serial_rx_buffer[f]]

UartHead ==
    /\ wire = "sent"
    /\ wire' = "head" /\ half_event' = TRUE /\ edges' = 0
    /\ Landed({"opcode", "address", "lo"})
    /\ UNCHANGED <<hostVars, mainVars, frame_pending, tx_frame, tx_buffer, txVars, rxVars,
                   pins, chipVars, mem, history>>

UartTail ==
    /\ wire = "head"
    /\ wire' = "tail"
    /\ Landed({"hi"})
    /\ UNCHANGED <<hostVars, half_event, edges, mainVars, frame_pending, tx_frame, tx_buffer,
                   txVars, rxVars, pins, chipVars, mem, history>>

(* HAL_UARTEx_RxEventCallback: the size argument is not looked at.          *)
RxEventCallback == tx_frame' = serial_rx_buffer /\ frame_pending' = 1

(* Half transfer: re-arming the DMA returns HAL_BUSY, the transfer goes on. *)
HalfEvent ==
    /\ half_event
    /\ half_event' = FALSE
    /\ RxEventCallback
    /\ UNCHANGED <<hostVars, wire, edges, serial_rx_buffer, mainVars, tx_buffer, txVars,
                   rxVars, pins, chipVars, mem, history>>

(* Line idle: lower priority than the DMA interrupt; the DMA is re-armed.   *)
IdleEvent ==
    /\ wire = "tail" /\ ~half_event
    /\ wire' = "quiet"
    /\ RxEventCallback
    /\ UNCHANGED <<hostVars, half_event, edges, serial_rx_buffer, mainVars, tx_buffer, txVars,
                   rxVars, pins, chipVars, mem, history>>

-----------------------------------------------------------------------------
(* APP_main, as far as the interrupts can tell its steps apart.             *)

MainPoll ==
    /\ pc = "loop" /\ frame_pending = 1
    /\ pc' = "serialize" /\ ser' = 0
    /\ UNCHANGED <<hostVars, uartVars, serial_tx_buffer, frame_pending, tx_frame, tx_buffer,
                   txVars, rxVars, pins, chipVars, mem, history>>

(* TL_serialize: one field of the frame goes to the bit buffer.             *)
MainSerialize ==
    /\ pc = "serialize"
    /\ tx_buffer' = [tx_buffer EXCEPT ![ser] = tx_frame[FieldAt(ser)]]
    /\ ser' = ser + 1
    /\ pc' = IF ser + 1 = TOTAL_SIZE THEN "restart" ELSE pc
    /\ UNCHANGED <<hostVars, uartVars, serial_tx_buffer, frame_pending, tx_frame, txVars,
                   rxVars, pins, chipVars, mem, history>>

(* Where reception starts, and a TL_transmit that forgets to rewind it.      *)
RxStart_Kept == rx_bit_offset
RxStart      == 0

(* TL_transmit, "reset state".                                              *)
MainRestart ==
    /\ pc = "restart"
    /\ tx_bit_offset' = 0 /\ rx_bit_offset' = RxStart
    /\ tx_finished' = 0 /\ rx_finished' = 0
    /\ pc' = "enable_rx"
    /\ UNCHANGED <<hostVars, uartVars, ser, serial_tx_buffer, frame_pending, tx_frame,
                   tx_buffer, tx_pending, rx_buffer, rx_pending, pins, chipVars, mem, history>>

(* TL_transmit, "enable TX RX".                                             *)
MainEnableRx ==
    /\ pc = "enable_rx"
    /\ rx_pending' = 1
    /\ pc' = "enable_tx"
    /\ UNCHANGED <<hostVars, uartVars, ser, serial_tx_buffer, frame_pending, tx_frame,
                   tx_buffer, txVars, rx_buffer, rx_bit_offset, rx_finished, pins, chipVars,
                   mem, history>>

MainEnableTx ==
    /\ pc = "enable_tx"
    /\ tx_pending' = 1
    /\ pc' = "spin"
    /\ UNCHANGED <<hostVars, uartVars, ser, serial_tx_buffer, frame_pending, tx_frame,
                   tx_buffer, tx_bit_offset, tx_finished, rxVars, pins, chipVars, mem, history>>

(* Ways to get the wait of APP_main wrong: a read of rx_finished that is     *)
(* hoisted out of the loop (tl is not volatile), no wait, the wrong flag.   *)
SpinDone_Hoisted == FALSE
SpinDone_Skipped == TRUE
SpinDone_OnTx    == tx_finished = 1

SpinDone == rx_finished = 1

(* What frame_pending becomes, and a reply that forgets to clear it.         *)
PendingAfter_Kept == frame_pending
PendingAfter      == 0

(* The loop on rx_finished ends; TL_deserialize fills the reply.            *)
MainFinish ==
    /\ pc = "spin" /\ SpinDone
    /\ frame_pending' = PendingAfter
    /\ serial_tx_buffer' = [f \in Field |->
                              rx_buffer[CHOOSE i \in 0 .. TOTAL_SIZE - 1 : FieldAt(i) = f]]
    /\ pc' = "reply"
    /\ UNCHANGED <<hostVars, uartVars, ser, tx_frame, tx_buffer, txVars, rxVars, pins,
                   chipVars, mem, history>>

(* HAL_UART_Transmit: the last byte reaches the host, if it still waits,     *)
(* before the call returns.                                                 *)
MainReply ==
    /\ pc = "reply"
    /\ pc' = "replied"
    /\ IF host = "waiting" THEN host' = "idle" /\ got' = serial_tx_buffer
                           ELSE UNCHANGED <<host, got>>
    /\ UNCHANGED <<req, uartVars, ser, serial_tx_buffer, frame_pending, tx_frame, tx_buffer,
                   txVars, rxVars, pins, chipVars, mem, history>>

MainReturn ==
    /\ pc = "replied"
    /\ pc' = "loop"
    /\ UNCHANGED <<hostVars, uartVars, ser, serial_tx_buffer, frame_pending, tx_frame,
                   tx_buffer, txVars, rxVars, pins, chipVars, mem, history>>

Main == \/ MainPoll \/ MainSerialize \/ MainRestart \/ MainEnableRx \/ MainEnableTx
        \/ MainFinish \/ MainReply \/ MainReturn

-----------------------------------------------------------------------------
(* The chip: a deserializer, a memory and a serializer behind valid/ready.  *)
(* Its output pins follow its state.                                        *)
MISO_Valid == chip = "send"
MISO_Data  == chip_out[chip_bit]

(* What the chip does with a clock edge: it samples the pins the firmware   *)
(* drove after the edge before.                                             *)
ChipEdge ==
    CASE chip = "recv" /\ MOSI_Valid = 1 ->
           /\ chip_in' = [chip_in EXCEPT ![chip_bit] = MOSI_Data]
           /\ chip_bit' = chip_bit + 1
           /\ chip' = IF chip_bit + 1 = TOTAL_SIZE THEN "busy" ELSE "recv"
           /\ UNCHANGED chip_out
      [] chip = "ready" ->
           chip' = "send" /\ chip_bit' = 0 /\ UNCHANGED <<chip_in, chip_out>>
      [] chip = "send" /\ MISO_Ready = 1 ->
           /\ chip_bit' = IF chip_bit + 1 = TOTAL_SIZE THEN 0 ELSE chip_bit + 1
           /\ chip' = IF chip_bit + 1 = TOTAL_SIZE THEN "recv" ELSE "send"
           /\ UNCHANGED <<chip_in, chip_out>>
      [] OTHER -> UNCHANGED chipVars

(* The request that the deserializer holds is performed.                    *)
ChipPerform ==
    /\ chip = "busy"
    /\ chip' = "ready"
    /\ LET put == chip_in[3] = PUTFULLDATA
           a   == chip_in[2]
           w   == IF put \/ a \notin Addr THEN <<0, 0>> ELSE mem[a]
       IN /\ mem' = IF put THEN [mem EXCEPT ![a] = <<chip_in[0], chip_in[1]>>] ELSE mem
          /\ chip_out' = [i \in 0 .. BUFFER_SIZE - 1 |->
                            IF i >= TOTAL_SIZE THEN 0
                            ELSE <<w[1], w[2], a, IF put THEN ACCESSACK ELSE ACCESSACKDATA>>[i + 1]]
    /\ execs' = IF execs < 2 THEN execs + 1 ELSE execs
    /\ UNCHANGED <<hostVars, uartVars, mainVars, frame_pending, tx_frame, tx_buffer, txVars,
                   rxVars, pins, chip_in, chip_bit, stale>>

-----------------------------------------------------------------------------
(* TL_update, called by the capture interrupt of TIM4 on each rising edge.   *)

(* Whether the bits of the frame have all been out for a clock period, and   *)
(* the same test one edge late.                                             *)
TxLast_Late == tx_bit_offset = TOTAL_SIZE + 1
TxLast      == tx_bit_offset = TOTAL_SIZE

UpdateTx ==
    /\ tx_pending = 1
    /\ MOSI_Data' = tx_buffer[tx_bit_offset]
    /\ MISO_Ready' = IF tx_bit_offset = 0 THEN 1 ELSE MISO_Ready
    /\ MOSI_Valid' = IF TxLast THEN 0
                     ELSE IF tx_bit_offset = 0 THEN 1 ELSE MOSI_Valid
    /\ tx_pending' = IF TxLast THEN 0 ELSE tx_pending
    /\ tx_finished' = IF TxLast THEN 1 ELSE tx_finished
    /\ tx_bit_offset' = tx_bit_offset + 1
    /\ UNCHANGED rxVars

UpdateRx ==
    /\ tx_pending = 0 /\ rx_pending = 1
    /\ MISO_Ready' = IF rx_finished = 1 THEN 0 ELSE MISO_Ready
    /\ rx_pending' = IF rx_finished = 1 THEN 0 ELSE rx_pending
    /\ IF MISO_Valid'
         THEN /\ rx_buffer' = [rx_buffer EXCEPT ![rx_bit_offset] = MISO_Data']
              /\ rx_bit_offset' = rx_bit_offset + 1
              /\ rx_finished' = IF rx_bit_offset + 1 = TOTAL_SIZE THEN 1 ELSE rx_finished
         ELSE UNCHANGED <<rx_buffer, rx_bit_offset, rx_finished>>
    /\ UNCHANGED <<txVars, MOSI_Data, MOSI_Valid>>

UpdateIdle ==
    /\ tx_pending = 0 /\ rx_pending = 0
    /\ UNCHANGED <<txVars, rxVars, pins>>

TL_update == UpdateTx \/ UpdateRx \/ UpdateIdle

(* A clock edge: the chip's flip-flops, then the interrupt, which finishes   *)
(* long before the next edge.  Timing: the edges are 889 us apart and the   *)
(* 12 bytes of a request take 60 us, so at most one edge falls in between.  *)
Edge ==
    /\ wire \in {"head", "tail"} \/ half_event => edges = 0
    /\ edges' = IF wire \in {"head", "tail"} \/ half_event THEN 1 ELSE edges
    /\ ChipEdge
    /\ TL_update
    /\ UNCHANGED <<hostVars, wire, half_event, serial_rx_buffer, mainVars, frame_pending,
                   tx_frame, tx_buffer, mem, history>>

Uart == UartHead \/ UartTail \/ HalfEvent \/ IdleEvent

Next == \/ \E r \in Request : HostAsk(r)
        \/ HostKill \/ ResetStm \/ ResetChip
        \/ Uart \/ Main \/ ChipPerform \/ Edge

(* The processor and the UART run, the clock ticks and the chip works; the   *)
(* user is free to ask, kill and reset or not.                              *)
Fairness == WF_vars(Uart) /\ WF_vars(Main) /\ WF_vars(ChipPerform) /\ WF_vars(Edge)

Spec == Init /\ [][Next]_vars /\ Fairness

-----------------------------------------------------------------------------
TypeOK ==
    /\ host \in {"idle", "waiting", "killed", "stm_reset"}
    /\ req \in Request /\ got \in Frame
    /\ wire \in {"quiet", "sent", "head", "tail"}
    /\ half_event \in BOOLEAN /\ edges \in {0, 1}
    /\ serial_rx_buffer \in Frame /\ serial_tx_buffer \in Frame
    /\ frame_pending \in {0, 1}
    /\ pc \in {"loop", "serialize", "restart", "enable_rx", "enable_tx", "spin", "reply",
               "replied"}
    /\ ser \in 0 .. TOTAL_SIZE
    /\ tx_frame \in Frame /\ tx_buffer \in Buffer
    /\ tx_bit_offset \in 0 .. TOTAL_SIZE + 1
    /\ tx_finished \in {0, 1} /\ tx_pending \in {0, 1}
    /\ rx_buffer \in Buffer
    /\ rx_bit_offset \in 0 .. TOTAL_SIZE
    /\ rx_finished \in {0, 1} /\ rx_pending \in {0, 1}
    /\ MOSI_Data \in Cell /\ MOSI_Valid \in {0, 1} /\ MISO_Ready \in {0, 1}
    /\ chip \in {"recv", "busy", "ready", "send"} /\ chip_bit \in 0 .. TOTAL_SIZE
    /\ chip_in \in Buffer /\ chip_out \in Buffer
    /\ mem \in [Addr -> Half \X Half]
    /\ execs \in 0 .. 2 /\ stale \in Half

(* While MOSI_VALID is high the chip is listening, has taken exactly the     *)
(* bits sent before and finds the next one of the frame on the data pin:    *)
(* TL_update never looks at MOSI_READY, and no bit is lost or sent twice.   *)
SentInOrder ==
    MOSI_Valid = 1 => /\ chip = "recv" /\ chip_bit + 1 = tx_bit_offset
                      /\ MOSI_Data = tx_buffer[chip_bit]
                      /\ \A i \in 0 .. chip_bit - 1 : chip_in[i] = tx_buffer[i]

(* While the chip sends, every bit it has put on its pin so far is in        *)
(* rx_frame.buffer, at its place, and it is allowed to go on: the switch of *)
(* TL_update from sending to receiving comes in time for the first bit.     *)
(* When the host has already asked again, only the last bit is still there. *)
ReceivedInOrder ==
    chip = "send" /\ host # "stm_reset" =>
        /\ MISO_Ready = 1
        /\ execs = 0 => chip_bit = TOTAL_SIZE - 1
        /\ execs = 1 => /\ rx_bit_offset = chip_bit + 1
                        /\ \A i \in 0 .. chip_bit : rx_buffer[i] = chip_out[i]

(* Neither direction of the link, which has no handshake per bit, loses,     *)
(* repeats or moves a bit.                                                  *)
InOrder == SentInOrder /\ ReceivedInOrder

(* The host may ask only when nothing of the last exchange is left: no bytes *)
(* on the wire, no request flagged, no transfer armed or under way, the     *)
(* chip's serdes at the edge between two frames.  A frame_pending left here *)
(* would perform the next request twice and shift every later reply.        *)
QuietBetweenRequests ==
    host = "idle" => /\ wire = "quiet" /\ ~half_event
                     /\ frame_pending = 0 /\ tx_pending = 0
                     /\ MOSI_Valid = 0 /\ pc \in {"loop", "replied"}
                     /\ \/ chip = "recv" /\ chip_bit = 0
                        \/ chip = "send" /\ chip_bit = TOTAL_SIZE - 1 /\ MISO_Ready = 1

(* The bit buffer that the interrupt sends from is not rewritten under it by *)
(* the main loop's next TL_serialize.                                       *)
BufferStableWhileSending ==
    [][tx_pending = 1 /\ tx_pending' = 1 => tx_buffer' = tx_buffer]_vars

(* A request that is not given up is answered.                              *)
Answered == (host = "waiting") ~> (host # "waiting")

(* memory_scan of tl_host.py: the word that a write was acknowledged for is  *)
(* the word a read returns, so it is the word in the chip.                  *)
WriteIsKept ==
    host = "idle" /\ req["opcode"] = PUTFULLDATA =>
        mem[req["address"]] = <<req["lo"], req["hi"]>>

(* The three together are the memory of module RemoteMemory.                *)
Word(frame)  == <<frame["opcode"] = ACCESSACK, <<frame["lo"], frame["hi"]>>>>
Memory == INSTANCE RemoteMemory WITH
            up  <- host \in {"idle", "waiting"},
            job <- IF host = "idle" THEN "none"
                   ELSE IF execs = 0 THEN "asked" ELSE IF execs = 1 THEN "done" ELSE "twice",
            req <- [put |-> req["opcode"] = PUTFULLDATA, addr |-> req["address"],
                    lo |-> req["lo"], hi |-> req["hi"]],
            res <- <<chip_out[3] = ACCESSACK, <<chip_out[0], chip_out[1]>>>>,
            ans <- Word(got)

(* Every request is performed exactly once and its answer is that           *)
(* performance's, through any interleaving of callback, main loop, clock    *)
(* edges and chip, and again after a kill and the documented resets.        *)
ImplementsMemory == Memory!ASpec
=============================================================================
