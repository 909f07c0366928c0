-------------------------- MODULE StmAdapterProofs --------------------------
(***************************************************************************)
(* Proofs about StmAdapter for any addresses and any values of half a word: *)
(* no bit is lost or repeated on the link, nothing of a request is left     *)
(* when the next may be asked, and host, adapter and chip together are the  *)
(* memory of RemoteMemory, through kills and resets.                        *)
(***************************************************************************)
EXTENDS StmAdapter, TLAPS

(* The three machines of the link: sender, receiver, and the chip's serdes   *)
(* with the pins it looks at.                                               *)
Tx(pending, offset, finished) ==
    tx_pending = pending /\ tx_bit_offset = offset /\ tx_finished = finished
Rx(pending, offset, finished) ==
    rx_pending = pending /\ rx_bit_offset = offset /\ rx_finished = finished
Serdes(valid, ready, phase, bit) ==
    MOSI_Valid = valid /\ MISO_Ready = ready /\ chip = phase /\ chip_bit = bit

(* Between two transfers: after a reset, or after the last bit of a reply,   *)
(* whose clock edge may still be to come.                                   *)
Fresh == Tx(0, 0, 0) /\ Rx(0, 0, 0) /\ Serdes(0, 0, "recv", 0)
Done  == /\ Tx(0, 5, 1)
         /\ \/ Rx(0, 4, 1) /\ Serdes(0, 0, "recv", 0)
            \/ Rx(1, 4, 1) /\ Serdes(0, 1, "send", 3)

(* A transfer is set up; the chip may not have seen the last edge before it. *)
Silent == Serdes(0, 0, "recv", 0) \/ Serdes(0, 1, "recv", 0) \/ Serdes(0, 1, "send", 3)
Restarted == Tx(0, 0, 0) /\ (\E p \in {0, 1} : Rx(p, 0, 0)) /\ Silent
Listening == Tx(0, 0, 0) /\ Rx(1, 0, 0) /\ Silent
Armed     == Tx(1, 0, 0) /\ Rx(1, 0, 0) /\ Silent

(* The bits go out, are performed, and come back.                           *)
Sending(o)   == /\ Tx(1, o, 0) /\ Rx(1, 0, 0) /\ Serdes(1, 1, "recv", o - 1)
                /\ MOSI_Data = tx_buffer[o - 1]
Sent         == Tx(0, 5, 1) /\ Rx(1, 0, 0) /\ Serdes(0, 1, "busy", 4)
Performed    == Tx(0, 5, 1) /\ Rx(1, 0, 0) /\ Serdes(0, 1, "ready", 4)
Receiving(o) == Tx(0, 5, 1) /\ Rx(1, o, 0) /\ Serdes(0, 1, "send", o - 1)

(* What the link is at for each place of APP_main.                          *)
Link ==
    /\ pc \in {"loop", "replied", "serialize", "restart"} /\ host # "stm_reset" => Fresh \/ Done
    /\ pc = "enable_rx" => Restarted
    /\ pc = "enable_tx" => Listening
    /\ pc = "spin" /\ execs = 0 => Armed \/ (\E o \in 1 .. 4 : Sending(o)) \/ Sent
    /\ pc = "spin" /\ execs # 0 => Performed \/ (\E o \in 1 .. 3 : Receiving(o)) \/ Done
    /\ pc = "reply" => Done

(* After the reset of the board the chip is what the script that was killed  *)
(* has left of it.                                                          *)
HalfReset ==
    host = "stm_reset" =>
        /\ pc = "loop" /\ Tx(0, 0, 0) /\ Rx(0, 0, 0) /\ MOSI_Valid = 0 /\ MISO_Ready = 0
        /\ chip = "busy" => execs = 0
        /\ serial_rx_buffer = ZeroFrame

(* Where the request is on its way from the host through the callback to     *)
(* APP_main.                                                                *)
Working == {"serialize", "restart", "enable_rx", "enable_tx", "spin"}

Exchange ==
    /\ execs \in {0, 1}
    /\ host \in {"idle", "stm_reset"} =>
         wire = "quiet" /\ frame_pending = 0 /\ pc \in {"loop", "replied"}
    /\ half_event => wire \in {"head", "tail"}
    /\ wire = "sent" \/ half_event => frame_pending = 0 /\ pc \in {"loop", "replied"} /\ execs = 0
    /\ wire \in {"head", "tail"} /\ ~half_event => frame_pending = 1 /\ execs = 0
    /\ wire \in {"head", "tail"} /\ pc = "spin" => tx_bit_offset <= edges
    /\ host = "waiting" /\ wire = "quiet" => frame_pending = 1 \/ pc = "reply"
    /\ frame_pending = 1 => pc # "reply" /\ (execs = 1 => pc = "spin")
    /\ pc \in Working => frame_pending = 1
    /\ pc = "reply" => execs = 1

-----------------------------------------------------------------------------
(* The request in a frame and in a bit buffer, with a high half that may be  *)
(* the one of the request before.                                           *)
Highs == {req["hi"], stale}
InFrame(f) == /\ \A x \in {"lo", "address", "opcode"} : f[x] = req[x]
              /\ f["hi"] \in Highs
InCell(i, v) == IF i = 1 THEN v \in Highs ELSE v = req[FieldAt(i)]
InBits(b, n) == \A i \in 0 .. 3 : i < n => InCell(i, b[i])

(* What has landed of it.                                                   *)
Arrived ==
    /\ host = "idle" => serial_rx_buffer["hi"] = req["hi"]
    /\ wire = "sent" => serial_rx_buffer["hi"] = stale
    /\ wire = "head" => InFrame(serial_rx_buffer)
    /\ wire = "tail" \/ (wire = "quiet" /\ host \in {"waiting", "killed"}) =>
         serial_rx_buffer = req

(* Its way to the chip.                                                     *)
Carried ==
    /\ frame_pending = 1 => InFrame(tx_frame)
    /\ pc = "serialize" => ser \in 0 .. 3 /\ InBits(tx_buffer, ser)
    /\ pc \in {"restart", "enable_rx", "enable_tx", "spin"} => InBits(tx_buffer, 4)
    /\ MOSI_Valid = 1 => \A i \in 0 .. 3 : i < chip_bit => chip_in[i] = tx_buffer[i]
    /\ chip = "busy" => InBits(chip_in, 4)

(* And the way of the reply.                                                *)
Returned ==
    /\ execs = 1 /\ chip # "ready" /\ host # "stm_reset" =>
         \A i \in 0 .. 3 : i < rx_bit_offset => rx_buffer[i] = chip_out[i]
    /\ pc = "reply" => \A i \in 0 .. 3 : serial_tx_buffer[FieldAt(i)] = chip_out[i]

IInv == TypeOK /\ Link /\ HalfReset /\ Exchange /\ Arrived /\ Carried /\ Returned

-----------------------------------------------------------------------------
USE DEF PUTFULLDATA, GET, ACCESSACK, ACCESSACKDATA, TOTAL_SIZE, BUFFER_SIZE

(* The fields of a frame in the order of its cells, and their types.        *)
LEMMA Fields ==
    /\ FieldAt(0) = "lo" /\ FieldAt(1) = "hi" /\ FieldAt(2) = "address" /\ FieldAt(3) = "opcode"
    /\ \A i \in 0 .. 3 : FieldAt(i) \in Field
    /\ Half \subseteq Cell /\ Addr \subseteq Cell /\ {0, 1, 4} \subseteq Cell
    /\ Request \subseteq Frame
BY AddrAssumption, HalfAssumption DEF FieldAt, Field, Cell, Request

(* A reset board holds a frame of zeros, and no request.                    *)
LEMMA Zeros == NoRequest \in Request /\ ZeroFrame \in Frame /\ ZeroBuffer \in Buffer
<1>1. (CHOOSE a \in Addr : TRUE) \in Addr
  BY AddrAssumption
<1> QED BY <1>1, HalfAssumption, Fields DEF NoRequest, Request, Frame, ZeroFrame, ZeroBuffer,
                                        Buffer, Field, Cell

(* After power-up nothing is on its way.                                    *)
LEMMA InitIInv == Init => IInv
<1> SUFFICES ASSUME Init PROVE IInv
  OBVIOUS
<1> USE DEF Init, FirmwareInit, ChipInit
<1>1. TypeOK
  <2>1. mem \in [Addr -> Half \X Half]
    BY HalfAssumption
  <2>2. 0 \in Half /\ 0 \in Cell
    BY HalfAssumption, Fields
  <2>3. half_event \in BOOLEAN
    BY Zenon
  <2> QED BY <2>1, <2>2, <2>3, Zeros DEF TypeOK
<1>2. Link /\ HalfReset /\ Exchange
  BY DEF Link, HalfReset, Exchange, Fresh, Tx, Rx, Serdes, Working
<1>3. Arrived /\ Carried /\ Returned
  BY DEF Arrived, Carried, Returned, ZeroFrame, NoRequest, Field
<1> QED BY <1>1, <1>2, <1>3 DEF IInv

-----------------------------------------------------------------------------
(* The host and the hand that resets the boards.                            *)
LEMMA HostIInv ==
    ASSUME IInv, (\E r \in Request : HostAsk(r)) \/ HostKill \/ ResetStm \/ ResetChip
    PROVE  IInv'
<1>1. ASSUME NEW r \in Request, HostAsk(r) PROVE IInv'
  <2> USE <1>1 DEF IInv, HostAsk, mainVars, txVars, rxVars, pins, chipVars
  <2>1. TypeOK'
    <3>1. serial_rx_buffer["hi"] = req["hi"] /\ req["hi"] \in Half
      BY DEF Arrived, TypeOK, Request
    <3> QED BY <3>1 DEF TypeOK
  <2>2. Link' /\ HalfReset' /\ Exchange'
    BY DEF Link, HalfReset, Exchange, Fresh, Done, Tx, Rx, Serdes, Working
  <2>3. Arrived' /\ Carried' /\ Returned'
    BY DEF Link, Exchange, Fresh, Done, Tx, Rx, Serdes, Working, Arrived, Carried, Returned,
           TypeOK
  <2> QED BY <2>1, <2>2, <2>3
<1>2. CASE HostKill
  <2> USE <1>2 DEF IInv, HostKill, uartVars, mainVars, txVars, rxVars, pins, chipVars, history
  <2>1. TypeOK'
    BY DEF TypeOK
  <2>2. Link' /\ HalfReset' /\ Exchange'
    BY DEF Link, HalfReset, Exchange, Fresh, Done, Tx, Rx, Serdes, Working,
           Restarted, Listening, Armed, Sending, Sent, Performed, Receiving, Silent
  <2>3. Arrived' /\ Carried' /\ Returned'
    BY DEF Arrived, Carried, Returned, InFrame, InBits, InCell, Highs
  <2> QED BY <2>1, <2>2, <2>3
<1>3. CASE ResetStm
  <2> USE <1>3 DEF IInv, ResetStm, FirmwareReset, chipVars, history
  <2>1. TypeOK'
    BY Zeros, Fields DEF TypeOK
  <2>2. Link' /\ HalfReset' /\ Exchange'
    BY DEF TypeOK, Link, HalfReset, Exchange, Tx, Rx, Serdes, Working,
           Fresh, Done, Restarted, Listening, Armed, Sending, Sent, Performed, Receiving, Silent
  <2>3. Arrived' /\ Carried' /\ Returned'
    BY DEF Arrived, Carried, Returned, InBits, InCell, Highs
  <2> QED BY <2>1, <2>2, <2>3
<1>4. CASE ResetChip
  <2> USE <1>4 DEF IInv, ResetChip, ChipReset, uartVars, mainVars, txVars, rxVars, pins
  <2>1. TypeOK'
    BY Zeros, HalfAssumption DEF TypeOK
  <2>2. Link' /\ HalfReset'
    BY DEF Link, HalfReset, Tx, Rx, Serdes, Fresh
  <2>3. Exchange'
    BY DEF HalfReset, Exchange, Working
  <2>4. Arrived' /\ Carried' /\ Returned'
    BY DEF HalfReset, Exchange, Arrived, Carried, Returned, ZeroFrame, NoRequest, Field
  <2> QED BY <2>1, <2>2, <2>3, <2>4
<1> QED BY <1>1, <1>2, <1>3, <1>4

-----------------------------------------------------------------------------
(* The bytes of the request land, and the callback hands the frame over.     *)
LEMMA UartIInv ==
    ASSUME IInv, Uart
    PROVE  IInv'
<1> USE DEF IInv
<1>r. /\ req \in Request /\ req \in Frame /\ DOMAIN req = Field
      /\ serial_rx_buffer \in Frame
  BY Fields DEF TypeOK, Frame
<1>1. CASE UartHead
  <2> USE <1>1 DEF UartHead, Landed, hostVars, mainVars, txVars, rxVars, pins, chipVars, history
  <2>1. TypeOK'
    BY <1>r DEF TypeOK, Frame, Field
  <2>2. Link' /\ HalfReset'
    BY DEF Link, HalfReset, Exchange, Fresh, Done, Tx, Rx, Serdes
  <2>3. Exchange'
    BY DEF Link, Exchange, Working
  <2>4. Arrived'
    BY <1>r DEF Exchange, Arrived, InFrame, Highs, Field
  <2>5. Carried' /\ Returned'
    BY DEF Link, Exchange, Fresh, Done, Tx, Rx, Serdes, Carried, Returned
  <2> QED BY <2>1, <2>2, <2>3, <2>4, <2>5
<1>2. CASE UartTail
  <2> USE <1>2 DEF UartTail, Landed, hostVars, mainVars, txVars, rxVars, pins, chipVars, history
  <2>1. TypeOK'
    BY <1>r DEF TypeOK, Frame, Field
  <2>2. Link' /\ HalfReset'
    BY DEF Link, HalfReset, Exchange, Fresh, Done, Tx, Rx, Serdes,
           Restarted, Listening, Armed, Sending, Sent, Performed, Receiving, Silent
  <2>3. Exchange'
    BY DEF Exchange, Working
  <2>4. Arrived'
    <3>1. serial_rx_buffer' = req
      BY <1>r DEF Arrived, InFrame, Field, Frame
    <3> QED BY <3>1 DEF Exchange, Arrived
  <2>5. Carried' /\ Returned'
    BY DEF Carried, Returned, InFrame, InBits, InCell, Highs
  <2> QED BY <2>1, <2>2, <2>3, <2>4, <2>5
<1>3. ASSUME HalfEvent \/ IdleEvent PROVE IInv'
  <2> USE <1>3 DEF HalfEvent, IdleEvent, RxEventCallback, hostVars, mainVars, txVars, rxVars,
                   pins, chipVars, history
  <2>1. TypeOK'
    <3>1. CASE HalfEvent
      <4>1. half_event' \in BOOLEAN
        BY <3>1, Zenon
      <4> QED BY <3>1, <4>1 DEF TypeOK
    <3>2. CASE IdleEvent
      BY <3>2 DEF TypeOK
    <3> QED BY <3>1, <3>2
  <2>2. Link' /\ HalfReset'
    BY DEF Link, HalfReset, Exchange, Fresh, Done, Tx, Rx, Serdes,
           Restarted, Listening, Armed, Sending, Sent, Performed, Receiving, Silent
  <2>3. Exchange'
    BY DEF Exchange, Working
  <2>4. Arrived'
    BY DEF Exchange, Arrived, InFrame, Highs
  <2>5. Carried' /\ Returned'
    <3>1. InFrame(serial_rx_buffer)
      BY DEF Exchange, Arrived, InFrame, Highs
    <3> QED BY <3>1 DEF Carried, Returned, InFrame, InBits, InCell, Highs
  <2> QED BY <2>1, <2>2, <2>3, <2>4, <2>5
<1> QED BY <1>1, <1>2, <1>3 DEF Uart

-----------------------------------------------------------------------------
(* APP_main.                                                                *)
LEMMA MainIInv ==
    ASSUME IInv, Main
    PROVE  IInv'
<1> USE DEF IInv, uartVars, hostVars, txVars, rxVars, pins, chipVars, history
<1>1. CASE MainPoll
  <2> USE <1>1 DEF MainPoll
  <2>1. TypeOK'
    BY DEF TypeOK
  <2>2. Link' /\ HalfReset' /\ Exchange'
    BY DEF Link, HalfReset, Exchange, Fresh, Done, Tx, Rx, Serdes, Working
  <2>3. Arrived' /\ Carried' /\ Returned'
    BY DEF Arrived, Carried, Returned, InFrame, InBits, InCell, Highs
  <2> QED BY <2>1, <2>2, <2>3
<1>2. CASE MainSerialize
  <2> USE <1>2 DEF MainSerialize
  <2>1. ser \in 0 .. 3 /\ InFrame(tx_frame) /\ InBits(tx_buffer, ser)
        /\ tx_frame \in Frame /\ tx_buffer \in Buffer
    BY DEF Exchange, Carried, Working, TypeOK
  <2>2. TypeOK'
    <3>1. tx_frame[FieldAt(ser)] \in Cell
      BY <2>1, Fields DEF Frame
    <3>2. tx_buffer' \in Buffer
      BY <2>1, <3>1 DEF Buffer
    <3> QED BY <2>1, <3>2 DEF TypeOK
  <2>3. InBits(tx_buffer', ser + 1)
    BY <2>1, Fields DEF InBits, InCell, InFrame, Highs, Buffer
  <2>4. Link' /\ HalfReset'
    BY DEF Link, HalfReset, Fresh, Done, Tx, Rx, Serdes
  <2>5. Exchange'
    BY DEF Exchange, Working
  <2>6. Carried'
    BY <2>1, <2>3 DEF Link, HalfReset, Exchange, Fresh, Done, Tx, Rx, Serdes, Carried, InFrame,
                      InBits, InCell, Highs
  <2>7. Arrived' /\ Returned'
    BY DEF Arrived, Returned, InFrame, Highs
  <2> QED BY <2>2, <2>4, <2>5, <2>6, <2>7
<1>3. CASE MainRestart
  <2> USE <1>3 DEF MainRestart, RxStart
  <2>1. TypeOK'
    BY DEF TypeOK
  <2>2. Link' /\ HalfReset'
    BY DEF Link, HalfReset, Fresh, Done, Tx, Rx, Serdes, Restarted, Silent
  <2>3. Exchange'
    BY DEF Exchange, Working
  <2>4. Arrived' /\ Carried' /\ Returned'
    BY DEF Exchange, Working, Arrived, Carried, Returned, InFrame, InBits, InCell, Highs
  <2> QED BY <2>1, <2>2, <2>3, <2>4
<1>4. CASE MainEnableRx
  <2> USE <1>4 DEF MainEnableRx
  <2>1. TypeOK'
    BY DEF TypeOK
  <2>2. Link' /\ HalfReset'
    BY DEF Link, HalfReset, Tx, Rx, Serdes, Restarted, Listening, Silent
  <2>3. Exchange'
    BY DEF Exchange, Working
  <2>4. Arrived' /\ Carried' /\ Returned'
    BY DEF Arrived, Carried, Returned, InFrame, InBits, InCell, Highs
  <2> QED BY <2>1, <2>2, <2>3, <2>4
<1>5. CASE MainEnableTx
  <2> USE <1>5 DEF MainEnableTx
  <2>1. TypeOK'
    BY DEF TypeOK
  <2>2. Link' /\ HalfReset'
    BY DEF Link, HalfReset, Exchange, Working, Tx, Rx, Serdes, Listening, Armed, Silent
  <2>3. Exchange'
    BY DEF Link, Listening, Tx, Exchange, Working, TypeOK
  <2>4. Arrived' /\ Carried' /\ Returned'
    BY DEF Arrived, Carried, Returned, InFrame, InBits, InCell, Highs
  <2> QED BY <2>1, <2>2, <2>3, <2>4
<1>6. CASE MainFinish
  <2> USE <1>6 DEF MainFinish, SpinDone, PendingAfter
  <2>1. execs = 1 /\ Done
    BY DEF Link, Exchange, Armed, Sending, Sent, Performed, Receiving, Done, Tx, Rx, Silent
  <2>2. \A i \in 0 .. 3 : serial_tx_buffer'[FieldAt(i)] = rx_buffer[i] /\ rx_buffer[i] \in Cell
    <3> SUFFICES ASSUME NEW i \in 0 .. 3
                 PROVE  serial_tx_buffer'[FieldAt(i)] = rx_buffer[i] /\ rx_buffer[i] \in Cell
      OBVIOUS
    <3>1. (CHOOSE j \in 0 .. TOTAL_SIZE - 1 : FieldAt(j) = FieldAt(i)) = i
      BY Fields
    <3> QED BY <3>1, Fields DEF TypeOK, Buffer
  <2>3. TypeOK'
    <3>1. \A f \in Field : \E i \in 0 .. 3 : f = FieldAt(i)
      BY Fields DEF Field
    <3>2. \A f \in Field : serial_tx_buffer'[f] \in Cell
      BY <2>2, <3>1
    <3>3. serial_tx_buffer' \in Frame
      BY <3>2 DEF Frame
    <3> QED BY <3>3 DEF TypeOK
  <2>4. Link' /\ HalfReset'
    BY <2>1 DEF Link, HalfReset, Done, Tx, Rx, Serdes
  <2>5. Exchange'
    BY <2>1 DEF Exchange, Working
  <2>6. Arrived' /\ Carried' /\ Returned'
    BY <2>1, <2>2 DEF Exchange, HalfReset, Done, Tx, Rx, Serdes, Arrived, Carried, Returned,
                      InFrame, InBits, InCell, Highs
  <2> QED BY <2>3, <2>4, <2>5, <2>6
<1>7. CASE MainReply
  <2> USE <1>7 DEF MainReply
  <2>1. TypeOK'
    BY DEF TypeOK
  <2>2. Link' /\ HalfReset'
    BY DEF Link, HalfReset, Done, Tx, Rx, Serdes
  <2>r. wire = "quiet" /\ ~half_event /\ frame_pending = 0
    BY DEF Exchange, TypeOK
  <2>3. Exchange'
    BY <2>r DEF Exchange, Working
  <2>4. Arrived' /\ Carried' /\ Returned'
    BY <2>r DEF HalfReset, Exchange, Arrived, Carried, Returned, InFrame, InBits, InCell, Highs
  <2> QED BY <2>1, <2>2, <2>3, <2>4
<1>8. CASE MainReturn
  <2> USE <1>8 DEF MainReturn
  <2>1. TypeOK'
    BY DEF TypeOK
  <2>2. Link' /\ HalfReset' /\ Exchange'
    BY DEF Link, HalfReset, Exchange, Fresh, Done, Tx, Rx, Serdes, Working
  <2>3. Arrived' /\ Carried' /\ Returned'
    BY DEF Arrived, Carried, Returned, InFrame, InBits, InCell, Highs
  <2> QED BY <2>1, <2>2, <2>3
<1> QED BY <1>1, <1>2, <1>3, <1>4, <1>5, <1>6, <1>7, <1>8 DEF Main

-----------------------------------------------------------------------------
(* The chip performs the request that its deserializer holds.               *)
LEMMA Performing ==
    ASSUME IInv, ChipPerform
    PROVE  /\ req \in Request /\ req["lo"] \in Half /\ chip_in[1] \in Highs /\ Highs \subseteq Half
           /\ chip_in[0] = req["lo"] /\ chip_in[2] = req["address"] /\ chip_in[3] = req["opcode"]
           /\ req["address"] \in Addr /\ req["opcode"] \in {PUTFULLDATA, GET}
           /\ mem \in [Addr -> Half \X Half]
           /\ execs = 0 /\ execs' = 1
           /\ (host # "stm_reset" => pc = "spin" /\ Sent)
           /\ host # "idle"
<1> USE DEF IInv, ChipPerform
<1>1. req \in Request /\ req["lo"] \in Half /\ Highs \subseteq Half
      /\ req["address"] \in Addr /\ req["opcode"] \in {PUTFULLDATA, GET}
      /\ mem \in [Addr -> Half \X Half]
  BY DEF TypeOK, Request, Highs
<1>2. /\ chip_in[0] = req["lo"] /\ chip_in[1] \in Highs
      /\ chip_in[2] = req["address"] /\ chip_in[3] = req["opcode"]
  BY Fields DEF Carried, InBits, InCell
<1>3. host # "stm_reset" => pc = "spin" /\ Sent /\ execs = 0
  BY DEF TypeOK, Link, Fresh, Done, Tx, Rx, Serdes, Restarted, Listening, Armed, Sending, Sent,
         Performed, Receiving, Silent
<1>4. execs = 0
  BY <1>3 DEF HalfReset
<1>5. host # "idle"
  BY <1>3 DEF Exchange
<1> QED BY <1>1, <1>2, <1>3, <1>4, <1>5

(* What it puts into its shift register and into its memory.                *)
LEMMA Outcome ==
    ASSUME IInv, ChipPerform
    PROVE  LET put == req["opcode"] = PUTFULLDATA
               w   == IF put THEN <<0, 0>> ELSE mem[req["address"]]
           IN  /\ mem' = IF put THEN [mem EXCEPT ![req["address"]] = <<req["lo"], chip_in[1]>>] ELSE mem
               /\ chip_out' \in Buffer /\ mem' \in [Addr -> Half \X Half]
               /\ w \in Half \X Half /\ chip_out'[0] = w[1] /\ chip_out'[1] = w[2]
               /\ chip_out'[3] = IF put THEN ACCESSACK ELSE ACCESSACKDATA
<1> DEFINE put == req["opcode"] = PUTFULLDATA
           w   == IF put THEN <<0, 0>> ELSE mem[req["address"]]
           op  == IF put THEN ACCESSACK ELSE ACCESSACKDATA
           out == <<w[1], w[2], req["address"], op>>
<1>1. w \in Half \X Half
  BY Performing, HalfAssumption
<1>2. mem' = IF put THEN [mem EXCEPT ![req["address"]] = <<req["lo"], chip_in[1]>>] ELSE mem
  BY Performing DEF ChipPerform
<1>3. chip_out' = [i \in 0 .. 7 |-> IF i >= 4 THEN 0 ELSE out[i + 1]]
  BY Performing DEF ChipPerform
<1>4. mem' \in [Addr -> Half \X Half]
  BY <1>2, Performing
<1>5. \A i \in 0 .. 3 : out[i + 1] \in Cell
  BY <1>1, Performing, Fields
<1>6. chip_out' \in Buffer
  BY <1>3, <1>5, Fields DEF Buffer
<1>7. chip_out'[0] = w[1] /\ chip_out'[1] = w[2] /\ chip_out'[3] = op
  BY <1>3
<1> QED BY <1>1, <1>2, <1>4, <1>6, <1>7

(* The chip performs what its serdes has received, once.                    *)
LEMMA PerformIInv ==
    ASSUME IInv, ChipPerform
    PROVE  IInv'
<1> USE DEF IInv, hostVars, uartVars, mainVars, txVars, rxVars, pins
<1>0. /\ chip = "busy" /\ chip' = "ready" /\ execs = 0 /\ execs' = 1
      /\ host # "stm_reset" => pc = "spin" /\ Sent
      /\ chip_out' \in Buffer /\ mem' \in [Addr -> Half \X Half]
      /\ UNCHANGED <<hostVars, uartVars, mainVars, frame_pending, tx_frame, tx_buffer, txVars,
                     rxVars, pins, chip_in, chip_bit, stale>>
  <2>1. /\ chip = "busy" /\ chip' = "ready"
        /\ UNCHANGED <<hostVars, uartVars, mainVars, frame_pending, tx_frame, tx_buffer, txVars,
                     rxVars, pins, chip_in, chip_bit, stale>>
    BY DEF ChipPerform
  <2> QED BY <2>1, Performing, Outcome, Zenon
<1>1. TypeOK'
  BY <1>0 DEF TypeOK
<1>2. Link' /\ HalfReset'
  BY <1>0 DEF HalfReset, Link, Sent, Performed, Tx, Rx, Serdes
<1>3. Exchange'
  BY <1>0 DEF Exchange, Link, Sent, Tx, Rx, Serdes, TypeOK, Working
<1>4. Arrived' /\ Carried' /\ Returned'
  BY <1>0 DEF HalfReset, Arrived, Carried, Returned, Sent, Tx, Rx, Serdes, InFrame, InBits,
              InCell, Highs
<1> QED BY <1>1, <1>2, <1>3, <1>4

-----------------------------------------------------------------------------
(* A clock edge, by what the link is at.                                    *)
LEMMA EdgeStage ==
    ASSUME TypeOK, Edge
    PROVE  /\ Fresh => Fresh' /\ UNCHANGED <<rx_buffer, chip_in, chip_out>>
           /\ Done  => Done'  /\ UNCHANGED <<rx_buffer, chip_in, chip_out>>
           /\ Restarted => Restarted' /\ UNCHANGED <<rx_buffer, chip_in, chip_out>>
           /\ Listening => Listening' /\ UNCHANGED <<rx_buffer, chip_in, chip_out>>
           /\ Armed => Sending(1)' /\ UNCHANGED <<rx_buffer, chip_out>>
           /\ \A o \in 1 .. 4 : Sending(o) =>
                /\ IF o = 4 THEN Sent' ELSE Sending(o + 1)'
                /\ chip_in' = [chip_in EXCEPT ![o - 1] = tx_buffer[o - 1]]
                /\ UNCHANGED <<rx_buffer, chip_out>>
           /\ Sent => Sent' /\ UNCHANGED <<rx_buffer, chip_in, chip_out>>
           /\ Performed => Receiving(1)' /\ rx_buffer' = [rx_buffer EXCEPT ![0] = chip_out[0]]
                           /\ UNCHANGED <<chip_in, chip_out>>
           /\ \A o \in 1 .. 3 : Receiving(o) =>
                /\ IF o = 3 THEN Done' ELSE Receiving(o + 1)'
                /\ rx_buffer' = [rx_buffer EXCEPT ![o] = chip_out[o]]
                /\ UNCHANGED <<chip_in, chip_out>>
<1> USE DEF Edge, ChipEdge, TL_update, UpdateTx, UpdateRx, UpdateIdle, TxLast, MISO_Valid,
            MISO_Data,
            Tx, Rx, Serdes, chipVars, txVars, rxVars, pins
<1>1. Fresh => Fresh' /\ UNCHANGED <<rx_buffer, chip_in, chip_out>>
  BY DEF Fresh
<1>2. Done  => Done'  /\ UNCHANGED <<rx_buffer, chip_in, chip_out>>
  BY DEF Done
<1>3. Restarted => Restarted' /\ UNCHANGED <<rx_buffer, chip_in, chip_out>>
  BY DEF Restarted, Silent
<1>4. Listening => Listening' /\ UNCHANGED <<rx_buffer, chip_in, chip_out>>
  BY DEF Listening, Silent
<1>5. Armed => Sending(1)' /\ UNCHANGED <<rx_buffer, chip_out>>
  BY DEF Armed, Sending, Silent
<1>6. ASSUME NEW o \in 1 .. 4, Sending(o)
      PROVE  /\ IF o = 4 THEN Sent' ELSE Sending(o + 1)'
             /\ chip_in' = [chip_in EXCEPT ![o - 1] = tx_buffer[o - 1]]
             /\ UNCHANGED <<rx_buffer, chip_out>>
  BY <1>6 DEF Sending, Sent
<1>7. Sent => Sent' /\ UNCHANGED <<rx_buffer, chip_in, chip_out>>
  BY DEF Sent
<1>8. Performed => Receiving(1)' /\ rx_buffer' = [rx_buffer EXCEPT ![0] = chip_out[0]]
                           /\ UNCHANGED <<chip_in, chip_out>>
  BY DEF Performed, Receiving
<1>9. ASSUME NEW o \in 1 .. 3, Receiving(o)
      PROVE  /\ IF o = 3 THEN Done' ELSE Receiving(o + 1)'
             /\ rx_buffer' = [rx_buffer EXCEPT ![o] = chip_out[o]]
             /\ UNCHANGED <<chip_in, chip_out>>
  BY <1>9 DEF Receiving, Done
<1> QED BY <1>1, <1>2, <1>3, <1>4, <1>5, <1>6, <1>7, <1>8, <1>9

(* What the edge leaves alone.                                              *)
LEMMA EdgeFrame ==
    ASSUME Edge
    PROVE  /\ UNCHANGED <<host, req, got, wire, half_event, serial_rx_buffer, pc, ser,
                          serial_tx_buffer, frame_pending, tx_frame, tx_buffer, mem, execs,
                          stale>>
BY DEF Edge, hostVars, mainVars, history

(* An edge of the serial clock moves one bit at most, on both sides at once. *)
LEMMA EdgeLink ==
    ASSUME IInv, Edge
    PROVE  Link' /\ HalfReset' /\ Exchange' /\ Arrived'
<1> USE EdgeFrame DEF IInv
<1>1. Link'
  BY EdgeStage DEF Link
<1>2. HalfReset'
  BY DEF HalfReset, Edge, ChipEdge, TL_update, UpdateTx, UpdateRx, UpdateIdle, Tx, Rx, chipVars,
         txVars, rxVars, pins
<1>3. Exchange'
  <2>1. ASSUME wire \in {"head", "tail"}, pc = "spin" PROVE tx_bit_offset' <= edges'
    <3>1. execs = 0 /\ edges' = 1 /\ edges = 0
      BY <2>1 DEF Exchange, Edge, TypeOK, Working
    <3>2. tx_bit_offset = 0 /\ Armed
      BY <2>1, <3>1 DEF Link, Exchange, Armed, Sending, Sent, Tx, TypeOK
    <3>3. tx_bit_offset' = 1
      BY <3>2, EdgeStage DEF Sending, Tx
    <3> QED BY <3>1, <3>3
  <2> QED BY <2>1 DEF Exchange, Working
<1>4. Arrived'
  BY DEF Arrived, InFrame, Highs
<1> QED BY <1>1, <1>2, <1>3, <1>4

(* The bit it moves is the one the other side expects.                      *)
LEMMA EdgeData ==
    ASSUME IInv, Edge
    PROVE  Carried' /\ Returned'
<1> USE EdgeFrame DEF IInv
<1>1. CASE host = "stm_reset"
  <2>1. chip \in {"recv", "busy", "ready", "send"} /\ pc = "loop" /\ MOSI_Valid' = 0 /\ frame_pending = 0
        /\ (chip' = "busy" => chip = "busy") /\ UNCHANGED chip_in
    BY <1>1 DEF HalfReset, Exchange, TypeOK, Edge, ChipEdge, TL_update, UpdateTx, UpdateRx,
                UpdateIdle, Tx, Rx,
                chipVars, txVars, rxVars, pins
  <2> QED BY <1>1, <2>1 DEF Carried, Returned, InBits, InCell, Highs
<1>2. CASE host # "stm_reset"
  <2>1. CASE Fresh
    BY <1>2, <2>1, EdgeStage DEF Fresh, Tx, Rx, Serdes, Carried, Returned, InFrame, InBits,
                                 InCell, Highs
  <2>2. CASE Done
    BY <1>2, <2>2, EdgeStage DEF Done, Tx, Rx, Serdes, Carried, Returned, InFrame, InBits,
                                 InCell, Highs
  <2>3. CASE Restarted \/ Listening
    BY <1>2, <2>3, EdgeStage DEF Restarted, Listening, Silent, Tx, Rx, Serdes, Carried,
                                 Returned, InFrame,
                                 InBits, InCell, Highs
  <2>4. CASE Armed
    BY <1>2, <2>4, EdgeStage DEF Armed, Sending, Silent, Tx, Rx, Serdes, Carried, Returned,
                                 InFrame, InBits,
                                 InCell, Highs
  <2>5. ASSUME NEW o \in 1 .. 4, Sending(o), pc = "spin", execs = 0 PROVE Carried' /\ Returned'
    <3>1. chip_in' = [chip_in EXCEPT ![o - 1] = tx_buffer[o - 1]] /\ chip_in \in Buffer
      BY <2>5, EdgeStage DEF TypeOK
    <3>2. \A i \in 0 .. 3 : i < o => chip_in'[i] = tx_buffer[i]
      BY <2>5, <3>1 DEF Carried, Sending, Tx, Rx, Serdes, Buffer
    <3>3. o < 4 => chip_bit' = o /\ chip' = "recv" /\ execs' = 0
      BY <2>5, EdgeStage DEF Sending, Tx, Rx, Serdes
    <3>4. o = 4 => MOSI_Valid' = 0 /\ InBits(chip_in, 4)'
      BY <2>5, <3>2, EdgeStage DEF Sent, Tx, Rx, Serdes, Carried, InBits, InCell, Highs
    <3>5. Carried'
      BY <2>5, <3>2, <3>3, <3>4 DEF Carried, InFrame, InBits, InCell, Highs
    <3> QED BY <2>5, <3>5 DEF Returned
  <2>6. CASE Sent
    BY <1>2, <2>6, EdgeStage DEF Sent, Tx, Rx, Serdes, Carried, Returned, InFrame, InBits,
                                 InCell, Highs
  <2>7. ASSUME Performed, pc = "spin" PROVE Carried' /\ Returned'
    <3>1. rx_bit_offset' = 1 /\ rx_buffer'[0] = chip_out'[0] /\ chip' = "send" /\ MOSI_Valid' = 0
      BY <2>7, EdgeStage DEF Performed, Receiving, Tx, Rx, Serdes, TypeOK, Buffer
    <3> QED BY <2>7, <3>1, EdgeStage DEF Carried, Returned, InFrame, InBits, InCell, Highs
  <2>8. ASSUME NEW o \in 1 .. 3, Receiving(o), pc = "spin", execs = 1 PROVE Carried' /\ Returned'
    <3>1. rx_buffer' = [rx_buffer EXCEPT ![o] = chip_out[o]] /\ rx_buffer \in Buffer
          /\ chip_out' = chip_out /\ rx_bit_offset = o /\ chip = "send"
      BY <2>8, EdgeStage DEF Receiving, Tx, Rx, Serdes, TypeOK
    <3>2. \A i \in 0 .. 3 : i < o + 1 => rx_buffer'[i] = chip_out'[i]
      BY <1>2, <2>8, <3>1 DEF Returned, Buffer
    <3>3. rx_bit_offset' = o + 1 /\ chip' \in {"recv", "send"} /\ MOSI_Valid' = 0
      BY <2>8, EdgeStage DEF Receiving, Done, Tx, Rx, Serdes
    <3> QED BY <2>8, <3>2, <3>3 DEF Carried, Returned, InFrame, InBits, InCell, Highs
  <2> QED BY <1>2, <2>1, <2>2, <2>3, <2>4, <2>5, <2>6, <2>7, <2>8 DEF Link, Exchange, TypeOK
<1> QED BY <1>1, <1>2

(* No offset leaves its buffer.                                             *)
LEMMA EdgeTypes ==
    ASSUME IInv, Edge
    PROVE  TypeOK'
<1> USE EdgeFrame DEF IInv
<1>1. edges' \in {0, 1}
  BY DEF Edge, TypeOK
<1>2. /\ chip' \in {"recv", "busy", "ready", "send"} /\ chip_bit' \in 0 .. 4
      /\ chip_in' \in Buffer /\ chip_out' \in Buffer
  <2>1. (chip = "recv" /\ MOSI_Valid = 1) \/ (chip = "send" /\ MISO_Ready = 1) => chip_bit \in 0 .. 3
    BY DEF HalfReset, Link, Fresh, Done, Restarted, Listening, Armed, Sending, Sent, Performed,
           Receiving, Silent,
           Tx, Rx, Serdes, TypeOK
  <2>2. CASE chip = "recv" /\ MOSI_Valid = 1
    BY <2>1, <2>2 DEF Edge, ChipEdge, TypeOK, Buffer
  <2>3. CASE chip = "send" /\ MISO_Ready = 1
    <3>1. chip_bit' \in 0 .. 4
      BY <2>1, <2>3 DEF Edge, ChipEdge, TypeOK
    <3> QED BY <2>3, <3>1 DEF Edge, ChipEdge, TypeOK
  <2>4. CASE ~(chip = "recv" /\ MOSI_Valid = 1) /\ ~(chip = "send" /\ MISO_Ready = 1)
    BY <2>4 DEF Edge, ChipEdge, TypeOK, chipVars
  <2> QED BY <2>2, <2>3, <2>4
<1>3. /\ tx_bit_offset' \in 0 .. 5 /\ tx_finished' \in {0, 1} /\ tx_pending' \in {0, 1}
      /\ MOSI_Data' \in Cell /\ MOSI_Valid' \in {0, 1} /\ MISO_Ready' \in {0, 1}
      /\ rx_bit_offset' \in 0 .. 4 /\ rx_finished' \in {0, 1} /\ rx_pending' \in {0, 1} /\ rx_buffer' \in Buffer
  <2>1. CASE UpdateTx
    <3>1. tx_bit_offset \in 0 .. 4
      BY <2>1 DEF UpdateTx, HalfReset, Link, Fresh, Done, Restarted, Listening, Armed, Sending,
                  Sent, Performed,
                  Receiving, Silent, Tx, Rx, Serdes, TypeOK
    <3> QED BY <2>1, <3>1 DEF UpdateTx, TxLast, TypeOK, Buffer, rxVars
  <2>2. CASE UpdateRx
    <3>1. MISO_Valid' => rx_bit_offset \in 0 .. 3
      <4>1. host # "stm_reset"
        BY <2>2 DEF UpdateRx, HalfReset, Tx, Rx
      <4> QED BY <4>1, <2>2, EdgeStage DEF MISO_Valid, UpdateRx, Link, Fresh, Done, Restarted,
                                        Listening, Armed, Sending, Sent, Performed,
                  Receiving, Silent, Tx, Rx, Serdes, TypeOK
    <3>2. MISO_Data' \in Cell
      BY <1>2 DEF MISO_Data, Buffer
    <3> QED BY <2>2, <3>1, <3>2 DEF UpdateRx, TypeOK, Buffer, txVars
  <2>3. CASE UpdateIdle
    BY <2>3 DEF UpdateIdle, TypeOK, txVars, rxVars, pins
  <2> QED BY <2>1, <2>2, <2>3 DEF Edge, TL_update
<1> QED BY <1>1, <1>2, <1>3 DEF TypeOK

-----------------------------------------------------------------------------
(* Every step keeps the invariant.                                          *)
LEMMA NextIInv == IInv /\ [Next]_vars => IInv'
<1> SUFFICES ASSUME IInv, [Next]_vars PROVE IInv'
  OBVIOUS
<1>1. CASE Next
  <2>1. CASE Edge
    BY <2>1, EdgeLink, EdgeData, EdgeTypes DEF IInv
  <2> QED BY <1>1, <2>1, HostIInv, UartIInv, MainIInv, PerformIInv DEF Next
<1>2. CASE UNCHANGED vars
  <2> USE <1>2 DEF vars, hostVars, uartVars, mainVars, txVars, rxVars, pins, chipVars, history,
                   IInv
  <2>1. TypeOK' /\ HalfReset' /\ Exchange'
    BY DEF TypeOK, HalfReset, Exchange, Tx, Rx
  <2>2. Link'
    BY DEF Link, Fresh, Done, Tx, Rx, Serdes, Restarted, Listening, Armed, Sending, Sent,
           Performed, Receiving, Silent
  <2>3. Arrived' /\ Carried' /\ Returned'
    BY DEF Arrived, Carried, Returned, InFrame, InBits, InCell, Highs
  <2> QED BY <2>1, <2>2, <2>3
<1> QED BY <1>1, <1>2

(* So it holds in every state.                                              *)
LEMMA InvInductive == Spec => []IInv
BY InitIInv, NextIInv, PTL DEF Spec

-----------------------------------------------------------------------------
(* Offsets stay inside the bit buffers (BUFFER_SIZE) and cells hold what      *)
(* fits their field, though TL_update looks at no limit of its own.         *)
THEOREM TypeCorrect == Spec => []TypeOK
BY InvInductive, PTL DEF IInv

(* Neither direction of the link loses, repeats or moves a bit: sender and   *)
(* receiver of each are in step at every clock edge, wherever in APP_main    *)
(* the edge comes.                                                          *)
THEOREM LinkCorrect == Spec => []InOrder
<1>1. IInv => InOrder
  <2> SUFFICES ASSUME IInv PROVE SentInOrder /\ ReceivedInOrder
    BY DEF InOrder
  <2> USE DEF IInv
  <2>1. SentInOrder
    <3> SUFFICES ASSUME MOSI_Valid = 1 PROVE \E o \in 1 .. 4 : Sending(o)
      BY DEF SentInOrder, Carried, Sending, Tx, Rx, Serdes
    <3> QED BY DEF HalfReset, Link, Fresh, Done, Restarted, Listening, Armed, Sent, Performed,
                   Receiving, Silent,
                   Tx, Rx, Serdes, TypeOK
  <2>2. ReceivedInOrder
    <3> SUFFICES ASSUME chip = "send", host # "stm_reset"
                 PROVE  /\ MISO_Ready = 1
                        /\ execs = 0 => chip_bit = TOTAL_SIZE - 1
                        /\ execs = 1 => /\ rx_bit_offset = chip_bit + 1
                                        /\ \A i \in 0 .. chip_bit : rx_buffer[i] = chip_out[i]
      BY DEF ReceivedInOrder
    <3>1. /\ MISO_Ready = 1 /\ (execs = 0 => chip_bit = 3)
          /\ execs = 1 => rx_bit_offset = chip_bit + 1 /\ chip_bit \in 0 .. 3
      BY DEF Link, Exchange, Working, Fresh, Done, Restarted, Listening, Armed, Sending, Sent,
             Performed, Receiving, Silent,
             Tx, Rx, Serdes, TypeOK
    <3>2. execs = 1 => \A i \in 0 .. chip_bit : rx_buffer[i] = chip_out[i]
      BY <3>1 DEF Returned
    <3> QED BY <3>1, <3>2
  <2> QED BY <2>1, <2>2
<1> QED BY <1>1, InvInductive, PTL

(* When the script may ask, nothing of the last exchange is left anywhere:   *)
(* not on the wire, not flagged, not armed, not in the chip's serdes.       *)
THEOREM QuietCorrect == Spec => []QuietBetweenRequests
<1>1. IInv => QuietBetweenRequests
  <2> SUFFICES ASSUME IInv, host = "idle" PROVE QuietBetweenRequests
    BY DEF QuietBetweenRequests
  <2>1. wire = "quiet" /\ frame_pending = 0 /\ pc \in {"loop", "replied"} /\ ~half_event
    BY DEF IInv, Exchange
  <2>2. Fresh \/ Done
    BY <2>1 DEF IInv, Link
  <2> QED BY <2>1, <2>2 DEF QuietBetweenRequests, Fresh, Done, Tx, Rx, Serdes
<1> QED BY <1>1, InvInductive, PTL

(* APP_main writes the bit buffer only while TL_update does not send from it. *)
THEOREM BufferCorrect == Spec => BufferStableWhileSending
<1>1. IInv /\ [Next]_vars => [tx_pending = 1 /\ tx_pending' = 1 => tx_buffer' = tx_buffer]_vars
  <2> SUFFICES ASSUME IInv, Next, tx_pending = 1, tx_pending' = 1 PROVE tx_buffer' = tx_buffer
    BY DEF vars
  <2>1. pc = "spin" /\ host # "stm_reset"
    BY DEF IInv, HalfReset, Link, Fresh, Done, Restarted, Listening, Tx, TypeOK
  <2>2. ~MainSerialize /\ ~ResetStm
    BY <2>1 DEF MainSerialize, ResetStm, FirmwareReset
  <2> QED BY <2>2 DEF Next, HostAsk, HostKill, ResetChip, Uart, UartHead, UartTail, HalfEvent,
                      IdleEvent, Main,
                      MainPoll, MainRestart, MainEnableRx, MainEnableTx, MainFinish, MainReply,
                      MainReturn,
                      ChipPerform, Edge
<1>2. Spec => [][Next]_vars
  BY PTL DEF Spec
<1> QED BY <1>1, <1>2, InvInductive, PTL DEF BufferStableWhileSending

-----------------------------------------------------------------------------
(* The refinement: in the words of RemoteMemory.                            *)
NowJob == IF host = "idle" THEN "none"
          ELSE IF execs = 0 THEN "asked" ELSE IF execs = 1 THEN "done" ELSE "twice"
NowReq == [put |-> req["opcode"] = PUTFULLDATA, addr |-> req["address"],
           lo |-> req["lo"], hi |-> req["hi"]]
NowRes == <<chip_out[3] = ACCESSACK, <<chip_out[0], chip_out[1]>>>>
Up     == host \in {"idle", "waiting"}

(* A request in a frame is a request of RemoteMemory.                       *)
LEMMA RequestMaps ==
    ASSUME NEW r \in Request
    PROVE  [put |-> r["opcode"] = PUTFULLDATA, addr |-> r["address"], lo |-> r["lo"], hi |-> r["hi"]]
             \in Memory!Request
BY DEF Request, Memory!Request

(* And so is the frame before the first one.                                *)
LEMMA NoRequestMaps ==
    [put |-> NoRequest["opcode"] = PUTFULLDATA, addr |-> NoRequest["address"],
     lo |-> NoRequest["lo"], hi |-> NoRequest["hi"]] = Memory!NoRequest
<1>1. /\ NoRequest["opcode"] = GET /\ NoRequest["address"] = CHOOSE a \in Addr : TRUE
      /\ NoRequest["lo"] = 0 /\ NoRequest["hi"] = 0
  BY DEF NoRequest, Field
<1>2. (NoRequest["opcode"] = PUTFULLDATA) = FALSE
  BY <1>1
<1> QED BY <1>1, <1>2, Zenon DEF Memory!NoRequest

(* Power-up is the initial state of RemoteMemory.                           *)
LEMMA InitMaps == Init => Memory!AInit
<1> SUFFICES ASSUME Init PROVE Memory!AInit
  OBVIOUS
<1>1. Word(got) = Memory!Written /\ NowRes = Memory!Written
  <2>1. /\ got["opcode"] = 0 /\ got["lo"] = 0 /\ got["hi"] = 0
        /\ chip_out[3] = 0 /\ chip_out[0] = 0 /\ chip_out[1] = 0
    BY DEF Init, ChipInit, ZeroFrame, ZeroBuffer, Field
  <2>2. (got["opcode"] = ACCESSACK) = TRUE /\ (chip_out[3] = ACCESSACK) = TRUE
    BY <2>1
  <2> QED BY <2>1, <2>2, Zenon DEF Word, NowRes, Memory!Written
<1>2. NowReq = Memory!NoRequest
  BY NoRequestMaps DEF Init, NowReq
<1> QED BY <1>1, <1>2 DEF Init, Memory!AInit, NowReq, NowRes

(* A step that changes none of this is no step of the memory.               *)
LEMMA Stutters ==
    ASSUME UNCHANGED <<mem, Up, NowJob, req, stale, chip_out, got>>
    PROVE  UNCHANGED Memory!avars
BY DEF Memory!avars, Up, NowJob, Word

(* What the host does is Ask or Abandon, the reset of the chip Recover;     *)
(* that of the board nobody sees.                                           *)
LEMMA HostMaps ==
    ASSUME IInv, (\E r \in Request : HostAsk(r)) \/ HostKill \/ ResetStm \/ ResetChip
    PROVE  [Memory!ANext]_(Memory!avars)
<1> USE DEF IInv
<1>1. ASSUME NEW r \in Request, HostAsk(r) PROVE Memory!ANext
  <2>1. stale' = req["hi"]
    BY <1>1 DEF HostAsk, Arrived
  <2>2. Memory!Ask(NowReq')
    BY <1>1, <2>1 DEF HostAsk, Memory!Ask, NowReq, chipVars, Word
  <2>3. NowReq' \in Memory!Request
    BY <1>1, RequestMaps DEF NowReq, HostAsk
  <2> QED BY <2>2, <2>3 DEF Memory!ANext
<1>2. CASE HostKill
  <2>1. Memory!Abandon
    BY <1>2 DEF HostKill, Exchange, Memory!Abandon, chipVars, history, Word
  <2> QED BY <2>1 DEF Memory!ANext
<1>3. CASE ResetStm
  BY <1>3, Stutters DEF ResetStm, chipVars, history, Up, NowJob
<1>4. CASE ResetChip
  <2>1. NowReq' = Memory!NoRequest
    BY <1>4, NoRequestMaps DEF ResetChip, NowReq
  <2>2. NowRes' = Memory!Written
    <3>1. chip_out'[3] = 0 /\ chip_out'[0] = 0 /\ chip_out'[1] = 0
      BY <1>4 DEF ResetChip, ChipReset, ZeroBuffer
    <3>2. (chip_out'[3] = ACCESSACK) = TRUE
      BY <3>1
    <3> QED BY <3>1, <3>2, Zenon DEF NowRes, Memory!Written
  <2>3. Memory!Recover
    BY <1>4, <2>1, <2>2 DEF ResetChip, Memory!Recover, NowReq, NowRes, Word
  <2> QED BY <2>3 DEF Memory!ANext
<1> QED BY <1>1, <1>2, <1>3, <1>4

(* The chip performs the request that was asked, with the high half that    *)
(* the frame had when the callback passed it on.                            *)
LEMMA PerformMaps ==
    ASSUME IInv, ChipPerform
    PROVE  Memory!Perform
<1> DEFINE put == req["opcode"] = PUTFULLDATA
<1>1. /\ UNCHANGED <<host, req, stale, got>> /\ execs = 0 /\ execs' = 1 /\ host # "idle"
      /\ chip_in[1] \in {req["hi"], stale}
  BY Performing DEF ChipPerform, hostVars, Highs
<1>2. CASE put
  <2>1. /\ mem' = [mem EXCEPT ![req["address"]] = <<req["lo"], chip_in[1]>>]
        /\ chip_out'[3] = ACCESSACK /\ chip_out'[0] = 0 /\ chip_out'[1] = 0
    BY <1>2, Outcome
  <2>2. (chip_out'[3] = ACCESSACK) = TRUE
    BY <2>1
  <2>3. NowRes' = Memory!Written
    BY <2>1, <2>2, Zenon DEF NowRes, Memory!Written
  <2>4. \E hi \in {req["hi"], stale} : mem' = [mem EXCEPT ![req["address"]] = <<req["lo"], hi>>]
    BY <1>1, <2>1, Zenon
  <2>5. NowReq.put /\ NowReq.addr = req["address"] /\ NowReq.lo = req["lo"] /\ NowReq.hi = req["hi"]
    BY <1>2 DEF NowReq
  <2>6. \E hi \in {NowReq.hi, stale} : mem' = [mem EXCEPT ![NowReq.addr] = <<NowReq.lo, hi>>]
    BY <2>4, <2>5, Zenon
  <2>7. NowJob = "asked" /\ NowJob' = "done"
    BY <1>1 DEF NowJob
  <2>8. UNCHANGED <<Up, NowReq, stale, Word(got)>>
    BY <1>1 DEF Up, NowReq, Word, ChipPerform, hostVars
  <2> QED BY <2>3, <2>5, <2>6, <2>7, <2>8, Zenon DEF Memory!Perform, NowReq, NowRes, NowJob, Up
<1>3. CASE ~put
  <2>1. /\ mem' = mem /\ mem[req["address"]] \in Half \X Half
        /\ chip_out'[3] = ACCESSACKDATA
        /\ chip_out'[0] = mem[req["address"]][1] /\ chip_out'[1] = mem[req["address"]][2]
    BY <1>3, Outcome
  <2>2. (chip_out'[3] = ACCESSACK) = FALSE /\ <<chip_out'[0], chip_out'[1]>> = mem[req["address"]]
    BY <2>1
  <2>3. NowRes' = <<FALSE, mem[req["address"]]>>
    BY <2>2, Zenon DEF NowRes
  <2> QED BY <1>1, <1>3, <2>1, <2>3 DEF Memory!Perform, NowRes, Word
<1> QED BY <1>2, <1>3

(* The reply reaches the host that waits, or nobody.                        *)
LEMMA ReplyMaps ==
    ASSUME IInv, MainReply
    PROVE  [Memory!ANext]_(Memory!avars)
<1> USE DEF MainReply, uartVars, chipVars, history
<1>1. CASE host = "waiting"
  <2>1. execs = 1 /\ \A i \in 0 .. 3 : serial_tx_buffer[FieldAt(i)] = chip_out[i]
    BY DEF IInv, Exchange, Returned
  <2>2. Word(got)' = NowRes
    BY <1>1, <2>1, Fields DEF Word, NowRes
  <2>3. Memory!Answer
    BY <1>1, <2>1, <2>2 DEF Memory!Answer, NowRes
  <2> QED BY <2>3 DEF Memory!ANext
<1>2. CASE host # "waiting"
  BY <1>2, Stutters DEF Up, NowJob
<1> QED BY <1>1, <1>2

(* Each step is one of RemoteMemory or changes nothing it speaks of.        *)
LEMMA NextMaps == IInv /\ [Next]_vars => [Memory!ANext]_(Memory!avars)
<1> SUFFICES ASSUME IInv, [Next]_vars PROVE [Memory!ANext]_(Memory!avars)
  OBVIOUS
<1>1. CASE Uart
  <2>1. UNCHANGED <<mem, host, execs, req, stale, chip_out, got>>
    BY <1>1 DEF Uart, UartHead, UartTail, HalfEvent, IdleEvent, hostVars, chipVars, history
  <2> QED BY <2>1, Stutters DEF Up, NowJob
<1>2. CASE Main /\ ~MainReply
  <2>1. UNCHANGED <<mem, host, execs, req, stale, chip_out, got>>
    BY <1>2 DEF Main, MainPoll, MainSerialize, MainRestart, MainEnableRx, MainEnableTx,
                MainFinish, MainReturn,
                hostVars, chipVars, history
  <2> QED BY <2>1, Stutters DEF Up, NowJob
<1>3. CASE Edge
  <2>1. UNCHANGED <<mem, host, execs, req, stale, chip_out, got>>
    BY <1>3, EdgeFrame DEF Edge, ChipEdge, chipVars
  <2> QED BY <2>1, Stutters DEF Up, NowJob
<1>4. CASE UNCHANGED vars
  <2>1. UNCHANGED <<mem, host, execs, req, stale, chip_out, got>>
    BY <1>4 DEF vars, hostVars, chipVars, history
  <2> QED BY <2>1, Stutters DEF Up, NowJob
<1>5. CASE ChipPerform
  BY <1>5, PerformMaps DEF Memory!ANext
<1> QED BY <1>1, <1>2, <1>3, <1>4, <1>5, HostMaps, ReplyMaps DEF Next

(* Every request is performed exactly once and answered with what that       *)
(* produced, for any interleaving of the callback, APP_main, TL_update and  *)
(* the chip, and through kills and the documented resets.                   *)
THEOREM AdapterIsMemory == Spec => ImplementsMemory
<1>1. Spec => [][Next]_vars
  BY PTL DEF Spec
<1>2. Spec => Memory!AInit
  BY InitMaps DEF Spec
<1> QED BY <1>1, <1>2, NextMaps, InvInductive, PTL DEF ImplementsMemory, Memory!ASpec
=============================================================================
