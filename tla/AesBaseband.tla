---------------------------- MODULE AesBaseband -----------------------------
(***************************************************************************)
(* The test programs of aes/ and aes-baseband/ on the driver of aes.h, with  *)
(* the PLIC helpers of ee290c_devices.c and the send command of baseband.h.  *)
(* A program is a list of the operations that its main performs in turn.     *)
(*                                                                          *)
(* The baseband loads the packet, sends it and raises interrupt 10, or fails *)
(* and raises 9.  The program that sends prints, and so does its handler:    *)
(* module Console.  The prints of the others are left out: nothing           *)
(* interrupts them, so they return (SyscallTarget) and leave nothing behind. *)
(***************************************************************************)
EXTENDS Aes, Console

VARIABLES
  mode,                \* what the program tests
  pc,                  \* the operation of main that comes next
  enabled,             \* the PLIC's enables of this hart, with a priority above 0
  pending, claimed,    \* the PLIC's gateways: raised, and claimed but not completed
  connected,           \* the handler is set and interrupts are enabled
  handler, irqSource,  \* where plic_handler is, and its local
  done_status,
  payload,             \* the packet in memory
  additional_data,     \* the baseband's register for an address
  radio,               \* what the baseband is doing
  air                  \* history: the packet that was sent

program == <<mode, pc, done_status, payload>>
plic == <<enabled, pending, claimed, connected>>
trap == <<handler, irqSource>>
baseband == <<additional_data, radio, air>>
vars == <<aesVars, program, plic, trap, baseband, consoleVars>>

ONE == 1    \* keyone, of 128 bits
TWO == 2    \* keytwo, of 256
Expected(k) == IF k = ONE THEN "one" ELSE "two"

Aes(fn, k, from, i, n) == [op |-> "aes", fn |-> fn, key |-> k, n |-> n,
                           src |-> <<from, i>>, dest |-> <<"filler", i>>]
Check(array) == [op |-> "check", array |-> array]
Do(op) == [op |-> op]
Line(n) == [op |-> "print", n |-> n]   \* a printf that takes n writes

(* The calls that process a text from the array "from".                     *)
Multiple(fn, k, from) == <<Aes(fn, k, from, 1, N)>>
Single(fn, k, from)   == [i \in 1 .. N |-> Aes(fn, k, from, i, 1)]
Consecutive(fn, nokey, k, from) ==
    [i \in 1 .. N |-> Aes(IF i = 1 THEN fn ELSE nokey, k, from, i, 1)]

(* The functions that a program tests, and its calls of one of them.        *)
Encrypting == IF mode = "cbc" THEN "CBC_ENC" ELSE IF mode = "ctr" THEN "CTR" ELSE "ECB_ENC"
Decrypting == IF mode = "cbc" THEN "CBC_DEC" ELSE IF mode = "ctr" THEN "CTR" ELSE "ECB_DEC"
Calls(fn, nokey, k, from) ==
    IF mode = "ecb-single" THEN Single(fn, k, from)
    ELSE IF mode = "ecb-consecutive" THEN Consecutive(fn, nokey, k, from)
    ELSE Multiple(fn, k, from)

(* Encrypt and check, decrypt the expected ciphertext and check.            *)
Loop(k) == Calls(Encrypting, "NO_KEY_ENC", k, "plain") \o <<Check(Expected(k))>>
             \o Calls(Decrypting, "NO_KEY_DEC", k, Expected(k)) \o <<Check("plain")>>

Script == IF mode = "tx"
            THEN <<Do("connect"), Line(1), Aes("ECB_ENC", ONE, "plain", 1, 1), Line(1),
                   Do("packet"), Line(1), Do("address"), Do("send"), Do("wait"),
                   Line(2), Line(1), Check("payload"), Line(2)>>
            ELSE Loop(ONE) \o Loop(TWO)

Text == [i \in 1 .. N |-> {<<"text", i, {}>>}]
Reference(k) == IF mode = "cbc" THEN Cbc(k, Text)
                ELSE IF mode = "ctr" THEN Ctr(k, Text) ELSE Ecb(k, Text)
Blank == [i \in 1 .. N |-> {}]

Init == /\ AesInit /\ ConsoleInit
        /\ mode \in {"ecb-multiple", "ecb-single", "ecb-consecutive", "cbc", "ctr", "tx"}
        /\ mem = [plain |-> Text, one |-> Reference(ONE), two |-> Reference(TWO),
                  filler |-> Blank, iv |-> [i \in 1 .. 1 |-> BlockOf(iv)]]
        /\ pc = 1 /\ done_status = FALSE /\ payload = <<>>
        /\ enabled = {} /\ pending = {} /\ claimed = {} /\ connected = FALSE
        /\ handler = "no" /\ irqSource = 0
        /\ additional_data = "none" /\ radio = "idle" /\ air = <<>>

-----------------------------------------------------------------------------
(* main, which runs while no handler does.                                  *)
Reaches(op) == /\ at = "return" /\ handler = "no" /\ Printed("main")
               /\ pc <= Len(Script) /\ Script[pc].op = op
Main(op) == /\ Reaches(op)
            /\ pc' = pc + 1
            /\ UNCHANGED <<mode, pending, claimed, trap, consoleVars>>

PrintLine == /\ Reaches("print")
             /\ pc' = pc + 1
             /\ Prints("main", Script[pc].n)
             /\ UNCHANGED <<aesVars, mode, done_status, payload, plic, trap, baseband>>
InPrint   == /\ handler = "no" /\ PrintStep("main")
             /\ UNCHANGED <<aesVars, program, plic, trap, baseband>>

CallAes == /\ Main("aes")
           /\ Call(Script[pc])
           /\ UNCHANGED <<enabled, connected, done_status, payload, baseband>>

CheckBytes == /\ Main("check")
              /\ UNCHANGED <<aesVars, enabled, connected, done_status, payload, baseband>>

(* plic_enable_for_hart and plic_set_priority for both, clint_connect_       *)
(* interrupt and the two enables.                                           *)
Connect == /\ Main("connect")
           /\ enabled' = {9, 10} /\ connected' = TRUE
           /\ UNCHANGED <<aesVars, done_status, payload, baseband>>

(* createPacket: a header with the size, and the ciphertext.                *)
CreatePacket == /\ Main("packet")
                /\ payload' = <<"header", mem.filler[1]>>
                /\ UNCHANGED <<aesVars, enabled, connected, done_status, baseband>>

(* ble_send writes the address, then the command that makes the baseband     *)
(* look at it; or the other way round.                                      *)
First_Swapped == "send"
First         == "address"

BleSend == \E op \in {"address", "send"} :
    /\ Main(op)
    /\ IF (op = "address") = (First = "address")
         THEN additional_data' = "payload" /\ UNCHANGED radio
         ELSE radio' = additional_data /\ UNCHANGED additional_data
    /\ UNCHANGED <<aesVars, enabled, connected, done_status, payload, air>>

(* while (done_status != 1) printf("*"): a star that fills putchar's buffer  *)
(* is written out; the others stay in it.                                   *)
Star == /\ Reaches("wait") /\ ~done_status
        /\ Prints("main", 1)
        /\ UNCHANGED <<aesVars, program, plic, trap, baseband>>
Wait == /\ done_status
        /\ Main("wait")
        /\ UNCHANGED <<aesVars, enabled, connected, done_status, payload, baseband>>

(* The driver's steps are main's.                                           *)
InDriver == /\ handler = "no" /\ DriverStep
            /\ UNCHANGED <<program, plic, trap, baseband, consoleVars>>

-----------------------------------------------------------------------------
(* The baseband loads what the address it was given points to.              *)
Baseband == /\ \/ /\ radio \in {"payload", "none"}
                  /\ air' = IF radio = "payload" THEN payload ELSE <<"stray">>
                  /\ radio' = "sending"
                  /\ UNCHANGED pending
               \/ /\ radio = "sending"
                  /\ \E irq \in {9, 10} :
                        pending' = pending \cup {irq} /\ radio' = IF irq = 9 THEN "failed" ELSE "sent"
                  /\ UNCHANGED air
            /\ UNCHANGED <<aesVars, program, enabled, claimed, connected, trap, additional_data,
                           consoleVars>>

(* plic_handler: claim, print what came and what of it, act, complete.  The  *)
(* first line may follow stars in the buffer, and fill it.                   *)
Claim == /\ connected /\ handler = "no" /\ pending \cap enabled # {}
         /\ \E irq \in pending \cap enabled :
               /\ irqSource' = irq /\ pending' = pending \ {irq} /\ claimed' = claimed \cup {irq}
         /\ handler' = "claimed"
         /\ \E n \in {1, 2} : Prints("handler", n + 1)
         /\ UNCHANGED <<aesVars, program, enabled, connected, baseband>>

HandlerPrint == /\ handler = "claimed" /\ PrintStep("handler")
                /\ UNCHANGED <<aesVars, program, plic, trap, baseband>>

Finished == irqSource = 10

Handle == /\ handler = "claimed" /\ Printed("handler")
          /\ done_status' = (done_status \/ Finished)
          /\ handler' = "handled"
          /\ UNCHANGED <<aesVars, mode, pc, payload, plic, irqSource, baseband, consoleVars>>

Complete == /\ handler = "handled"
            /\ claimed' = claimed \ {irqSource} /\ handler' = "no"
            /\ UNCHANGED <<aesVars, program, enabled, pending, connected, irqSource, baseband,
                           consoleVars>>

Hart == \/ CallAes \/ CheckBytes \/ Connect \/ CreatePacket \/ BleSend \/ Star \/ Wait
        \/ PrintLine \/ InPrint \/ InDriver
Handler == Claim \/ HandlerPrint \/ Handle \/ Complete
Accelerate == Work /\ UNCHANGED <<program, plic, trap, baseband, consoleVars>>
Host == HostStep /\ UNCHANGED <<aesVars, program, plic, trap, baseband>>

Next == Hart \/ Handler \/ Accelerate \/ Baseband \/ Host

(* The hart and the host run, and both devices get on with their work.      *)
Spec == /\ Init /\ [][Next]_vars
        /\ WF_vars(Hart) /\ WF_vars(Handler) /\ WF_vars(Accelerate) /\ WF_vars(Baseband)
        /\ WF_vars(Host)

-----------------------------------------------------------------------------
(* checkBytes says PASSED: whatever the accelerator's pace, a mode built of  *)
(* calls, chained blocks and counters gives the ciphertext of its           *)
(* definition and takes it back to the text, for every initial vector; and  *)
(* the packet that was sent is the expected one.                            *)
Passes(array) == IF array = "payload" THEN payload = <<"header", mem.one[1]>>
                                      ELSE mem.filler = mem[array]
ChecksPass ==
    at = "return" /\ pc <= Len(Script) /\ Script[pc].op = "check" => Passes(Script[pc].array)

(* "TX Operation Finished": done_status is set only after the packet with    *)
(* the whole ciphertext was sent.                                           *)
DoneMeansSent ==
    done_status => radio = "sent" /\ air = <<"header", mem.one[1]>>

(* Every program ends, no poll, no wait for an interrupt and no print is for  *)
(* ever, with two exceptions.  When the baseband fails, main waits for       *)
(* done_status for ever; and when its interrupt comes while main is in       *)
(* syscall(), the handler's prints may take main's answer (syscalls_in_trap).  *)
Crossed  == handler # "no" /\ place["main"] # "no"
Finishes == <>(pc > Len(Script) \/ radio = "failed" \/ Crossed)
=============================================================================
