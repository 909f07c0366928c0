--------------------------- MODULE SyscallTarget ---------------------------
(***************************************************************************)
(* A program on the chip that talks to the host: putchar, syscall and exit  *)
(* of common/syscalls.c, under the trap entry of crt.S and the interrupt    *)
(* dispatch of ee290c_devices.c, with the host of module HtifHost.          *)
(*                                                                          *)
(* The program prints characters, numbered in the order in which it prints  *)
(* them, and exits.  An interrupt may come between any two of its steps;    *)
(* its handler runs to its end before the program goes on, and prints too   *)
(* or does not.  The console commands stand for a target kernel that uses   *)
(* the other devices of the list; it is not part of this repository and is  *)
(* taken to wait for a free tohost, as the interface asks.                  *)
(***************************************************************************)
EXTENDS HtifHost

CONSTANTS
  BUF,             \* sizeof(buf) in putchar, 64 in the code
  MaxChars,        \* bound of the model: characters printed in a run
  MaxTraps,        \* bound of the model: interrupts in a run
  HandlerPrints,   \* whether interrupt handlers print (baseband-rx-exit.c) or not (baseband-rx.c)
  ExitCodes,       \* what main may return
  Console          \* pairs <<device, command>> of the console commands

ASSUME BufAssumption    == BUF \in Nat /\ BUF > 0
ASSUME BoundsAssumption == MaxChars \in Nat /\ MaxTraps \in Nat
ASSUME HandlerAssumption == HandlerPrints \in BOOLEAN
ASSUME ExitAssumption   == ExitCodes \subseteq Ints
ASSUME ConsoleAssumption == Console \subseteq (1 .. 255) \X (0 .. 255)

Context == {"main", "trap"}
FrameOf(c) == IF c = "main" THEN 2 ELSE 4
ASSUME FrameAssumption == Frames = {2, 4}

VARIABLES tpc,     \* where the program and the handler are
          asked,   \* the command that each has in the mailbox
          buflen,  \* how much of buf putchar has filled; what is behind it is from before
          next,    \* the number of the next character to print
          traps,   \* interrupts so far
          code     \* what the program exits with

targetVars == <<tpc, asked, buflen, next, traps, code>>
vars == <<hvars, targetVars>>

Init == /\ HostInit
        /\ magic_mem = [a \in Frames |-> [word0 |-> 0, len |-> 0]]
        /\ buf = <<>>
        /\ tpc = [c \in Context |-> IF c = "main" THEN "run" ELSE "off"]
        /\ asked = [c \in Context |-> Zero]
        /\ buflen = 0 /\ next = 1 /\ traps = 0 /\ code = 0

-----------------------------------------------------------------------------
(* While a handler is active the program below it does not run.             *)
Runs(c, place) == tpc[c] = place /\ (c = "main" => tpc["trap"] = "off")
Goto(c, place) == tpc' = [tpc EXCEPT ![c] = place]
Unhosted == UNCHANGED hostVars

(* putchar: a newline or the last free place sends the buffer to the host.   *)
Putchar(c, newline) ==
    /\ Runs(c, "run") /\ next <= MaxChars
    /\ c = "trap" => HandlerPrints
    /\ buf' = IF buflen < Len(buf) THEN [buf EXCEPT ![buflen + 1] = next] ELSE Append(buf, next)
    /\ buflen' = buflen + 1
    /\ next' = next + 1
    /\ Goto(c, IF newline \/ buflen + 1 = BUF THEN "write" ELSE "run")
    /\ UNCHANGED <<mailbox, magic_mem, asked, traps, code>> /\ Unhosted

(* syscall: the arguments, then tohost, whatever is in it.                   *)
Syscall(c) ==
    /\ Runs(c, "write")
    /\ magic_mem' = [magic_mem EXCEPT ![FrameOf(c)] = [word0 |-> SYS_write, len |-> buflen]]
    /\ tohost' = Command(SYSCALL_DEVICE, 0, FrameOf(c))
    /\ asked' = [asked EXCEPT ![c] = Command(SYSCALL_DEVICE, 0, FrameOf(c))]
    /\ Goto(c, "wait")
    /\ UNCHANGED <<fromhost, buf, buflen, next, traps, code>> /\ Unhosted

(* while (fromhost == 0);                                                    *)
SeeReply(c) ==
    /\ Runs(c, "wait") /\ fromhost # Zero
    /\ Goto(c, "ack")
    /\ UNCHANGED <<mailbox, magic_mem, buf, asked, buflen, next, traps, code>> /\ Unhosted

(* fromhost = 0, and a syscall that leaves the reply for the next one.        *)
Acknowledged_Not == fromhost
Acknowledged     == Zero

Acknowledge(c) ==
    /\ Runs(c, "ack")
    /\ fromhost' = Acknowledged
    /\ Goto(c, "back")
    /\ UNCHANGED <<tohost, magic_mem, buf, asked, buflen, next, traps, code>> /\ Unhosted

(* The buffer after a write: buflen = 0, and a putchar that forgets it.       *)
Emptied_Not == buflen
Emptied     == 0

(* The call returns to putchar, or to the console's user.                    *)
Return(c) ==
    /\ Runs(c, "back")
    /\ buflen' = IF asked[c].dev = SYSCALL_DEVICE THEN Emptied ELSE buflen
    /\ Goto(c, "run")
    /\ UNCHANGED <<mailbox, magic_mem, buf, asked, next, traps, code>> /\ Unhosted

(* tohost_exit: the code moves up by one in the 32 bits of a uintptr_t, which  *)
(* takes its highest bit; what putchar still holds is not sent.             *)
ExitPayload(result) == (2 * result + 1) % INT

Exit(result) ==
    /\ Runs("main", "run")
    /\ code' = result
    /\ tohost' = Command(SYSCALL_DEVICE, 0, ExitPayload(result))
    /\ Goto("main", "exit")
    /\ UNCHANGED <<fromhost, magic_mem, buf, asked, buflen, next, traps>> /\ Unhosted

(* A command to another device, answered or not, by a target that waits for  *)
(* tohost before and, without an answer to wait for, after it; a console    *)
(* write carries a character that does not overtake those in the buffer.    *)
Answered(pair) == pair[2] = IDENTIFY \/ pair = <<BCD_DEVICE, 0>>
Writes(pair)   == pair = <<BCD_DEVICE, 1>>

ConsoleCommand(pair) ==
    LET request == Command(pair[1], pair[2], IF Writes(pair) THEN next ELSE 0)
    IN /\ Runs("main", "run") /\ tohost = Zero
       /\ Writes(pair) => buflen = 0 /\ next <= MaxChars
       /\ next' = IF Writes(pair) THEN next + 1 ELSE next
       /\ tohost' = request
       /\ asked' = [asked EXCEPT !["main"] = request]
       /\ Goto("main", IF Answered(pair) THEN "wait" ELSE "sent")
       /\ UNCHANGED <<fromhost, magic_mem, buf, buflen, traps, code>> /\ Unhosted

ConsoleTaken ==
    /\ Runs("main", "sent") /\ tohost = Zero
    /\ Goto("main", "run")
    /\ UNCHANGED <<mailbox, magic_mem, buf, asked, buflen, next, traps, code>> /\ Unhosted

(* An interrupt, and the return from its handler; handle_trap's frames leave *)
(* the stack and their contents may be overwritten.                         *)
Trap ==
    /\ tpc["trap"] = "off" /\ tpc["main"] # "exit" /\ traps < MaxTraps
    /\ traps' = traps + 1
    /\ Goto("trap", "run")
    /\ UNCHANGED <<mailbox, magic_mem, buf, asked, buflen, next, code>> /\ Unhosted

TrapReturn ==
    /\ tpc["trap"] = "run"
    /\ Goto("trap", "off")
    /\ \E word \in {magic_mem[FrameOf("trap")].word0, 0} :
         magic_mem' = [magic_mem EXCEPT ![FrameOf("trap")].word0 = word]
    /\ UNCHANGED <<mailbox, buf, asked, buflen, next, traps, code>> /\ Unhosted

(* What the processor does without being free to do otherwise.               *)
Proceed(c) == Syscall(c) \/ SeeReply(c) \/ Acknowledge(c) \/ Return(c)

TargetStep == \/ \E c \in Context : (\E newline \in BOOLEAN : Putchar(c, newline)) \/ Proceed(c)
              \/ \E result \in ExitCodes : Exit(result)
              \/ \E pair \in Console : ConsoleCommand(pair)
              \/ ConsoleTaken \/ Trap \/ TrapReturn

Next == (HostStep /\ UNCHANGED targetVars) \/ (Signal /\ UNCHANGED targetVars) \/ TargetStep

(* Host and processor run; a handler returns; the program and the user are   *)
(* free in what they do next.                                               *)
Fairness == /\ WF_vars(HostStep /\ UNCHANGED targetVars)
            /\ \A c \in Context : WF_vars(Proceed(c))
            /\ WF_vars(ConsoleTaken) /\ WF_vars(TrapReturn)

Spec == Init /\ [][Next]_vars /\ Fairness

-----------------------------------------------------------------------------
CommandType == [dev : 0 .. 255, cmd : 0 .. 255, payload : Nat]

TypeOK ==
    /\ tohost \in CommandType /\ fromhost \in CommandType /\ command \in CommandType
    /\ magic_mem \in [Frames -> [word0 : Nat, len : Nat]]
    /\ buf \in Seq(Nat) /\ output \in Seq(Nat)
    /\ hpc \in {"poll", "clear", "handle", "perform", "writeback", "tick", "deliver", "answer",
                "stopped", "died"}
    /\ len \in Nat /\ exitcode \in Ints /\ signal_exit \in BOOLEAN
    /\ fromhost_queue \in Seq(CommandType) /\ Len(fromhost_queue) <= 1
    /\ pending_reads \in Seq(CommandType) /\ Len(pending_reads) <= 1
    /\ tpc \in [Context -> {"off", "run", "write", "wait", "ack", "back", "sent", "exit"}]
    /\ asked \in [Context -> CommandType]
    /\ buflen \in 0 .. BUF /\ next \in Nat /\ traps \in Nat /\ code \in Ints

(* Where a command can be while its caller waits: in tohost, with the host,   *)
(* among the pending reads, in the queue of replies, in fromhost.           *)
Holding == hpc \in {"handle", "perform", "writeback"} /\ command = asked["main"]
Places  == {p \in {"tohost", "host", "pending", "queue", "fromhost"} :
              CASE p = "tohost"   -> tohost # Zero
                [] p = "host"     -> Holding
                [] p = "pending"  -> pending_reads # <<>>
                [] p = "queue"    -> fromhost_queue # <<>>
                [] p = "fromhost" -> fromhost # Zero}

(* A command that is waited for is in exactly one place, and there alone: it  *)
(* is neither lost in the host's gap between reading and clearing tohost,   *)
(* nor served or answered twice.                                            *)
OnePlace ==
    tpc["main"] = "wait" /\ hpc # "died" =>
        \E p \in Places : Places = {p}

(* A reply in fromhost answers the command that is waited for, and after a    *)
(* write its result is in magic_mem and its characters are on the terminal. *)
ReplyMeansDone ==
    fromhost # Zero /\ tpc["main"] \in {"wait", "ack"} =>
        LET mine == asked["main"]
        IN /\ fromhost.dev = mine.dev /\ fromhost.cmd = mine.cmd
           /\ mine.dev = SYSCALL_DEVICE =>
                /\ magic_mem[mine.payload].word0 = buflen
                /\ Len(output) >= buflen
                /\ SubSeq(output, Len(output) - buflen + 1, Len(output)) = SubSeq(buf, 1, buflen)

(* Whatever the interleaving, the characters come out in the order in which   *)
(* the program printed them, each once, none left out in the middle.        *)
OutputInOrder == \A i \in 1 .. Len(output) : output[i] = i

(* The host reads and writes only frames of calls that have not returned.     *)
FrameInUse == hpc \in {"perform", "writeback"} =>
                \E c \in Context : FrameOf(c) = command.payload /\ tpc[c] = "wait"

(* A run that ends by itself reports what the program returned, if that fits  *)
(* in one bit less than an int, negative codes included.  Of any other code   *)
(* the highest bit is lost on its way through tohost, and only that: what     *)
(* is reported differs by the weight of that bit.                           *)
Short == -(INT \div 4) .. INT \div 4 - 1
ExitReported == hpc = "stopped" /\ ~signal_exit =>
    /\ tpc["main"] = "exit"
    /\ code \in Short => exit_code = code
    /\ code \notin Short => exit_code = code + (IF code < 0 THEN INT \div 2 ELSE -(INT \div 2))

Over == hpc \in {"stopped", "died"}

(* Every print returns and every program that exits ends the host's loop,     *)
(* unless the user ends it first.                                           *)
PrintReturns == tpc["main"] = "wait" /\ asked["main"].dev = SYSCALL_DEVICE
                  ~> tpc["main"] # "wait" \/ Over
ExitEnds     == tpc["main"] = "exit" ~> Over
=============================================================================
