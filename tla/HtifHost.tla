------------------------------ MODULE HtifHost ------------------------------
(***************************************************************************)
(* The host half of the host-target interface of fesvr: the loop of         *)
(* htif_t::run, the device list with the syscall proxy and the console      *)
(* (device.cc, syscall.cc), and the two mailbox words tohost and fromhost   *)
(* in the target's memory.                                                  *)
(*                                                                          *)
(* The target runs while the host works: every access of the host to the    *)
(* target's memory is a step of its own.  The 64 bits of a mailbox word are *)
(* a device, a command and a payload; for the commands of the target code   *)
(* in this repository the upper half is 0, so a word changes in one store   *)
(* though a 32-bit target needs two.                                        *)
(*                                                                          *)
(* A module that models a target extends this one.                          *)
(***************************************************************************)
EXTENDS Integers, Sequences

CONSTANTS Keys,      \* what the user of the terminal may type
          Frames,    \* addresses of magic_mem: where syscall() keeps its arguments
          INT        \* how many values an int has, on the host and on the chip: 2^32

ASSUME KeysAssumption   == Keys \subseteq 0 .. 255
ASSUME FramesAssumption == Frames \subseteq Nat /\ \A a \in Frames : a > 0 /\ a % 2 = 0
ASSUME IntAssumption    == INT \in Nat \ {0} /\ INT % 4 = 0

(* The values of an int; what the conversion of an unsigned number of any     *)
(* width to int leaves of it; and x >> 1 of an int.                          *)
Ints     == -(INT \div 2) .. INT \div 2 - 1
ToInt(x) == LET low == x % INT IN IF low < INT \div 2 THEN low ELSE low - INT
Halved(x) == x \div 2

SYS_write == 64
SyscallTable == {SYS_write}   \* of the proxy's table: what syscalls.c calls
SYSCALL_DEVICE == 0
BCD_DEVICE     == 1
IDENTIFY == 255               \* command_t::MAX_COMMANDS - 1, on every device

Command(dev, cmd, payload) == [dev |-> dev, cmd |-> cmd, payload |-> payload]
Zero == Command(0, 0, 0)
(* command_t::respond: the upper 16 bits are those of the command, the lower  *)
(* 48 the response; and a respond that drops the response.                  *)
Reply_Bare(request, resp) == [request EXCEPT !.payload = 0]
Reply(request, resp)      == [request EXCEPT !.payload = resp]

VARIABLES
  tohost, fromhost,     \* the mailbox
  magic_mem,            \* the argument blocks: word 0, and the length to write
  buf,                  \* the target's print buffer, which sys_write reads
  hpc,                  \* where the host is in run()
  command, len,         \* what it has latched: the command, the length of a write
  fromhost_queue, pending_reads,
  output,               \* what came out on the terminal, as numbers of characters
  exitcode, signal_exit

mailbox == <<tohost, fromhost>>
hostVars == <<hpc, command, len, fromhost_queue, pending_reads, output, exitcode, signal_exit>>
hvars == <<mailbox, magic_mem, buf, hostVars>>

HostInit == /\ tohost = Zero /\ fromhost = Zero
            /\ hpc = "poll" /\ command = Zero /\ len = 0
            /\ fromhost_queue = <<>> /\ pending_reads = <<>>
            /\ output = <<>> /\ exitcode = 0 /\ signal_exit = FALSE

-----------------------------------------------------------------------------
(* htif_t::run: one turn of the loop polls, handles, ticks and delivers.    *)

HostPoll ==
    /\ hpc = "poll" /\ ~signal_exit /\ exitcode = 0
    /\ IF tohost # Zero THEN hpc' = "clear" /\ command' = tohost
                        ELSE hpc' = "tick" /\ UNCHANGED command
    /\ UNCHANGED <<mailbox, magic_mem, buf, len, fromhost_queue, pending_reads, output,
                   exitcode, signal_exit>>

HostStop ==
    /\ hpc = "poll" /\ (signal_exit \/ exitcode # 0)
    /\ hpc' = "stopped"
    /\ UNCHANGED <<mailbox, magic_mem, buf, command, len, fromhost_queue, pending_reads, output,
                   exitcode, signal_exit>>

(* What run() leaves in tohost before it handles the command.                *)
Cleared_Not == tohost
Cleared     == Zero

HostClear ==
    /\ hpc = "clear"
    /\ hpc' = "handle"
    /\ tohost' = Cleared
    /\ UNCHANGED <<fromhost, magic_mem, buf, command, len, fromhost_queue, pending_reads, output,
                   exitcode, signal_exit>>

(* What becomes exitcode, an int; a handler that strips the flag bit already; *)
(* and an exitcode that is unsigned.                                        *)
ExitWord_Shifted  == ToInt(command.payload \div 2)
ExitWord_Unsigned == command.payload % INT
ExitWord          == ToInt(command.payload)

(* What run() returns.                                                      *)
exit_code == Halved(exitcode)

(* syscall_t::handle_syscall: an odd payload is the end of the program.      *)
HandleExit ==
    /\ hpc = "handle"
    /\ command.dev = SYSCALL_DEVICE /\ command.cmd = 0 /\ command.payload % 2 = 1
    /\ exitcode' = ExitWord
    /\ hpc' = "tick"
    /\ UNCHANGED <<mailbox, magic_mem, buf, command, len, fromhost_queue, pending_reads, output,
                   signal_exit>>

(* syscall_t::dispatch, in its three accesses to the target's memory; an     *)
(* unknown number ends the host with an exception.                          *)
HandleSyscall ==
    /\ hpc = "handle"
    /\ command.dev = SYSCALL_DEVICE /\ command.cmd = 0 /\ command.payload % 2 = 0
    /\ LET args == magic_mem[command.payload]
       IN IF args.word0 \in SyscallTable THEN hpc' = "perform" /\ len' = args.len
                                         ELSE hpc' = "died" /\ UNCHANGED len
    /\ UNCHANGED <<mailbox, magic_mem, buf, command, fromhost_queue, pending_reads, output,
                   exitcode, signal_exit>>

(* sys_write: the characters are fetched from the target and written out.    *)
HostPerform ==
    /\ hpc = "perform"
    /\ output' = output \o SubSeq(buf, 1, len)
    /\ hpc' = "writeback"
    /\ UNCHANGED <<mailbox, magic_mem, buf, command, len, fromhost_queue, pending_reads,
                   exitcode, signal_exit>>

(* The argument block with the result in it, and one never written back.     *)
Answer_Kept == magic_mem
Answer      == [magic_mem EXCEPT ![command.payload].word0 = len]

(* The result goes to the target before the reply does.                      *)
HostWriteback ==
    /\ hpc = "writeback"
    /\ magic_mem' = Answer
    /\ fromhost_queue' = Append(fromhost_queue, Reply(command, 1))
    /\ hpc' = "tick"
    /\ UNCHANGED <<mailbox, buf, command, len, pending_reads, output, exitcode, signal_exit>>

(* bcd_t: a read is answered by a later tick, a write not at all.            *)
HandleBcd ==
    /\ hpc = "handle"
    /\ command.dev = BCD_DEVICE /\ command.cmd \in {0, 1}
    /\ IF command.cmd = 0
         THEN pending_reads' = Append(pending_reads, command) /\ UNCHANGED output
         ELSE output' = Append(output, command.payload) /\ UNCHANGED pending_reads
    /\ hpc' = "tick"
    /\ UNCHANGED <<mailbox, magic_mem, buf, command, len, fromhost_queue, exitcode, signal_exit>>

HandleIdentify ==
    /\ hpc = "handle" /\ command.cmd = IDENTIFY
    /\ fromhost_queue' = Append(fromhost_queue, Reply(command, 1))
    /\ hpc' = "tick"
    /\ UNCHANGED <<mailbox, magic_mem, buf, command, len, pending_reads, output, exitcode,
                   signal_exit>>

(* Any other command, or any command of a device number nobody registered:   *)
(* handle_null_command.                                                     *)
HandleNull ==
    /\ hpc = "handle" /\ command.cmd # IDENTIFY
    /\ ~(command.dev = SYSCALL_DEVICE /\ command.cmd = 0)
    /\ ~(command.dev = BCD_DEVICE /\ command.cmd \in {0, 1})
    /\ hpc' = "tick"
    /\ UNCHANGED <<mailbox, magic_mem, buf, command, len, fromhost_queue, pending_reads, output,
                   exitcode, signal_exit>>

(* What bcd_t::tick leaves of the reads, and a tick that forgets to pop.     *)
Remaining_Kept == pending_reads
Remaining      == Tail(pending_reads)

(* device_list_t::tick; "typed" holds at most the key that waits.            *)
HostTick(typed) ==
    /\ hpc = "tick"
    /\ IF pending_reads # <<>> /\ typed # {}
         THEN \E key \in typed :
                /\ fromhost_queue' = Append(fromhost_queue, Reply(Head(pending_reads), 256 + key))
                /\ pending_reads' = Remaining
         ELSE UNCHANGED <<fromhost_queue, pending_reads>>
    /\ hpc' = "deliver"
    /\ UNCHANGED <<mailbox, magic_mem, buf, command, len, output, exitcode, signal_exit>>

(* The reply waits until the target has taken the one before.               *)
HostDeliver ==
    /\ hpc = "deliver"
    /\ hpc' = IF fromhost_queue # <<>> /\ fromhost = Zero THEN "answer" ELSE "poll"
    /\ UNCHANGED <<mailbox, magic_mem, buf, command, len, fromhost_queue, pending_reads, output,
                   exitcode, signal_exit>>

HostAnswer ==
    /\ hpc = "answer"
    /\ fromhost' = Head(fromhost_queue)
    /\ fromhost_queue' = Tail(fromhost_queue)
    /\ hpc' = "poll"
    /\ UNCHANGED <<tohost, magic_mem, buf, command, len, pending_reads, output, exitcode,
                   signal_exit>>

(* handle_signal: the first one ends the loop, the second one the process.   *)
Signal ==
    /\ hpc \notin {"stopped", "died"}
    /\ signal_exit' = TRUE
    /\ hpc' = IF signal_exit THEN "died" ELSE hpc
    /\ UNCHANGED <<mailbox, magic_mem, buf, command, len, fromhost_queue, pending_reads, output,
                   exitcode>>

HostStep == \/ HostPoll \/ HostStop \/ HostClear
            \/ HandleExit \/ HandleSyscall \/ HostPerform \/ HostWriteback
            \/ HandleBcd \/ HandleIdentify \/ HandleNull
            \/ (\E typed \in {{}} \cup {{key} : key \in Keys} : HostTick(typed))
            \/ HostDeliver \/ HostAnswer
=============================================================================
