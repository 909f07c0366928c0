------------------------------ MODULE Console -------------------------------
(***************************************************************************)
(* Printing as a program on the chip meets it: syscall() of syscalls.c, in   *)
(* main and in an interrupt handler, with the loop of htif_t::run that       *)
(* answers.  SyscallTarget and HtifHost have the same in detail; here is     *)
(* what is left when a program only prints, for ever if need be: who has     *)
(* asked, and how many answers are under way.                                *)
(***************************************************************************)
EXTENDS Naturals

Context == {"main", "handler"}

VARIABLES
  tohost,        \* the mailbox: who asks, or "none"
  fromhost,      \* whether an answer is there
  hpc, command,  \* where run() is, and the command it has latched
  replies,       \* the length of fromhost_queue
  writes,        \* writes that each context has still to make
  place          \* where each is in syscall(), "no" outside

hostVars == <<hpc, command, replies>>
consoleVars == <<tohost, fromhost, hostVars, writes, place>>

ConsoleInit == /\ tohost = "none" /\ fromhost = FALSE
               /\ hpc = "poll" /\ command = "none" /\ replies = 0
               /\ writes = [c \in Context |-> 0] /\ place = [c \in Context |-> "no"]

(* printf and putchar: the text costs n writes of the buffer.               *)
Prints(c, n) == /\ writes' = [writes EXCEPT ![c] = n]
                /\ UNCHANGED <<tohost, fromhost, hostVars, place>>
Printed(c) == writes[c] = 0 /\ place[c] = "no"

(* tohost is stored into, whatever is in it.                                *)
Write(c) == /\ writes[c] > 0 /\ place[c] = "no"
            /\ tohost' = c
            /\ writes' = [writes EXCEPT ![c] = @ - 1] /\ place' = [place EXCEPT ![c] = "wait"]
            /\ UNCHANGED <<fromhost, hostVars>>

(* while (fromhost == 0), for any answer; and then fromhost = 0.             *)
SeeReply(c) == /\ place[c] = "wait" /\ fromhost
               /\ place' = [place EXCEPT ![c] = "ack"]
               /\ UNCHANGED <<tohost, fromhost, hostVars, writes>>

Acknowledge(c) == /\ place[c] = "ack"
                  /\ fromhost' = FALSE /\ place' = [place EXCEPT ![c] = "no"]
                  /\ UNCHANGED <<tohost, hostVars, writes>>

PrintStep(c) == Write(c) \/ SeeReply(c) \/ Acknowledge(c)

-----------------------------------------------------------------------------
(* htif_t::run.                                                             *)
HostPoll == /\ hpc = "poll"
            /\ IF tohost # "none" THEN hpc' = "clear" /\ command' = tohost
                                  ELSE hpc' = "deliver" /\ UNCHANGED command
            /\ UNCHANGED <<tohost, fromhost, replies, writes, place>>

HostClear == /\ hpc = "clear"
             /\ hpc' = "serve" /\ tohost' = "none"
             /\ UNCHANGED <<fromhost, command, replies, writes, place>>

(* dispatch finds the arguments in the caller's frame; if the caller has      *)
(* gone on with another's answer, they may be gone, and the number of the    *)
(* call may be any.                                                         *)
HostServe == /\ hpc = "serve"
             /\ \/ hpc' = "deliver" /\ replies' = replies + 1
                \/ place[command] = "no" /\ hpc' = "died" /\ UNCHANGED replies
             /\ UNCHANGED <<tohost, fromhost, command, writes, place>>

HostDeliver == /\ hpc = "deliver"
               /\ hpc' = "poll"
               /\ IF replies > 0 /\ ~fromhost THEN fromhost' = TRUE /\ replies' = replies - 1
                                              ELSE UNCHANGED <<fromhost, replies>>
               /\ UNCHANGED <<tohost, command, writes, place>>

HostStep == HostPoll \/ HostClear \/ HostServe \/ HostDeliver
=============================================================================
