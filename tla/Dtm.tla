-------------------------------- MODULE Dtm ---------------------------------
(***************************************************************************)
(* dtm.cc: memory access through the RISC-V debug module.  The host halts a *)
(* hart, borrows its registers s0 and s1, makes it run little programs, and *)
(* puts everything back before it lets the hart go on.  A command that      *)
(* fails, as one that touches an address without memory does, is reported   *)
(* by die, which clears the error and returns; the procedure goes on.       *)
(*                                                                          *)
(* A step of the host is one access to the debug module, during which the   *)
(* harts may take any number of steps.  Reads that only keep two writes     *)
(* apart are left out, and the words of a program are written in one step.  *)
(* Registers and words of memory are pairs <<low, high>> (xlen is 64);      *)
(* addresses count words.                                                   *)
(***************************************************************************)
EXTENDS Integers, Sequences

CONSTANTS num_harts,  \* how many enumerate_harts found
          Addr,       \* word addresses with memory
          First,      \* the first addresses of the accesses that HTIF makes
          MaxLen,     \* bound: words of one access; 512 in the code
          RegFile,    \* what programs keep in <<s0, s1>>
          TargetAddr, \* the words that programs on the harts store into
          Boot, Entry,\* where harts run before and after reset
          NoCall

Word == Nat \X Nat

ASSUME HartAssumption == num_harts \in Nat \ {0}
ASSUME AddrAssumption == /\ Addr \subseteq Nat /\ First \subseteq Nat /\ TargetAddr \subseteq Addr
                         /\ MaxLen \in Nat
ASSUME WordAssumption == RegFile \subseteq Word \X Word /\ Boot \in Word /\ Entry \in Word

Harts == 0 .. num_harts - 1

VARIABLES call,       \* the call under way
          loc,        \* where the host is in it: the procedure or command,
          step,       \* and the access of that procedure which comes next
          count,      \* the number of the word, or of the hart that is reset
          saved,      \* s0 and s1 as save_reg returned them
          err,        \* cmderr, as run_abstract_command found it
          got,        \* the words read so far
          running,    \* dtm_t::running
          dm,         \* the debug module
          hart,       \* [Harts -> what a hart is doing, with its registers]
          mem,
          moved       \* history: the words that the call's program has moved

place == <<loc, step, count>>
hostVars == <<call, place, saved, err, got, running>>
vars == <<hostVars, dm, hart, mem, moved>>

Zero == <<0, 0>>
Mark(a) == <<a + 1, a>>     \* what HTIF writes at a
Stored == <<0, 9>>          \* what programs store

-----------------------------------------------------------------------------
(* The calls: HTIF reads, writes and clears chunks and resets the harts.    *)
Chunk(kind, a, n, f(_)) ==
    [kind |-> kind, addr |-> a, len |-> n, data |-> [k \in 0 .. n - 1 |-> f(a + k)]]
Unread == <<-1, -1>>
Chunks == UNION {{Chunk("read", a, n, LAMBDA b : Unread),
                  Chunk("write", a, n, Mark),
                  Chunk("clear", a, n, LAMBDA b : Zero)} : a \in First, n \in 1 .. MaxLen}
Calls == Chunks \cup {[kind |-> "reset"]}
Starting == [kind |-> "start"]   \* what producer_thread does first of all

ASSUME CallAssumption == NoCall \notin Calls \cup {Starting}

(* The hart that halt, resume and the commands are for; and hart 0 always.   *)
Hart_Zero == 0
Hart      == IF call.kind = "reset" THEN count ELSE 0

-----------------------------------------------------------------------------
(* The places of the host.  A read, write or clear goes through halt, the    *)
(* save_regs, the set_s0 and set_s1 that start its program, its words, the  *)
(* restore_regs and resume; fence_i and dtm_write_csr halt and resume too.  *)
(* Each of these but halt and resume is one run_abstract_command:           *)

Program(l) == CASE l = "set_s0" /\ call.kind = "read"  -> "load"
                [] l = "set_s0" /\ call.kind = "write" -> "store"
                [] l = "set_s1" /\ call.kind = "clear" -> "clear"
                [] l \in {"fence", "csr"} -> l
                [] OTHER -> "none"

Command(write, reg, post, size) == [write |-> write, reg |-> reg, post |-> post, size |-> size]

CommandAt(l) ==
    Command(l \in {"set_s0", "set_s1", "restore_s0", "restore_s1", "fence", "csr"},
            IF l \in {"fence", "csr"} THEN "x0"
            ELSE IF l \in {"save_s1", "set_s1", "word", "restore_s1"} THEN "s1" ELSE "s0",
            \/ l \in {"set_s1", "fence", "csr"}
            \/ l = "set_s0" /\ call.kind = "read"
            \/ l = "word" /\ count < call.len,
            IF l = "probe128" THEN 128 ELSE 64)

(* What it is given in data0 and data1, if anything.                        *)
Given(l) == \/ l \in {"set_s0", "set_s1", "restore_s0", "restore_s1", "csr"}
            \/ l = "word" /\ call.kind = "write"

(* and what is read from there.                                             *)
Taken(l) == l \in {"save_s0", "save_s1"} \/ (l = "word" /\ call.kind = "read")

Value == CASE loc = "set_s0" -> <<call.addr, 0>>
           [] loc = "set_s1" /\ call.kind = "write" -> call.data[0]
           [] loc = "set_s1" /\ call.kind = "clear" -> <<call.addr + call.len, 0>>
           [] loc = "word" -> call.data[count]
           [] loc = "restore_s0" -> saved.s0
           [] loc = "restore_s1" -> saved.s1
           [] loc = "csr" -> Entry

(* With autoexec it is the write to data0 that starts the command; or data0  *)
(* comes first there too.                                                   *)
Halves_LowFirst(l) == <<1, 2>>
Halves(l) == IF l = "word" THEN <<2, 1>> ELSE <<1, 2>>

(* The first access of it, and of the other procedures.                     *)
RunStart(l) == IF Program(l) # "none" THEN "program"
               ELSE IF Given(l) THEN "first" ELSE "command"
Start(l) == IF l \in {"halt", "fence", "csr"} THEN "activate"
            ELSE IF l = "resume" THEN "resumereq"
            ELSE IF l \in {"auto_on", "auto_off"} THEN "auto"
            ELSE IF l = "return" THEN "return" ELSE RunStart(l)

(* What comes after it; more words, and the rest of fence_i and of           *)
(* dtm_modify_csr, are in CheckError and Resumed.                           *)
Following ==
    [halt       |-> IF call.kind = "start" THEN "probe128" ELSE "save_s0",
     probe128   |-> "probe64",
     probe64    |-> "resume",
     save_s0    |-> "save_s1",
     save_s1    |-> "set_s0",
     set_s0     |-> IF call.kind = "read" THEN "word" ELSE "set_s1",
     set_s1     |-> IF call.kind = "write" /\ call.len > 1 THEN "auto_on" ELSE "restore_s0",
     auto_on    |-> "word",
     word       |-> IF call.kind = "write" THEN "auto_off" ELSE "restore_s0",
     auto_off   |-> "restore_s0",
     restore_s0 |-> "restore_s1",
     restore_s1 |-> "resume",
     resume     |-> "return"]

LastWord == IF call.kind = "write" THEN call.len - 1 ELSE call.len

At(l, s) == loc = l /\ step = s
Go(s)    == step' = s /\ UNCHANGED <<loc, count>>
Enter(l) == loc' = l /\ step' = Start(l)
Continue == Enter(Following[loc]) /\ UNCHANGED count

-----------------------------------------------------------------------------
DmReset == [active |-> FALSE, haltreq |-> FALSE, sel |-> 0, data |-> Zero,
            prog |-> "none", cmd |-> Command(FALSE, "x0", FALSE, 64),
            busy |-> FALSE, cmderr |-> 0, auto |-> FALSE]

HartInit(r) == [st |-> "running", resumereq |-> FALSE, ack |-> FALSE,
                s0 |-> r[1], s1 |-> r[2], own |-> r, pc |-> Boot]

(* producer_thread up to htif_t::run, without the questions (hartinfo,       *)
(* enumerate_harts) whose answers are constants here.                       *)
Init == /\ running = FALSE
        /\ call = Starting /\ loc = "halt" /\ step = "activate" /\ count = 0
        /\ saved = [s0 |-> Zero, s1 |-> Zero] /\ err = 0 /\ got = <<>>
        /\ dm = DmReset
        /\ hart \in [Harts -> {HartInit(r) : r \in RegFile}]
        /\ mem = [a \in Addr |-> Zero]
        /\ moved = <<>>

(* The debug module.  An access during a command fails, and so does a       *)
(* command for a hart that runs; after a failure commands are ignored.      *)
Failed(d, e) == IF d.cmderr = 0 THEN [d EXCEPT !.cmderr = e] ELSE d

Accessed(d, after) == IF ~d.active THEN d
                      ELSE IF d.busy THEN Failed(d, 1) ELSE after

Commanded(d, c) ==
    IF d.cmderr # 0 THEN d
    ELSE IF c.size = 128 THEN Failed(d, 2)
    ELSE IF hart[d.sel].st # "halted" THEN Failed(d, 4)
    ELSE [d EXCEPT !.busy = TRUE, !.cmd = c]

Touched(d, half) == IF d.auto /\ half = 1 THEN Commanded(d, d.cmd) ELSE d

Controlled(d, haltreq, h) ==
    IF ~d.active THEN [d EXCEPT !.active = TRUE]
    ELSE [d EXCEPT !.haltreq = haltreq, !.sel = h]

(* The halted hart that was selected performs the command: it takes or      *)
(* gives the register, and then runs the program.                           *)
Transferred(h, c) ==
    IF ~c.write \/ c.reg = "x0" THEN h
    ELSE IF c.reg = "s0" THEN [h EXCEPT !.s0 = dm.data] ELSE [h EXCEPT !.s1 = dm.data]

Out(h, c) == IF c.write THEN dm.data ELSE IF c.reg = "s0" THEN h.s0 ELSE h.s1

Mapped(r) == r[2] = 0 /\ r[1] \in Addr
Moving == {"load", "store", "clear"}

Ended(e, out) == dm' = Failed([dm EXCEPT !.busy = FALSE, !.data = out], e)

(* h is the hart after the transfer.  The program for clear goes round      *)
(* until s0 = s1, one word in a step; the others end after theirs.          *)
RunProgram(h, out) ==
    LET a == h.s0[1]
        stepped == [h EXCEPT !.s0[1] = @ + 1]
    IN \/ /\ dm.prog \in Moving /\ ~Mapped(h.s0)
          /\ Ended(3, out)
          /\ hart' = [hart EXCEPT ![dm.sel] = h]
          /\ UNCHANGED <<mem, moved>>
       \/ /\ dm.prog = "load" /\ Mapped(h.s0)
          /\ Ended(0, out)
          /\ hart' = [hart EXCEPT ![dm.sel] = [stepped EXCEPT !.s1 = mem[a]]]
          /\ moved' = Append(moved, mem[a])
          /\ UNCHANGED mem
       \/ /\ dm.prog \in {"store", "clear"} /\ Mapped(h.s0)
          /\ mem' = [mem EXCEPT ![a] = IF dm.prog = "store" THEN h.s1 ELSE Zero]
          /\ moved' = Append(moved, mem'[a])
          /\ hart' = [hart EXCEPT ![dm.sel] = stepped]
          /\ IF dm.prog = "clear" /\ stepped.s0 # h.s1 THEN UNCHANGED dm ELSE Ended(0, out)
       \/ /\ dm.prog = "csr"
          /\ Ended(0, h.pc)
          /\ hart' = [hart EXCEPT ![dm.sel] = [h EXCEPT !.pc = out]]
          /\ UNCHANGED <<mem, moved>>
       \/ /\ dm.prog = "fence"
          /\ Ended(0, out)
          /\ UNCHANGED <<hart, mem, moved>>

Perform == LET h == Transferred(hart[dm.sel], dm.cmd)
               out == Out(h, dm.cmd)
           IN /\ dm.busy
              /\ IF dm.cmd.post THEN RunProgram(h, out)
                 ELSE /\ Ended(0, out)
                      /\ hart' = [hart EXCEPT ![dm.sel] = h]
                      /\ UNCHANGED <<mem, moved>>
              /\ UNCHANGED hostVars

-----------------------------------------------------------------------------
(* The host.  HTIF makes a call once the one before has returned.           *)
Begin(c) == /\ call = NoCall
            /\ call' = c
            /\ Enter(IF c.kind = "reset" THEN "fence" ELSE "halt")
            /\ count' = IF c.kind = "reset" THEN 0 ELSE 1
            /\ UNCHANGED <<saved, err, got, running, dm, hart, mem, moved>>

End == /\ At("return", "return")
       /\ call' = NoCall /\ running' = TRUE
       /\ loc' = "none" /\ step' = "none" /\ count' = 0
       /\ saved' = [s0 |-> Zero, s1 |-> Zero]
       /\ got' = <<>> /\ moved' = <<>>
       /\ UNCHANGED <<err, dm, hart, mem>>

Access == UNCHANGED <<call, running, mem, moved>>
Silent == Access /\ UNCHANGED <<saved, err, got>>

(* halt.  The first access is that of producer_thread in the first call, and *)
(* the one that wakes the module again in the later ones; or it is left out. *)
Activated_Not == dm
Activated     == Controlled(dm, FALSE, 0)

Halt == /\ \/ step = "activate" /\ dm' = Activated /\ Go("haltreq")
           \/ step = "haltreq"  /\ dm' = Controlled(dm, TRUE, Hart) /\ Go("halted")
           \/ step = "halted"   /\ hart[dm.sel].st = "halted" /\ UNCHANGED dm /\ Go("unhalt")
           \/ /\ step = "unhalt" /\ dm' = Controlled(dm, FALSE, Hart)
              /\ IF loc = "halt" THEN Continue ELSE Go(RunStart(loc))
        /\ Silent /\ UNCHANGED hart

(* resume, whose poll might not look, and after which reset goes on.         *)
ResumeSeen_Not == TRUE
ResumeSeen     == hart[dm.sel].ack

Resumed == \/ loc = "fence" /\ Enter("csr") /\ UNCHANGED count
           \/ loc = "csr" /\ count + 1 < num_harts /\ Enter("fence") /\ count' = count + 1
           \/ loc = "csr" /\ count + 1 = num_harts /\ Enter("return") /\ UNCHANGED count
           \/ loc = "resume" /\ Continue

Resume == /\ \/ /\ step = "resumereq" /\ dm' = Controlled(dm, FALSE, Hart) /\ Go("resumed")
                /\ hart' = IF dm.active THEN [hart EXCEPT ![Hart].resumereq = TRUE, ![Hart].ack = FALSE]
                           ELSE hart
             \/ step = "resumed" /\ ResumeSeen /\ Go("unresume") /\ UNCHANGED <<dm, hart>>
             \/ step = "unresume" /\ dm' = Controlled(dm, FALSE, Hart) /\ Go("off") /\ UNCHANGED hart
             \/ /\ step = "off" /\ dm' = IF running THEN DmReset ELSE dm
                /\ Resumed /\ UNCHANGED hart
          /\ Silent

(* run_abstract_command: program, data and command are written.             *)
WriteProgram == /\ step = "program"
                /\ dm' = Accessed(dm, [dm EXCEPT !.prog = Program(loc)])
                /\ Go(IF Given(loc) THEN "first" ELSE "command")
                /\ Silent /\ UNCHANGED hart

WriteHalf(n, next) == LET half == Halves(loc)[n] IN
    /\ dm' = Accessed(dm, Touched([dm EXCEPT !.data[half] = Value[half]], half))
    /\ Go(next)
    /\ Silent /\ UNCHANGED hart

WriteData == \/ step = "first"  /\ WriteHalf(1, "second")
             \/ step = "second" /\ WriteHalf(2, IF loc = "word" THEN "idle" ELSE "command")

WriteCommand == /\ step = "command"
                /\ dm' = Accessed(dm, Commanded(dm, CommandAt(loc)))
                /\ Go("idle")
                /\ Silent /\ UNCHANGED hart

(* Its loop on abstractcs; and one that looks once.                         *)
CommandOver_Once == TRUE
CommandOver      == ~dm.busy

AwaitIdle == /\ step = "idle" /\ CommandOver
             /\ err' = dm.cmderr
             /\ Go(IF Taken(loc) THEN "read" ELSE "check")
             /\ Access /\ UNCHANGED <<saved, got, dm, hart>>

(* Reading data1 after data0 cannot be told from reading both at once.      *)
ReadData == /\ step = "read"
            /\ saved' = IF loc = "save_s0" THEN [saved EXCEPT !.s0 = dm.data]
                        ELSE IF loc = "save_s1" THEN [saved EXCEPT !.s1 = dm.data] ELSE saved
            /\ got' = IF loc = "word" THEN Append(got, dm.data) ELSE got
            /\ dm' = Accessed(dm, Touched(dm, 1))
            /\ Go("check")
            /\ Access /\ UNCHANGED <<err, hart>>

(* RUN_AC_OR_DIE: the write of die to abstractcs, after an error.           *)
Die_Reported == dm
Die          == [dm EXCEPT !.cmderr = 0]

CheckError == /\ step = "check"
              /\ dm' = IF err # 0 THEN Die ELSE dm
              /\ err' = 0
              /\ CASE loc = "fence" -> Go("resumereq")
                   [] loc = "csr" -> Go("result")
                   [] loc = "word" /\ count < LastWord -> Enter("word") /\ count' = count + 1
                   [] OTHER -> Continue
              /\ Access /\ UNCHANGED <<saved, got, hart>>

(* dtm_modify_csr reads what the CSR held, which nobody uses.               *)
ReadResult == /\ step = "result"
              /\ dm' = Accessed(dm, Touched(dm, 1))
              /\ Go("resumereq")
              /\ Silent /\ UNCHANGED hart

(* Autoexec on and off, when more than one word is written.                 *)
SetAuto == /\ step = "auto"
           /\ dm' = Accessed(dm, [dm EXCEPT !.auto = (loc = "auto_on")])
           /\ Continue
           /\ Silent /\ UNCHANGED hart

HostStep == \/ Halt \/ Resume
            \/ WriteProgram \/ WriteData \/ WriteCommand \/ AwaitIdle \/ ReadData
            \/ CheckError \/ ReadResult \/ SetAuto
            \/ End

-----------------------------------------------------------------------------
(* The harts.                                                               *)
HaltHart(h) == /\ dm.active /\ dm.haltreq /\ dm.sel = h
               /\ hart[h].st = "running" /\ ~hart[h].resumereq
               /\ hart' = [hart EXCEPT ![h].st = "halted"]
               /\ UNCHANGED <<hostVars, dm, mem, moved>>

ResumeHart(h) == /\ hart[h].resumereq
                 /\ hart' = [hart EXCEPT ![h].st = "running", ![h].resumereq = FALSE,
                                         ![h].ack = TRUE]
                 /\ UNCHANGED <<hostVars, dm, mem, moved>>

(* A program computes, in its registers and in memory.                      *)
ProgramStep(h) == /\ hart[h].st = "running"
                  /\ \/ /\ \E r \in RegFile :
                             hart' = [hart EXCEPT ![h].s0 = r[1], ![h].s1 = r[2],
                                                  ![h].own = r]
                        /\ UNCHANGED mem
                     \/ /\ \E a \in TargetAddr : mem' = [mem EXCEPT ![a] = Stored]
                        /\ UNCHANGED hart
                  /\ UNCHANGED <<hostVars, dm, moved>>

Next == \/ \E c \in Calls : Begin(c)
        \/ HostStep \/ Perform
        \/ \E h \in Harts : HaltHart(h) \/ ResumeHart(h) \/ ProgramStep(h)

(* The host goes on while a call is under way, the debug module performs     *)
(* commands, and a hart that is asked to halts or resumes.                  *)
Spec == /\ Init /\ [][Next]_vars
        /\ WF_vars(HostStep) /\ WF_vars(Perform)
        /\ \A h \in Harts : WF_vars(HaltHart(h)) /\ WF_vars(ResumeHart(h))

-----------------------------------------------------------------------------
(* An abstract command fails only for what it asks (an unsupported size, an *)
(* address without memory), never because the host went on before the       *)
(* command before it was through or before the hart was halted.             *)
NeverTooEarly == dm.cmderr \in {0, 2, 3} /\ err \in {0, 2, 3}

(* When a call has returned, whatever failed in it, every hart runs and the  *)
(* debug module has no command, error or autoexec left over.                *)
QuietBetweenCalls == call = NoCall =>
    /\ \A h \in Harts : hart[h].st = "running" /\ ~hart[h].resumereq
    /\ ~dm.busy /\ ~dm.auto /\ ~dm.haltreq /\ dm.cmderr = 0

(* Whenever a hart's program runs it finds s0 and s1 as it left them,        *)
(* although every access used both, and though commands may have failed.    *)
RegistersKept == \A h \in Harts : hart[h].st = "running" =>
                                     <<hart[h].s0, hart[h].s1>> = hart[h].own

(* After a reset every hart runs from the entry point.                      *)
ResetStarts == [][call # NoCall /\ call' = NoCall /\ call.kind = "reset"
                    => \A h \in Harts : hart[h].pc = Entry /\ hart[h].st = "running"]_vars

(* A chunk that lies in the memory.                                         *)
IsChunk == call # NoCall /\ call.kind \in {"read", "write", "clear"}
InMemory(c) == c.addr .. c.addr + c.len - 1 \subseteq Addr

Request(c) == [put |-> c.kind # "read", addr |-> c.addr, len |-> c.len, data |-> c.data]
Accesses == {Request(c) : c \in {k \in Calls : k.kind # "reset" /\ InMemory(k)}}

ASSUME AccessAssumption == NoCall \notin Accesses

Serving == IsChunk /\ InMemory(call)

M == INSTANCE ByteMemory WITH
       Byte   <- Addr,
       Value  <- {Zero, Stored} \cup {Mark(a) : a \in Addr},
       Calls  <- Accesses,
       memory <- mem,
       call   <- IF Serving THEN Request(call) ELSE NoCall,
       left   <- IF Serving THEN Len(moved) .. call.len - 1 ELSE {},
       data   <- IF ~Serving THEN <<>>
                 ELSE [i \in 0 .. call.len - 1 |->
                        IF call.kind # "read" THEN call.data[i]
                        ELSE IF i < Len(got) THEN got[i + 1]
                        ELSE IF i < Len(moved) THEN moved[i + 1] ELSE Unread]

(* Chunks are the memory that memif.cc is written for: every word is moved   *)
(* once, from or to its own address, and reads return what they moved.      *)
ImplementsMemory == M!BSpec

(* Every call ends.                                                         *)
Returns == call # NoCall ~> call = NoCall
=============================================================================
