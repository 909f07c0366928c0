--------------------------- MODULE SyscallProofs ----------------------------
(***************************************************************************)
(* Proofs about SyscallTarget for programs whose interrupt handlers do not  *)
(* print, with buffers, runs, consoles and frames of any size: no command   *)
(* is lost, served twice or answered too early, and what is printed comes   *)
(* out in order.                                                            *)
(***************************************************************************)
EXTENDS SyscallTarget, SequenceTheorems, TLAPS

Main  == tpc["main"]
Asked == asked["main"]
PrintWord == Command(SYSCALL_DEVICE, 0, FrameOf("main"))
Exited == Command(SYSCALL_DEVICE, 0, ExitPayload(code))
ExitInt == ToInt(Exited.payload)   \* what the host makes of it

(* A command that is waited for, and one that nobody answers.               *)
IsRequest(k)  == \/ k = PrintWord
                 \/ k.dev # SYSCALL_DEVICE /\ (k.cmd = IDENTIFY \/ (k.dev = BCD_DEVICE /\ k.cmd = 0))
Unanswered(k) == k.dev # SYSCALL_DEVICE /\ k.cmd # IDENTIFY /\ ~(k.dev = BCD_DEVICE /\ k.cmd = 0)

(* The host has nothing that main waits for; it may still be busy with a     *)
(* command that main has left it alone with.                                *)
Loose == hpc \in {"poll", "tick", "deliver", "stopped", "died"}
Free  == Loose \/ (hpc = "handle" /\ Unanswered(command))
Taking(k)  == hpc = "clear" /\ command = k
NoReplies  == pending_reads = <<>> /\ fromhost_queue = <<>> /\ fromhost = Zero
Answers(r) == r \in CommandType /\ r.dev = Asked.dev /\ r.cmd = Asked.cmd /\ r.payload # 0

(* The places of a command that main waits for.                             *)
InTohost   == tohost = Asked /\ NoReplies /\ (Free \/ Taking(Asked))
InHost     == /\ tohost = Zero /\ NoReplies /\ command = Asked
              /\ hpc \in {"handle", "perform", "writeback", "died"}
              /\ hpc \in {"perform", "writeback"} => Asked = PrintWord
InPending  == /\ tohost = Zero /\ pending_reads = <<Asked>> /\ Asked.dev = BCD_DEVICE
              /\ fromhost_queue = <<>> /\ fromhost = Zero /\ Loose
InQueue    == /\ tohost = Zero /\ pending_reads = <<>> /\ fromhost = Zero
              /\ Len(fromhost_queue) = 1 /\ fromhost_queue = <<fromhost_queue[1]>> /\ Answers(fromhost_queue[1])
              /\ Loose \/ hpc = "answer"
InFromhost == /\ tohost = Zero /\ pending_reads = <<>> /\ fromhost_queue = <<>>
              /\ Answers(fromhost) /\ Loose

(* What main's place in the code says of the exchange.                      *)
Resting == Main \in {"run", "write", "back"} => tohost = Zero /\ NoReplies /\ Free
Sending == Main = "sent" => /\ Unanswered(Asked) /\ NoReplies
                            /\ \/ tohost = Zero /\ Free
                               \/ tohost = Asked /\ (Free \/ Taking(Asked))
Waiting == Main = "wait" => /\ IsRequest(Asked)
                            /\ InTohost \/ InHost \/ InPending \/ InQueue \/ InFromhost
Acking  == Main = "ack" => IsRequest(Asked) /\ InFromhost
Exiting == Main = "exit" =>
    /\ NoReplies
    /\ \/ tohost = Exited /\ exitcode = 0 /\ (Free \/ Taking(Exited))
       \/ tohost = Zero /\ exitcode = 0 /\ (hpc = "died" \/ (hpc = "handle" /\ command = Exited))
       \/ tohost = Zero /\ exitcode = ExitInt /\ Loose
Reason  == /\ exitcode # 0 => Main = "exit"
           /\ hpc = "stopped" => signal_exit \/ exitcode # 0

Exchange == Resting /\ Sending /\ Waiting /\ Acking /\ Exiting /\ Reason

(* The types, without the bounds that follow from the exchange.             *)
Types ==
    /\ tohost \in CommandType /\ fromhost \in CommandType /\ command \in CommandType
    /\ magic_mem \in [Frames -> [word0 : Nat, len : Nat]]
    /\ buf \in Seq(Nat) /\ output \in Seq(Nat)
    /\ hpc \in {"poll", "clear", "handle", "perform", "writeback", "tick", "deliver", "answer",
                "stopped", "died"}
    /\ len \in Nat /\ exitcode \in Ints /\ signal_exit \in BOOLEAN
    /\ tpc \in [Context -> {"off", "run", "write", "wait", "ack", "back", "sent", "exit"}]
    /\ tpc["main"] # "off" /\ tpc["trap"] \in {"off", "run"}
    /\ asked \in [Context -> CommandType]
    /\ buflen \in Nat /\ next \in Nat /\ traps \in Nat /\ code \in Ints

-----------------------------------------------------------------------------
(* The data.  A print under way has its arguments in place until the host    *)
(* has written the result back.                                             *)
Printing == Main \in {"wait", "ack", "back"} /\ Asked.dev = SYSCALL_DEVICE
Replied  == fromhost_queue # <<>> \/ fromhost # Zero
Served   == Printing /\ (hpc = "writeback" \/ Replied \/ Main \in {"ack", "back"})
Frame == magic_mem[FrameOf("main")]
Arguments ==
    /\ Printing /\ Main = "wait" /\ ~Replied => Frame.word0 = SYS_write /\ Frame.len = buflen
    /\ Printing /\ Replied => Frame.word0 = buflen
    /\ hpc \in {"perform", "writeback"} => len = buflen

(* What is in the buffer comes right before the next character.             *)
InBuffer(b, l, n) == l <= Len(b) /\ l < n /\ \A i \in 1 .. l : b[i] = n - 1 - l + i
Buffered == InBuffer(buf, buflen, next)

(* putchar has room while it may be called.                                 *)
Room == /\ buflen <= BUF
        /\ (\/ Main = "run"
            \/ Main \in {"wait", "ack", "back", "sent"} /\ Asked.dev # SYSCALL_DEVICE)
              => buflen < BUF

(* Characters that main gave to the console and the host has not written.    *)
IsWrite(k)  == k.dev = BCD_DEVICE /\ k.cmd = 1
InHand      == IF hpc = "handle" /\ IsWrite(command) THEN 1 ELSE 0
InMailbox   == IF IsWrite(tohost) THEN 1 ELSE 0
Due         == IF Served THEN next - 1 ELSE next - 1 - buflen
Accounted ==
    /\ hpc # "died" =>
         /\ Len(output) + InHand + InMailbox = Due
         /\ InHand = 1 => command.payload = Len(output) + 1
         /\ InMailbox = 1 => tohost.payload = Len(output) + InHand + 1
    /\ Printing /\ Main # "back" /\ fromhost # Zero => Len(output) = next - 1

Data == Arguments /\ Buffered /\ Room /\ Accounted /\ OutputInOrder

IInv == Types /\ Exchange /\ Data

-----------------------------------------------------------------------------
(* The commands, by their fields.                                           *)
LEMMA ZeroFields == Zero \in CommandType /\ Zero.dev = 0 /\ Zero.cmd = 0 /\ Zero.payload = 0
BY DEF Zero, Command, CommandType

(* A number that is a member of 0 .. INT - 1, or at most one turn away from  *)
(* one, is that member modulo INT.                                          *)
LEMMA Modulus ==
    ASSUME NEW x \in Int
    PROVE  /\ INT \in Nat /\ INT > 0 /\ x % INT \in 0 .. INT - 1
           /\ \A u \in 0 .. INT - 1 : x \in {u, u - INT, u + INT} => x % INT = u
<1>1. INT \in Nat /\ INT > 0
  BY IntAssumption
<1>2. PICK q, r : q = x \div INT /\ r = x % INT
  OBVIOUS
<1>3. q \in Int /\ r \in 0 .. INT - 1 /\ x = INT * q + r
  BY <1>1, <1>2
<1>4. ASSUME NEW u \in 0 .. INT - 1, x \in {u, u - INT, u + INT} PROVE r = u
  <2>1. PICK d \in {-1, 0, 1} : x = INT * d + u
    BY <1>1, <1>4
  <2>2. INT * (q - d) = u - r /\ q - d \in Int
    BY <1>1, <1>3, <2>1
  <2>3. q - d = 0
    <3>1. ASSUME q - d >= 1 PROVE FALSE
      <4>1. INT * (q - d) = INT + INT * (q - d - 1) /\ INT * (q - d - 1) >= 0
        BY <1>1, <2>2, <3>1
      <4> QED BY <1>1, <1>3, <2>2, <4>1
    <3>2. ASSUME q - d <= -1 PROVE FALSE
      <4>1. PICK e \in Nat : q - d = -1 - e
        <5>1. d - q - 1 \in Nat /\ q - d = -1 - (d - q - 1)
          BY <1>3, <2>1, <3>2
        <5> QED BY <5>1
      <4>2. INT * e \in Nat /\ INT * (-1 - e) = -INT - INT * e
        BY <1>1
      <4> QED BY <1>1, <1>3, <2>2, <4>1, <4>2
    <3> QED BY <2>2, <3>1, <3>2
  <2> QED BY <1>1, <1>3, <2>2, <2>3
<1> QED BY <1>1, <1>2, <1>3, <1>4

LEMMA IntegerOfWord == 0 \in Ints /\ \A x \in Nat : ToInt(x) \in Ints
<1> DEFINE Q == INT \div 4
<1>1. Q \in Nat /\ Q > 0 /\ INT = 4 * Q /\ INT \div 2 = 2 * Q
  BY IntAssumption
<1>2. 0 \in Ints
  BY <1>1 DEF Ints
<1>3. ASSUME NEW x \in Nat PROVE ToInt(x) \in Ints
  <2> DEFINE low == x % INT
  <2>1. low \in 0 .. INT - 1
    BY Modulus
  <2>2. ToInt(x) = IF low < INT \div 2 THEN low ELSE low - INT
    BY DEF ToInt
  <2> HIDE DEF low, Q
  <2> QED BY <1>1, <2>1, <2>2 DEF Ints
<1> QED BY <1>2, <1>3

(* An exit code on its way to the host and back: with Q a quarter of the      *)
(* ints, what arrives is an odd int, and half of it is the code, or the code  *)
(* without its highest bit.                                                 *)
LEMMA ExitArithmetic ==
    ASSUME NEW c \in Ints
    PROVE  /\ ExitPayload(c) \in Nat /\ ExitPayload(c) % 2 = 1
           /\ ToInt(ExitPayload(c)) \in Ints /\ ToInt(ExitPayload(c)) # 0
           /\ c \in Short => Halved(ToInt(ExitPayload(c))) = c
           /\ c \notin Short => Halved(ToInt(ExitPayload(c)))
                                 = c + (IF c < 0 THEN INT \div 2 ELSE -(INT \div 2))
<1> DEFINE Q == INT \div 4
           p == ExitPayload(c)
           t == ToInt(p)
<1>1. Q \in Nat /\ Q > 0 /\ INT = 4 * Q /\ INT \div 2 = 2 * Q
  BY IntAssumption
<1>2. c \in Int /\ -(2 * Q) <= c /\ c < 2 * Q /\ (c \in Short <=> -Q <= c /\ c < Q)
  BY <1>1 DEF Ints, Short
<1>3. p = IF c < 0 THEN 2 * c + 1 + 4 * Q ELSE 2 * c + 1
  <2> HIDE DEF Q
  <2>1. 2 * c + 1 \in Int
    BY <1>2
  <2>2. CASE c < 0
    <3>1. 2 * c + 1 + 4 * Q \in 0 .. INT - 1 /\ 2 * c + 1 = (2 * c + 1 + 4 * Q) - INT
      BY <1>1, <1>2, <2>2
    <3> QED BY <2>1, <2>2, <3>1, Modulus DEF ExitPayload
  <2>3. CASE ~(c < 0)
    <3>1. 2 * c + 1 \in 0 .. INT - 1
      BY <1>1, <1>2, <2>3
    <3> QED BY <2>1, <2>3, <3>1, Modulus DEF ExitPayload
  <2> QED BY <2>2, <2>3
<1> HIDE DEF p
<1>4. p \in 0 .. INT - 1 /\ p % 2 = 1
  <2> HIDE DEF Q
  <2>1. p \in 0 .. INT - 1
    BY <1>1, <1>2, <1>3
  <2>2. PICK k \in Int : p = 2 * k + 1
    BY <1>1, <1>2, <1>3
  <2> QED BY <2>1, <2>2
<1>5. t = IF p < 2 * Q THEN p ELSE p - 4 * Q
  <2> HIDE DEF Q
  <2>1. p \in Int /\ p \in {p, p - INT, p + INT}
    BY <1>4, IntAssumption
  <2>2. p % INT = p
    BY <1>4, <2>1, Modulus
  <2> QED BY <1>1, <2>2 DEF ToInt
<1> HIDE DEF Q, t
<1>6. t \in Int /\ -(2 * Q) <= t /\ t < 2 * Q /\ t # 0
  BY <1>1, <1>4, <1>5
<1>7. t = 2 * (IF -Q <= c /\ c < Q THEN c ELSE IF c < 0 THEN c + 2 * Q ELSE c - 2 * Q) + 1
  BY <1>1, <1>2, <1>3, <1>5
<1>8. t \div 2 = IF -Q <= c /\ c < Q THEN c ELSE IF c < 0 THEN c + 2 * Q ELSE c - 2 * Q
  BY <1>1, <1>2, <1>7
<1>9. t \in Ints
  BY <1>1, <1>6 DEF Ints
<1> QED BY <1>1, <1>2, <1>4, <1>6, <1>8, <1>9 DEF p, t, Halved

(* What is in the commands of a print and of an exit.                       *)
LEMMA PrintFields ==
    /\ PrintWord \in CommandType /\ PrintWord # Zero /\ IsRequest(PrintWord)
    /\ PrintWord.dev = SYSCALL_DEVICE /\ PrintWord.cmd = 0 /\ PrintWord.payload = 2
    /\ FrameOf("main") = 2
BY DEF PrintWord, Zero, Command, CommandType, FrameOf, SYSCALL_DEVICE, IsRequest

LEMMA ExitedFields ==
    ASSUME code \in Ints
    PROVE  /\ Exited \in CommandType /\ Exited # Zero /\ Exited # PrintWord
           /\ Exited.dev = SYSCALL_DEVICE /\ Exited.cmd = 0
           /\ Exited.payload = ExitPayload(code) /\ Exited.payload # 0
           /\ Exited.payload % 2 = 1 /\ ExitInt \in Ints /\ ExitInt # 0
<1> DEFINE p == ExitPayload(code)
<1>1. p \in Nat /\ p % 2 = 1 /\ ToInt(p) \in Ints /\ ToInt(p) # 0
  BY ExitArithmetic
<1>2. Exited = [dev |-> 0, cmd |-> 0, payload |-> p]
  BY DEF Exited, Command, SYSCALL_DEVICE
<1> HIDE DEF p
<1>0. p # 2 /\ p # 0
  BY <1>1
<1>3. /\ Exited \in CommandType /\ Exited.dev = SYSCALL_DEVICE /\ Exited.cmd = 0 /\ Exited.payload = p
  BY <1>1, <1>2 DEF CommandType, SYSCALL_DEVICE
<1>4. Exited # Zero /\ Exited # PrintWord
  BY <1>0, <1>3, ZeroFields, PrintFields
<1> QED BY <1>0, <1>1, <1>3, <1>4 DEF p, ExitInt

(* A reply carries the device and command of its request.                   *)
LEMMA ReplyFields ==
    ASSUME NEW request \in CommandType, NEW resp \in Nat \ {0}
    PROVE  /\ Reply(request, resp) \in CommandType /\ Reply(request, resp) # Zero
           /\ Reply(request, resp).dev = request.dev
           /\ Reply(request, resp).cmd = request.cmd
           /\ Reply(request, resp).payload = resp
BY DEF Reply, CommandType, Zero, Command

(* A command that is waited for is not the empty word of tohost.            *)
LEMMA RequestNotZero ==
    /\ \A k : IsRequest(k) \/ Unanswered(k) => k # Zero
    /\ \A k : ~(IsRequest(k) /\ Unanswered(k))
BY ZeroFields, PrintFields DEF IsRequest, Unanswered, SYSCALL_DEVICE, IDENTIFY, BCD_DEVICE

(* The reply that is delivered.                                             *)
LEMMA AnswerTakes ==
    ASSUME InQueue
    PROVE  Head(fromhost_queue) = fromhost_queue[1] /\ Tail(fromhost_queue) = <<>>
<1> DEFINE r == fromhost_queue[1]
<1>1. fromhost_queue = <<r>>
  BY DEF InQueue
<1> HIDE DEF r
<1>2. Head(fromhost_queue) = r /\ Tail(fromhost_queue) = <<>>
  BY <1>1
<1> QED BY <1>2 DEF r

-----------------------------------------------------------------------------
(* Each step of htif_t::run keeps the exchange: by the host's place, and    *)
(* then by the place of the program.                                        *)
LEMMA HostExchange ==
    ASSUME Types, Exchange, HostStep, UNCHANGED targetVars
    PROVE  Exchange'
<1>u. Main' = Main /\ Asked' = Asked /\ Exited' = Exited /\ ExitInt' = ExitInt
      /\ PrintWord' = PrintWord
  BY DEF targetVars, Main, Asked, Exited, ExitInt, PrintWord
<1>c. code \in Ints /\ command \in CommandType /\ Asked \in CommandType
  BY DEF Types, Asked, Context
<1>r. \A resp \in Nat \ {0} : Answers(Reply(Asked, resp))
  BY <1>c, ReplyFields DEF Answers
<1>k. 1 \in Nat \ {0} /\ \A key \in Keys : 256 + key \in Nat \ {0}
  BY KeysAssumption
<1> USE <1>c, <1>u, ZeroFields, PrintFields, ExitedFields, RequestNotZero
<1> USE DEF Exchange, InTohost, InHost, InPending, InQueue, InFromhost, NoReplies, Taking, Free, Loose, Answers
<1>1. CASE HostPoll
  <2> USE <1>1 DEF HostPoll, mailbox
  <2>1. Resting' /\ Sending'
    BY DEF Resting, Sending
  <2>2. Waiting'
    BY DEF Waiting
  <2>3. Acking' /\ Exiting'
    BY DEF Acking, Exiting
  <2>4. Reason'
    BY DEF Reason, Resting, Sending, Waiting, Acking, Exiting
  <2> QED BY <2>1, <2>2, <2>3, <2>4
<1>2. CASE HostStop
  <2> USE <1>2 DEF HostStop, mailbox
  <2>1. Resting' /\ Sending'
    BY DEF Resting, Sending
  <2>2. Waiting'
    BY DEF Waiting
  <2>3. Acking' /\ Exiting'
    BY DEF Acking, Exiting
  <2>4. Reason'
    BY DEF Reason, Resting, Sending, Waiting, Acking, Exiting
  <2> QED BY <2>1, <2>2, <2>3, <2>4
<1>3. CASE HostClear
  <2> USE <1>3 DEF HostClear, Cleared, mailbox
  <2>1. Resting' /\ Sending'
    BY DEF Resting, Sending
  <2>2. Waiting'
    BY DEF Waiting
  <2>3. Acking' /\ Exiting'
    BY DEF Acking, Exiting
  <2>4. Reason'
    BY DEF Reason, Resting, Sending, Waiting, Acking, Exiting
  <2> QED BY <2>1, <2>2, <2>3, <2>4
<1>4. CASE HandleExit
  <2> USE <1>4 DEF HandleExit, ExitWord, ExitInt, mailbox,
             IsRequest, Unanswered, SYSCALL_DEVICE, BCD_DEVICE, IDENTIFY
  <2>1. Resting' /\ Sending'
    BY DEF Resting, Sending
  <2>2. Waiting'
    BY DEF Waiting
  <2>3. Acking' /\ Exiting'
    BY DEF Acking, Exiting
  <2>4. Reason'
    <3>1. Main = "exit"
      <4>1. command.dev = SYSCALL_DEVICE /\ command # PrintWord
        BY <1>4
      <4>2. ~Free /\ hpc = "handle" /\ ~(command = Asked /\ IsRequest(Asked))
        BY <4>1
      <4>3. Main \in {"run", "write", "wait", "ack", "back", "sent", "exit"}
        BY DEF Types, Main, Context
      <4> QED BY <4>2, <4>3 DEF Resting, Sending, Waiting, Acking
    <3> QED BY <3>1 DEF HandleExit, Reason
  <2> QED BY <2>1, <2>2, <2>3, <2>4
<1>5. CASE HandleSyscall
  <2> USE <1>5 DEF HandleSyscall, mailbox,
             IsRequest, Unanswered, SYSCALL_DEVICE, BCD_DEVICE, IDENTIFY
  <2>1. Resting' /\ Sending'
    BY DEF Resting, Sending
  <2>2. Waiting'
    BY DEF Waiting
  <2>3. Acking' /\ Exiting'
    BY DEF Acking, Exiting
  <2>4. Reason'
    BY DEF Reason, Resting, Sending, Waiting, Acking, Exiting
  <2> QED BY <2>1, <2>2, <2>3, <2>4
<1>6. CASE HostPerform
  <2> USE <1>6 DEF HostPerform, mailbox
  <2>1. Resting' /\ Sending'
    BY DEF Resting, Sending
  <2>2. Waiting'
    BY DEF Waiting
  <2>3. Acking' /\ Exiting'
    BY DEF Acking, Exiting
  <2>4. Reason'
    BY DEF Reason, Resting, Sending, Waiting, Acking, Exiting
  <2> QED BY <2>1, <2>2, <2>3, <2>4
<1>7. CASE HostWriteback
  <2> USE <1>7 DEF HostWriteback, mailbox
  <2>1. Resting' /\ Sending'
    BY DEF Resting, Sending
  <2>2. Waiting'
    <3>1. ASSUME Main = "wait" PROVE IsRequest(Asked) /\ InQueue'
      <4>1. InHost /\ IsRequest(Asked)
        BY <3>1 DEF HostWriteback, Waiting
      <4>2. fromhost_queue' = <<Reply(command, 1)>>
        BY <4>1
      <4> QED BY <1>k, <1>r, <4>1, <4>2
    <3> QED BY <3>1 DEF Waiting
  <2>3. Acking' /\ Exiting'
    BY DEF Acking, Exiting
  <2>4. Reason'
    BY DEF Reason, Resting, Sending, Waiting, Acking, Exiting
  <2> QED BY <2>1, <2>2, <2>3, <2>4
<1>8. CASE HandleBcd
  <2> USE <1>8 DEF HandleBcd, mailbox,
             IsRequest, Unanswered, SYSCALL_DEVICE, BCD_DEVICE, IDENTIFY
  <2>1. Resting' /\ Sending'
    BY DEF Resting, Sending
  <2>2. Waiting'
    <3>1. ASSUME Main = "wait", hpc = "handle", command = Asked, InHost, IsRequest(Asked)
          PROVE  InPending'
      <4>1. pending_reads' = <<Asked>>
        BY <3>1
      <4> QED BY <3>1, <4>1
    <3>2. ASSUME Main = "wait" PROVE IsRequest(Asked) /\ (InTohost' \/ InPending')
      BY <3>1, <3>2 DEF HandleBcd, mailbox, Waiting
    <3> QED BY <3>2 DEF Waiting
  <2>3. Acking' /\ Exiting'
    BY DEF Acking, Exiting
  <2>4. Reason'
    BY DEF Reason, Resting, Sending, Waiting, Acking, Exiting
  <2> QED BY <2>1, <2>2, <2>3, <2>4
<1>9. CASE HandleIdentify
  <2> USE <1>9 DEF HandleIdentify, mailbox,
             IsRequest, Unanswered, SYSCALL_DEVICE, BCD_DEVICE, IDENTIFY
  <2>1. Resting' /\ Sending'
    BY DEF Resting, Sending
  <2>2. Waiting'
    <3>1. ASSUME Main = "wait", InHost, IsRequest(Asked)
          PROVE  InQueue'
      <4>1. fromhost_queue' = <<Reply(command, 1)>>
        BY <3>1
      <4> QED BY <1>k, <1>r, <3>1, <4>1
    <3>2. ASSUME Main = "wait" PROVE IsRequest(Asked) /\ InQueue'
      BY <3>1, <3>2 DEF HandleIdentify, Waiting
    <3> QED BY <3>2 DEF Waiting
  <2>3. Acking' /\ Exiting'
    BY DEF Acking, Exiting
  <2>4. Reason'
    BY DEF Reason, Resting, Sending, Waiting, Acking, Exiting
  <2> QED BY <2>1, <2>2, <2>3, <2>4
<1>10. CASE HandleNull
  <2> USE <1>10 DEF HandleNull, mailbox,
             IsRequest, Unanswered, SYSCALL_DEVICE, BCD_DEVICE, IDENTIFY
  <2>1. Resting' /\ Sending'
    BY DEF Resting, Sending
  <2>2. Waiting'
    BY DEF Waiting
  <2>3. Acking' /\ Exiting'
    BY DEF Acking, Exiting
  <2>4. Reason'
    BY DEF Reason, Resting, Sending, Waiting, Acking, Exiting
  <2> QED BY <2>1, <2>2, <2>3, <2>4
<1>11. CASE \E typed \in {{}} \cup {{key} : key \in Keys} : HostTick(typed)
  <2> USE <1>11 DEF HostTick, Remaining, mailbox
  <2>1. Resting' /\ Sending'
    BY DEF Resting, Sending
  <2>2. Waiting'
    <3>1. ASSUME Main = "wait", InPending PROVE InPending' \/ InQueue'
      <4>1. PICK typed \in {{}} \cup {{key} : key \in Keys} : HostTick(typed)
        BY <1>11
      <4>2. CASE typed = {}
        BY <3>1, <4>1, <4>2
      <4>3. CASE typed # {}
        <5>1. PICK key \in Keys : /\ fromhost_queue' = <<Reply(Asked, 256 + key)>>
                                 /\ pending_reads' = <<>>
          BY <3>1, <4>1, <4>3
        <5> QED BY <1>k, <1>r, <3>1, <4>1, <5>1
      <4> QED BY <4>2, <4>3
    <3>2. ASSUME Main = "wait", ~InPending
          PROVE  InTohost' \/ InHost' \/ InQueue' \/ InFromhost'
      BY <3>2 DEF HostTick, mailbox, Waiting
    <3> QED BY <3>1, <3>2 DEF Waiting
  <2>3. Acking' /\ Exiting'
    BY DEF Acking, Exiting
  <2>4. Reason'
    BY DEF Reason, Resting, Sending, Waiting, Acking, Exiting
  <2> QED BY <2>1, <2>2, <2>3, <2>4
<1>12. CASE HostDeliver
  <2> USE <1>12 DEF HostDeliver, mailbox
  <2>1. Resting' /\ Sending'
    BY DEF Resting, Sending
  <2>2. Waiting'
    BY DEF Waiting
  <2>3. Acking' /\ Exiting'
    BY DEF Acking, Exiting
  <2>4. Reason'
    BY DEF Reason, Resting, Sending, Waiting, Acking, Exiting
  <2> QED BY <2>1, <2>2, <2>3, <2>4
<1>13. CASE HostAnswer
  <2> USE <1>13 DEF HostAnswer, mailbox
  <2>1. Resting' /\ Sending'
    BY DEF Resting, Sending
  <2>2. Waiting'
    <3>1. ASSUME Main = "wait" PROVE IsRequest(Asked) /\ InFromhost'
      <4>1. IsRequest(Asked) /\ InQueue
        BY <3>1 DEF HostAnswer, Waiting
      <4>2. fromhost' = fromhost_queue[1] /\ fromhost_queue' = <<>>
        BY <4>1, AnswerTakes DEF HostAnswer
      <4> QED BY <4>1, <4>2
    <3> QED BY <3>1 DEF Waiting
  <2>3. Acking' /\ Exiting'
    BY DEF Acking, Exiting
  <2>4. Reason'
    BY DEF Reason, Resting, Sending, Waiting, Acking, Exiting
  <2> QED BY <2>1, <2>2, <2>3, <2>4
<1> QED BY <1>1, <1>2, <1>3, <1>4, <1>5, <1>6, <1>7, <1>8, <1>9, <1>10, <1>11, <1>12, <1>13
       DEF HostStep

(* The terminal's user only sets the signal.                                *)
LEMMA SignalExchange ==
    ASSUME Exchange, Signal, UNCHANGED targetVars
    PROVE  Exchange'
<1>u. Main' = Main /\ Asked' = Asked /\ Exited' = Exited /\ ExitInt' = ExitInt
      /\ PrintWord' = PrintWord
  BY DEF targetVars, Main, Asked, Exited, ExitInt, PrintWord
<1> USE DEF Exchange, InTohost, InHost, InPending, InQueue, InFromhost, NoReplies, Taking, Free, Loose, Answers
<1>1. Resting' /\ Sending'
  BY <1>u DEF Signal, mailbox, Resting, Sending
<1>2. Waiting'
  BY <1>u DEF Signal, mailbox, Waiting
<1>3. Acking' /\ Exiting' /\ Reason'
  BY <1>u DEF Signal, mailbox, Acking, Exiting, Reason
<1> QED BY <1>1, <1>2, <1>3

(* Without handlers that print only main talks to the host.                  *)
LEMMA OnlyMain ==
    ASSUME Types, ~HandlerPrints
    PROVE  /\ \A newline \in BOOLEAN : ~Putchar("trap", newline)
           /\ ~Proceed("trap")
BY DEF Types, Putchar, Proceed, Syscall, SeeReply, Acknowledge, Return, Runs

(* Each step of the program and of syscall() keeps the exchange.            *)
LEMMA TargetExchange ==
    ASSUME Types, Exchange, ~HandlerPrints, TargetStep
    PROVE  Exchange'
<1>c. code \in Ints /\ command \in CommandType /\ Asked \in CommandType
  BY DEF Types, Asked, Context
<1>m. "main" \in DOMAIN tpc /\ "main" \in DOMAIN asked /\ "main" # "trap" /\ "main" \in Context
  BY DEF Types, Context
<1> USE <1>c, <1>m, ZeroFields, PrintFields, ExitedFields, RequestNotZero
<1> USE DEF Exchange, InTohost, InHost, InPending, InQueue, InFromhost, NoReplies, Taking, Free, Loose, Answers
<1>1. CASE \E newline \in BOOLEAN : Putchar("main", newline)
  <2> USE <1>1 DEF Putchar, Runs, Goto, Unhosted, hostVars, mailbox
  <2>1. Resting'
    BY DEF Resting, Sending, Waiting, Acking, Main
  <2>2. Sending'
    BY DEF Resting, Sending, Main, Asked
  <2>3. Waiting'
    BY DEF Resting, Waiting, Main, Asked, PrintWord
  <2>4. Acking'
    BY DEF Acking, Waiting, Main, Asked
  <2>5. Exiting'
    BY DEF Resting, Exiting, Main, Exited, ExitInt, Reason
  <2>6. Reason'
    BY DEF Reason, Main
  <2> QED BY <2>1, <2>2, <2>3, <2>4, <2>5, <2>6
<1>2. CASE Syscall("main")
  <2> USE <1>2 DEF Syscall, Runs, Goto, Unhosted, hostVars, mailbox
  <2>1. Resting'
    BY DEF Resting, Sending, Waiting, Acking, Main
  <2>2. Sending'
    BY DEF Resting, Sending, Main, Asked
  <2>3. Waiting'
    BY DEF Resting, Waiting, Main, Asked, PrintWord
  <2>4. Acking'
    BY DEF Acking, Waiting, Main, Asked
  <2>5. Exiting'
    BY DEF Resting, Exiting, Main, Exited, ExitInt, Reason
  <2>6. Reason'
    BY DEF Reason, Main
  <2> QED BY <2>1, <2>2, <2>3, <2>4, <2>5, <2>6
<1>3. CASE SeeReply("main")
  <2> USE <1>3 DEF SeeReply, Runs, Goto, Unhosted, hostVars, mailbox
  <2>1. Resting'
    BY DEF Resting, Sending, Waiting, Acking, Main
  <2>2. Sending'
    BY DEF Resting, Sending, Main, Asked
  <2>3. Waiting'
    BY DEF Resting, Waiting, Main, Asked, PrintWord
  <2>4. Acking'
    BY DEF Acking, Waiting, Main, Asked
  <2>5. Exiting'
    BY DEF Resting, Exiting, Main, Exited, ExitInt, Reason
  <2>6. Reason'
    BY DEF Reason, Main
  <2> QED BY <2>1, <2>2, <2>3, <2>4, <2>5, <2>6
<1>4. CASE Acknowledge("main")
  <2> USE <1>4 DEF Acknowledge, Acknowledged, Runs, Goto, Unhosted, hostVars, mailbox
  <2>1. Resting'
    BY DEF Resting, Sending, Waiting, Acking, Main
  <2>2. Sending'
    BY DEF Resting, Sending, Main, Asked
  <2>3. Waiting'
    BY DEF Resting, Waiting, Main, Asked, PrintWord
  <2>4. Acking'
    BY DEF Acking, Waiting, Main, Asked
  <2>5. Exiting'
    BY DEF Resting, Exiting, Main, Exited, ExitInt, Reason
  <2>6. Reason'
    BY DEF Reason, Main
  <2> QED BY <2>1, <2>2, <2>3, <2>4, <2>5, <2>6
<1>5. CASE Return("main")
  <2> USE <1>5 DEF Return, Runs, Goto, Unhosted, hostVars, mailbox
  <2>1. Resting'
    BY DEF Resting, Sending, Waiting, Acking, Main
  <2>2. Sending'
    BY DEF Resting, Sending, Main, Asked
  <2>3. Waiting'
    BY DEF Resting, Waiting, Main, Asked, PrintWord
  <2>4. Acking'
    BY DEF Acking, Waiting, Main, Asked
  <2>5. Exiting'
    BY DEF Resting, Exiting, Main, Exited, ExitInt, Reason
  <2>6. Reason'
    BY DEF Reason, Main
  <2> QED BY <2>1, <2>2, <2>3, <2>4, <2>5, <2>6
<1>6. CASE \E result \in ExitCodes : Exit(result)
  <2> USE <1>6 DEF Exit, Runs, Goto, Unhosted, hostVars, mailbox
  <2>1. Resting'
    BY DEF Resting, Sending, Waiting, Acking, Main
  <2>2. Sending'
    BY DEF Resting, Sending, Main, Asked
  <2>3. Waiting'
    BY DEF Resting, Waiting, Main, Asked, PrintWord
  <2>4. Acking'
    BY DEF Acking, Waiting, Main, Asked
  <2>5. Exiting'
    BY DEF Resting, Exiting, Main, Exited, ExitInt, Reason
  <2>6. Reason'
    BY DEF Reason, Main
  <2> QED BY <2>1, <2>2, <2>3, <2>4, <2>5, <2>6
<1>7. CASE \E pair \in Console : ConsoleCommand(pair)
  <2> USE <1>7 DEF ConsoleCommand, Runs, Goto, Unhosted, hostVars, mailbox
  <2>1. Resting'
    BY DEF Resting, Sending, Waiting, Acking, Main
  <2>p. PICK pair \in Console : ConsoleCommand(pair)
    OBVIOUS
  <2> DEFINE request == Command(pair[1], pair[2], IF Writes(pair) THEN next ELSE 0)
  <2>q. request.dev = pair[1] /\ request.cmd = pair[2]
    BY DEF Command
  <2>r. /\ Unanswered(request) <=> ~Answered(pair)
        /\ IsRequest(request) <=> Answered(pair)
    <3> DEFINE D == 1 .. 255
    <3> DEFINE K == 0 .. 255
    <3>0. pair \in D \X K
      BY ConsoleAssumption
    <3> HIDE DEF D, K
    <3>1. PICK d \in D, k \in K : pair = <<d, k>>
      BY <3>0
    <3>2. (pair = <<BCD_DEVICE, 0>>) <=> (d = BCD_DEVICE /\ k = 0)
      BY <3>1
    <3>3. request.dev = d /\ request.cmd = k
      BY <2>q, <3>1
    <3> HIDE DEF request
    <3> QED BY <3>1, <3>2, <3>3, PrintFields
             DEF D, Unanswered, IsRequest, Answered, SYSCALL_DEVICE, BCD_DEVICE, IDENTIFY
  <2>s. /\ Asked' = request /\ tohost' = request
        /\ Main' = IF Answered(pair) THEN "wait" ELSE "sent"
    BY <2>p DEF Main, Asked, Types
  <2> HIDE DEF request
  <2>t. NoReplies' /\ Free'
    BY <2>p DEF Resting, Main
  <2>2. Sending'
    BY <2>r, <2>s, <2>t DEF Sending
  <2>3. Waiting'
    BY <2>r, <2>s, <2>t DEF Waiting
  <2>4. Acking'
    BY DEF Acking, Waiting, Main, Asked
  <2>5. Exiting'
    BY DEF Resting, Exiting, Main, Exited, ExitInt, Reason
  <2>6. Reason'
    BY DEF Reason, Main
  <2> QED BY <2>1, <2>2, <2>3, <2>4, <2>5, <2>6
<1>8. CASE ConsoleTaken
  <2> USE <1>8 DEF ConsoleTaken, Runs, Goto, Unhosted, hostVars, mailbox
  <2>1. Resting'
    BY DEF Resting, Sending, Waiting, Acking, Main
  <2>2. Sending'
    BY DEF Resting, Sending, Main, Asked
  <2>3. Waiting'
    BY DEF Resting, Waiting, Main, Asked, PrintWord
  <2>4. Acking'
    BY DEF Acking, Waiting, Main, Asked
  <2>5. Exiting'
    BY DEF Resting, Exiting, Main, Exited, ExitInt, Reason
  <2>6. Reason'
    BY DEF Reason, Main
  <2> QED BY <2>1, <2>2, <2>3, <2>4, <2>5, <2>6
<1>9. CASE Trap
  <2> USE <1>9 DEF Trap, Runs, Goto, Unhosted, hostVars, mailbox
  <2>1. Resting'
    BY DEF Resting, Sending, Waiting, Acking, Main
  <2>2. Sending'
    BY DEF Resting, Sending, Main, Asked
  <2>3. Waiting'
    BY DEF Resting, Waiting, Main, Asked, PrintWord
  <2>4. Acking'
    BY DEF Acking, Waiting, Main, Asked
  <2>5. Exiting'
    BY DEF Resting, Exiting, Main, Exited, ExitInt, Reason
  <2>6. Reason'
    BY DEF Reason, Main
  <2> QED BY <2>1, <2>2, <2>3, <2>4, <2>5, <2>6
<1>10. CASE TrapReturn
  <2> USE <1>10 DEF TrapReturn, Runs, Goto, Unhosted, hostVars, mailbox
  <2>1. Resting'
    BY DEF Resting, Sending, Waiting, Acking, Main
  <2>2. Sending'
    BY DEF Resting, Sending, Main, Asked
  <2>3. Waiting'
    BY DEF Resting, Waiting, Main, Asked, PrintWord
  <2>4. Acking'
    BY DEF Acking, Waiting, Main, Asked
  <2>5. Exiting'
    BY DEF Resting, Exiting, Main, Exited, ExitInt, Reason
  <2>6. Reason'
    BY DEF Reason, Main
  <2> QED BY <2>1, <2>2, <2>3, <2>4, <2>5, <2>6
<1> QED BY <1>1, <1>2, <1>3, <1>4, <1>5, <1>6, <1>7, <1>8, <1>9, <1>10, OnlyMain
           DEF TargetStep, Proceed, Context

-----------------------------------------------------------------------------
(* What the exchange says of the steps that touch data.                      *)
LEMMA Handling ==
    ASSUME Types, Exchange, hpc = "handle", command.dev = SYSCALL_DEVICE, command.cmd = 0,
           command.payload % 2 = 0
    PROVE  Main = "wait" /\ Asked = PrintWord /\ command = PrintWord /\ InHost
<1>1. Main \in {"run", "write", "wait", "ack", "back", "sent", "exit"} /\ code \in Ints
  BY DEF Types, Main, Context
<1>2. ~Free /\ ~Loose /\ command # Exited
  BY <1>1, ExitedFields DEF Free, Loose, Unanswered
<1>3. Main = "wait"
  BY <1>1, <1>2 DEF Exchange, Resting, Sending, Acking, Exiting, Taking, InFromhost
<1>4. IsRequest(Asked) /\ InHost
  BY <1>2, <1>3 DEF Exchange, Waiting, InTohost, InPending, InQueue, InFromhost, Taking
<1> QED BY <1>3, <1>4 DEF InHost, IsRequest

LEMMA Performing ==
    ASSUME Types, Exchange, hpc \in {"perform", "writeback"}
    PROVE  Main = "wait" /\ Asked = PrintWord /\ command = PrintWord /\ InHost
<1>1. Main \in {"run", "write", "wait", "ack", "back", "sent", "exit"}
  BY DEF Types, Main, Context
<1>2. ~Free /\ ~Loose
  BY DEF Free, Loose
<1>3. Main = "wait"
  BY <1>1, <1>2 DEF Exchange, Resting, Sending, Acking, Exiting, Taking, InFromhost
<1> QED BY <1>2, <1>3 DEF Exchange, Waiting, InTohost, InHost, InPending, InQueue, InFromhost,
                          Taking

LEMMA Answering ==
    ASSUME Types, Exchange, hpc = "answer"
    PROVE  Main = "wait" /\ InQueue /\ IsRequest(Asked)
<1>1. Main \in {"run", "write", "wait", "ack", "back", "sent", "exit"}
  BY DEF Types, Main, Context
<1>2. ~Free /\ ~Loose
  BY DEF Free, Loose
<1>3. Main = "wait"
  BY <1>1, <1>2 DEF Exchange, Resting, Sending, Acking, Exiting, Taking, InFromhost
<1> QED BY <1>2, <1>3 DEF Exchange, Waiting, InTohost, InHost, InPending, InQueue, InFromhost,
                          Taking

LEMMA Queues ==
    ASSUME Types, Exchange
    PROVE  /\ fromhost_queue \in Seq(CommandType) /\ Len(fromhost_queue) <= 1
           /\ pending_reads \in Seq(CommandType) /\ Len(pending_reads) <= 1
<1>1. Main \in {"run", "write", "wait", "ack", "back", "sent", "exit"} /\ Asked \in CommandType
  BY DEF Types, Main, Asked, Context
<1>2. NoReplies \/ InPending \/ InQueue \/ InFromhost
  BY <1>1 DEF Exchange, Resting, Sending, Waiting, Acking, Exiting, InTohost, InHost
<1>3. <<>> \in Seq(CommandType) /\ Len(<<>>) = 0
  OBVIOUS
<1>4. \A r \in CommandType : <<r>> \in Seq(CommandType) /\ Len(<<r>>) = 1
  OBVIOUS
<1>5. fromhost_queue = <<>> \/ \E r \in CommandType : fromhost_queue = <<r>>
  BY <1>2 DEF NoReplies, InPending, InQueue, InFromhost, Answers
<1>6. pending_reads = <<>> \/ \E r \in CommandType : pending_reads = <<r>>
  BY <1>1, <1>2 DEF NoReplies, InPending, InQueue, InFromhost
<1>s. \A q : q = <<>> \/ (\E r \in CommandType : q = <<r>>) =>
              q \in Seq(CommandType) /\ (Len(q) = 0 \/ Len(q) = 1)
  BY <1>3, <1>4, Zenon
<1>7. /\ fromhost_queue \in Seq(CommandType)
      /\ Len(fromhost_queue) = 0 \/ Len(fromhost_queue) = 1
  BY <1>5, <1>s, Zenon
<1>8. /\ pending_reads \in Seq(CommandType)
      /\ Len(pending_reads) = 0 \/ Len(pending_reads) = 1
  BY <1>6, <1>s, Zenon
<1>9. \A n : n = 0 \/ n = 1 => n <= 1
  OBVIOUS
<1> QED BY <1>7, <1>8, <1>9, Zenon

(* What sys_write appends: the buffer's characters.                          *)
LEMMA Characters ==
    ASSUME Types, Buffered
    PROVE  /\ SubSeq(buf, 1, buflen) \in Seq(Nat)
           /\ Len(SubSeq(buf, 1, buflen)) = buflen
           /\ \A i \in 1 .. buflen : SubSeq(buf, 1, buflen)[i] = buf[i]
           /\ output \o SubSeq(buf, 1, buflen) \in Seq(Nat)
           /\ Len(output \o SubSeq(buf, 1, buflen)) = Len(output) + buflen
           /\ \A i \in 1 .. Len(output) + buflen :
                 (output \o SubSeq(buf, 1, buflen))[i] =
                    IF i <= Len(output) THEN output[i] ELSE buf[i - Len(output)]
<1>1. buf \in Seq(Nat) /\ output \in Seq(Nat) /\ buflen \in 0 .. Len(buf) /\ buflen \in Nat
  BY DEF Types, Buffered, InBuffer
<1> DEFINE chars == SubSeq(buf, 1, buflen)
<1>2. /\ chars \in Seq(Nat) /\ Len(chars) = buflen
      /\ \A i \in 1 .. buflen : chars[i] = buf[i]
  BY <1>1, SubSeqProperties
<1> HIDE DEF chars
<1>3. output \o chars \in Seq(Nat) /\ Len(output \o chars) = Len(output) + buflen
  BY <1>1, <1>2, ConcatProperties
<1>4. \A i \in 1 .. Len(output) + buflen :
         (output \o chars)[i] = IF i <= Len(output) THEN output[i] ELSE buf[i - Len(output)]
  BY <1>1, <1>2, ConcatProperties
<1> QED BY <1>2, <1>3, <1>4 DEF chars

(* Where a command is, from the exchange.                                   *)
LEMMA ExchangeOnePlace == Types /\ Exchange => OnePlace
<1> SUFFICES ASSUME Types, Exchange, Main = "wait", hpc # "died"
             PROVE  \E p \in Places : Places = {p}
  BY DEF OnePlace, Main
<1> DEFINE At(p) == CASE p = "tohost"   -> tohost # Zero
                      [] p = "host"     -> Holding
                      [] p = "pending"  -> pending_reads # <<>>
                      [] p = "queue"    -> fromhost_queue # <<>>
                      [] p = "fromhost" -> fromhost # Zero
<1> DEFINE All == {"tohost", "host", "pending", "queue", "fromhost"}
<1>1. Places = {p \in All : At(p)}
  BY DEF Places
<1>2. /\ At("tohost") <=> tohost # Zero
      /\ At("host") <=> Holding
      /\ At("pending") <=> pending_reads # <<>>
      /\ At("queue") <=> fromhost_queue # <<>>
      /\ At("fromhost") <=> fromhost # Zero
  OBVIOUS
<1> HIDE DEF At
<1>3. IsRequest(Asked) /\ (InTohost \/ InHost \/ InPending \/ InQueue \/ InFromhost)
  BY DEF Exchange, Waiting
<1>4. Asked # Zero /\ ~Unanswered(Asked)
  BY <1>3, RequestNotZero
<1>5. Holding <=> hpc \in {"handle", "perform", "writeback"} /\ command = Asked
  BY DEF Holding, Asked
<1>6. \E p \in All : At(p) /\ \A q \in All : At(q) => q = p
  <2>1. CASE InTohost
    BY <2>1, <1>2, <1>4, <1>5 DEF InTohost, NoReplies, Free, Loose, Taking
  <2>2. CASE InHost
    BY <2>2, <1>2, <1>4, <1>5 DEF InHost, NoReplies
  <2>3. CASE InPending
    BY <2>3, <1>2, <1>4, <1>5 DEF InPending, Loose
  <2>4. CASE InQueue
    BY <2>4, <1>2, <1>4, <1>5 DEF InQueue, Loose
  <2>5. CASE InFromhost
    BY <2>5, <1>2, <1>4, <1>5, ZeroFields DEF InFromhost, Answers, Loose
  <2> QED BY <1>3, <2>1, <2>2, <2>3, <2>4, <2>5
<1> QED BY <1>1, <1>6

(* An exit is reported with the code that main returned.                    *)
LEMMA ExchangeExit == Types /\ Exchange => ExitReported
<1> SUFFICES ASSUME Types, Exchange, hpc = "stopped", ~signal_exit
             PROVE  /\ Main = "exit"
                    /\ code \in Short => Halved(exitcode) = code
                    /\ code \notin Short =>
                         Halved(exitcode) = code + (IF code < 0 THEN INT \div 2 ELSE -(INT \div 2))
  BY DEF ExitReported, exit_code, Main
<1>1. exitcode # 0 /\ Main = "exit"
  BY DEF Exchange, Reason
<1>2. exitcode = ToInt(ExitPayload(code)) /\ code \in Ints
  BY <1>1, ExitedFields DEF Exchange, Exiting, Types, ExitInt
<1> QED BY <1>1, <1>2, ExitArithmetic

(* Types through a step, and the data of a print.                            *)
LEMMA HostTypes ==
    ASSUME IInv, HostStep, UNCHANGED targetVars
    PROVE  Types'
<1>1. /\ tpc' = tpc /\ asked' = asked /\ buflen' = buflen /\ next' = next /\ traps' = traps
      /\ code' = code
  BY DEF targetVars
<1>2. buf' = buf /\ tohost' \in CommandType /\ command' \in CommandType
  BY ZeroFields DEF HostStep, HostPoll, HostStop, HostClear, HandleExit, HandleSyscall,
                    HostPerform, HostWriteback, HandleBcd, HandleIdentify, HandleNull, HostTick, HostDeliver, HostAnswer,
     Cleared, mailbox, IInv, Types
<1>3. fromhost' \in CommandType
  <2>1. CASE HostAnswer
    BY <2>1, Answering, AnswerTakes DEF HostAnswer, IInv, InQueue, Answers
  <2>2. CASE ~HostAnswer
    BY <2>2 DEF HostStep, HostPoll, HostStop, HostClear, HandleExit, HandleSyscall, HostPerform,
     HostWriteback, HandleBcd, HandleIdentify, HandleNull, HostTick, HostDeliver,
     mailbox, IInv, Types
  <2> QED BY <2>1, <2>2
<1>4. len' \in Nat
  <2>1. CASE HandleSyscall
    <3>1. command.payload = 2
      BY <2>1, Handling, PrintFields DEF HandleSyscall, IInv
    <3>2. magic_mem[2].len \in Nat /\ len \in Nat
      BY FrameAssumption DEF IInv, Types
    <3> QED BY <2>1, <3>1, <3>2 DEF HandleSyscall
  <2>2. CASE ~HandleSyscall
    BY <2>2 DEF HostStep, HostPoll, HostStop, HostClear, HandleExit, HostPerform,
     HostWriteback, HandleBcd, HandleIdentify, HandleNull, HostTick, HostDeliver, HostAnswer,
     IInv, Types
  <2> QED BY <2>1, <2>2
<1>5. magic_mem' \in [Frames -> [word0 : Nat, len : Nat]]
  <2>0. magic_mem \in [Frames -> [word0 : Nat, len : Nat]] /\ len \in Nat
    BY DEF IInv, Types
  <2>1. CASE HostWriteback
    BY <2>0, <2>1 DEF HostWriteback, Answer
  <2>2. CASE ~HostWriteback
    <3>1. magic_mem' = magic_mem
      BY <2>2 DEF HostStep, HostPoll, HostStop, HostClear, HandleExit, HandleSyscall, HostPerform,
         HandleBcd, HandleIdentify, HandleNull, HostTick, HostDeliver, HostAnswer
    <3> QED BY <2>0, <3>1
  <2> QED BY <2>1, <2>2
<1>6. output' \in Seq(Nat)
  <2>1. CASE HostPerform
    BY <2>1, Performing, Characters DEF HostPerform, IInv, Types, Data, Arguments
  <2>2. CASE HandleBcd
    <3>1. command.payload \in Nat /\ output \in Seq(Nat)
      BY DEF IInv, Types, CommandType
    <3> QED BY <2>2, <3>1, AppendProperties DEF HandleBcd
  <2>3. CASE ~HostPerform /\ ~HandleBcd
    BY <2>3 DEF HostStep, HostPoll, HostStop, HostClear, HandleExit, HandleSyscall,
     HostWriteback, HandleIdentify, HandleNull, HostTick, HostDeliver, HostAnswer, IInv, Types
  <2> QED BY <2>1, <2>2, <2>3
<1>7. exitcode' \in Ints /\ signal_exit' \in BOOLEAN
  BY IntegerOfWord DEF HostStep, HostPoll, HostStop, HostClear, HandleExit, HandleSyscall,
                       HostPerform, HostWriteback, HandleBcd, HandleIdentify, HandleNull, HostTick, HostDeliver, HostAnswer,
     ExitWord, IInv, Types, CommandType
<1>8. hpc' \in {"poll", "clear", "handle", "perform", "writeback", "tick", "deliver", "answer",
                "stopped", "died"}
  BY DEF HostStep, HostPoll, HostStop, HostClear, HandleExit, HandleSyscall, HostPerform,
     HostWriteback, HandleBcd, HandleIdentify, HandleNull, HostTick, HostDeliver, HostAnswer,
     IInv, Types
<1> QED BY <1>1, <1>2, <1>3, <1>4, <1>5, <1>6, <1>7, <1>8 DEF IInv, Types

(* The same for the target.                                                 *)
LEMMA TargetTypes ==
    ASSUME IInv, ~HandlerPrints, TargetStep
    PROVE  Types'
<1>1. hostVars' = hostVars
  BY DEF TargetStep, Putchar, Proceed, Syscall, SeeReply, Acknowledge, Return, Exit,
         ConsoleCommand, ConsoleTaken, Trap, TrapReturn, Unhosted
<1>2. /\ command' \in CommandType /\ output' \in Seq(Nat) /\ len' \in Nat /\ exitcode' \in Ints
      /\ signal_exit' \in BOOLEAN
      /\ hpc' \in {"poll", "clear", "handle", "perform", "writeback", "tick", "deliver", "answer",
                   "stopped", "died"}
  BY <1>1 DEF hostVars, IInv, Types
<1> DEFINE TargetTyped ==
       /\ tohost \in CommandType /\ fromhost \in CommandType
       /\ magic_mem \in [Frames -> [word0 : Nat, len : Nat]]
       /\ buf \in Seq(Nat)
       /\ tpc \in [Context -> {"off", "run", "write", "wait", "ack", "back", "sent", "exit"}]
       /\ tpc["main"] # "off" /\ tpc["trap"] \in {"off", "run"}
       /\ asked \in [Context -> CommandType]
       /\ buflen \in Nat /\ next \in Nat /\ traps \in Nat /\ code \in Ints
<1>3. TargetTyped'
  <2>0. TargetTyped
    BY DEF IInv, Types
  <2>1. ASSUME NEW newline \in BOOLEAN, Putchar("main", newline) PROVE TargetTyped'
    <3>1. buf' \in Seq(Nat)
      BY <2>0, <2>1, AppendProperties, ExceptSeq DEF Putchar, IInv, Data, Buffered, InBuffer
    <3> QED BY <2>0, <2>1, <3>1 DEF Putchar, Goto, Context, mailbox
  <2>2. CASE Syscall("main")
    BY <2>0, <2>2, PrintFields, FrameAssumption DEF Syscall, Goto, Context, SYS_write, PrintWord
  <2>3. CASE SeeReply("main") \/ Acknowledge("main") \/ Return("main") \/ ConsoleTaken \/ Trap
    BY <2>0, <2>3, ZeroFields DEF SeeReply, Acknowledge, Return, ConsoleTaken, Trap, Goto,
                                  Context, Acknowledged, Emptied, mailbox
  <2>4. ASSUME NEW result \in ExitCodes, Exit(result) PROVE TargetTyped'
    <3>1. result \in Ints /\ ExitPayload(result) \in Nat
      BY ExitAssumption, ExitArithmetic
    <3>2. Command(SYSCALL_DEVICE, 0, ExitPayload(result)) \in CommandType
      BY <3>1 DEF Command, CommandType, SYSCALL_DEVICE
    <3> QED BY <2>0, <2>4, <3>1, <3>2 DEF Exit, Goto, Context
  <2>5. ASSUME NEW pair \in Console, ConsoleCommand(pair) PROVE TargetTyped'
    <3>1. pair[1] \in 0 .. 255 /\ pair[2] \in 0 .. 255
      BY ConsoleAssumption
    <3>2. \A p \in Nat : Command(pair[1], pair[2], p) \in CommandType
      BY <3>1 DEF Command, CommandType
    <3>3. (IF Writes(pair) THEN next ELSE 0) \in Nat /\ next' \in Nat
      BY <2>0, <2>5 DEF ConsoleCommand
    <3> QED BY <2>0, <2>5, <3>2, <3>3 DEF ConsoleCommand, Goto, Context
  <2>6. CASE TrapReturn
    BY <2>0, <2>6, FrameAssumption DEF TrapReturn, Goto, Context, mailbox, FrameOf
  <2> QED BY <2>1, <2>2, <2>3, <2>4, <2>5, <2>6, OnlyMain DEF TargetStep, Proceed, Context, IInv
<1> QED BY <1>2, <1>3 DEF Types

LEMMA SignalTypes == Types /\ Signal /\ UNCHANGED targetVars => Types'
BY DEF Types, Signal, targetVars, mailbox

LEMMA WrittenInOrder ==
    ASSUME Types, Buffered, OutputInOrder, Len(output) = next - 1 - buflen,
           NEW out, out = output \o SubSeq(buf, 1, buflen)
    PROVE  Len(out) = next - 1 /\ \A i \in 1 .. Len(out) : out[i] = i
<1>1. /\ Len(out) = Len(output) + buflen
      /\ \A i \in 1 .. Len(output) + buflen :
            out[i] = IF i <= Len(output) THEN output[i] ELSE buf[i - Len(output)]
  BY Characters
<1>2. Len(output) \in Nat /\ buflen \in Nat /\ next \in Nat
  BY DEF Types
<1>3. Len(out) = next - 1
  BY <1>1, <1>2
<1>4. ASSUME NEW i \in 1 .. Len(output) + buflen PROVE out[i] = i
  <2>1. CASE i <= Len(output)
    BY <1>1, <1>2, <2>1 DEF OutputInOrder
  <2>2. CASE i > Len(output)
    <3>1. i - Len(output) \in 1 .. buflen /\ i \in Int
      BY <1>2, <2>2
    <3>2. buf[i - Len(output)] = next - 1 - buflen + (i - Len(output))
      BY <3>1 DEF Buffered, InBuffer
    <3> QED BY <1>1, <1>2, <2>2, <3>1, <3>2
  <2> QED BY <1>2, <2>1, <2>2
<1> QED BY <1>1, <1>3, <1>4

(* Who has the command while the host clears, identifies or ticks.            *)
LEMMA Clearing ==
    ASSUME Types, Exchange, hpc = "clear"
    PROVE  tohost = command
<1>1. Main \in {"run", "write", "wait", "ack", "back", "sent", "exit"} /\ ~Free /\ ~Loose
  BY DEF Types, Main, Context, Free, Loose
<1> QED BY <1>1 DEF Exchange, Resting, Sending, Waiting, Acking, Exiting, Taking,
                    InTohost, InHost, InPending, InQueue, InFromhost

LEMMA Identifying ==
    ASSUME Types, Exchange, hpc = "handle", command.cmd = IDENTIFY
    PROVE  ~Printing /\ NoReplies
<1>1. ~Free /\ ~Loose
  BY DEF Free, Loose, Unanswered
<1>2. Printing => Main \in {"wait", "ack", "back"} /\ Asked.dev = SYSCALL_DEVICE
  BY DEF Printing
<1>3. \/ Main = "wait" /\ InHost /\ IsRequest(Asked)
      \/ Main = "exit" /\ NoReplies
  <2>1. Main \in {"run", "write", "wait", "ack", "back", "sent", "exit"}
    BY DEF Types, Main, Context
  <2> QED BY <1>1, <2>1 DEF Exchange, Resting, Sending, Waiting, Acking, Exiting, Taking,
                    InTohost, InHost, InPending, InQueue, InFromhost
<1> QED BY <1>2, <1>3, PrintFields DEF InHost, IsRequest, IDENTIFY

LEMMA Ticking ==
    ASSUME Types, Exchange, pending_reads # <<>>
    PROVE  Main = "wait" /\ InPending /\ ~Printing
<1>1. Main \in {"run", "write", "wait", "ack", "back", "sent", "exit"}
  BY DEF Types, Main, Context
<1>2. Main = "wait" /\ InPending
  BY <1>1 DEF Exchange, Resting, Sending, Waiting, Acking, Exiting, NoReplies,
              InTohost, InHost, InQueue, InFromhost
<1> QED BY <1>2 DEF InPending, Printing, SYSCALL_DEVICE, BCD_DEVICE

(* The data through a step.                                                 *)
LEMMA HostData ==
    ASSUME IInv, HostStep, UNCHANGED targetVars
    PROVE  Data'
<1>u. /\ Main' = Main /\ Asked' = Asked /\ buflen' = buflen /\ next' = next /\ Printing' = Printing
      /\ PrintWord' = PrintWord
  BY DEF targetVars, Main, Asked, Printing, PrintWord
<1>f. FrameOf("main") = 2 /\ 2 \in Frames /\ PrintWord.payload = 2
  BY FrameAssumption, PrintFields
<1>t. /\ buflen \in Nat /\ next \in Nat /\ Len(output) \in Nat /\ output \in Seq(Nat)
      /\ magic_mem \in [Frames -> [word0 : Nat, len : Nat]]
      /\ Main \in {"run", "write", "wait", "ack", "back", "sent", "exit"}
  BY DEF IInv, Types, Main, Context
<1>n. buflen \in Nat /\ next \in Nat /\ Len(output) \in Nat
  BY <1>t
<1>e. Types /\ Exchange /\ Arguments /\ Buffered /\ Room /\ Accounted /\ OutputInOrder
  BY DEF IInv, Data
<1>x. Types' /\ Exchange'
  BY HostTypes, HostExchange DEF IInv
<1>b. buf' = buf
  BY DEF HostStep, HostPoll, HostStop, HostClear, HandleExit, HandleSyscall, HostPerform,
     HostWriteback, HandleBcd, HandleIdentify, HandleNull, HostTick, HostDeliver, HostAnswer
<1>o. Buffered' /\ Room'
  BY <1>u, <1>b, <1>e DEF Buffered, InBuffer, Room
<1>1. CASE HostPoll
  <2> USE <1>1 DEF HostPoll, mailbox
  <2>1. Arguments'
    BY <1>u, <1>f, <1>t, <1>e, Handling, Performing, Answering
       DEF Arguments, Replied, Frame, Printing
  <2>2. Accounted'
    <3>1. InHand = 0 /\ InHand' = 0 /\ InMailbox' = InMailbox
      BY DEF InHand, InMailbox
    <3>2. Due' = Due /\ Replied' = Replied
      BY <1>u DEF Due, Served, Replied
    <3> QED BY <1>u, <1>e, <3>1, <3>2 DEF Accounted, Replied
  <2>3. OutputInOrder'
    BY <1>e DEF OutputInOrder
  <2> QED BY <1>o, <2>1, <2>2, <2>3 DEF Data
<1>2. CASE HostStop
  <2> USE <1>2 DEF HostStop, mailbox
  <2>1. Arguments'
    BY <1>u, <1>f, <1>t, <1>e, Handling, Performing, Answering
       DEF Arguments, Replied, Frame, Printing
  <2>2. Accounted'
    BY <1>u, <1>t, <1>e, ZeroFields, Handling, Performing, Answering
       DEF Accounted, Served, Replied, Due, InHand, InMailbox, IsWrite
  <2>3. OutputInOrder'
    BY <1>e DEF OutputInOrder
  <2> QED BY <1>o, <2>1, <2>2, <2>3 DEF Data
<1>3. CASE HostClear
  <2> USE <1>3 DEF HostClear, Cleared, mailbox
  <2>1. Arguments'
    BY <1>u, <1>f, <1>t, <1>e, Handling, Performing, Answering
       DEF Arguments, Replied, Frame, Printing
  <2>2. Accounted'
    <3>1. tohost = command
      BY <1>e, Clearing
    <3>2. InHand = 0 /\ InHand' = InMailbox /\ InMailbox' = 0 /\ InMailbox \in {0, 1}
      BY <3>1, ZeroFields DEF InHand, InMailbox, IsWrite, BCD_DEVICE
    <3>3. Due' = Due /\ Due \in Int
      BY <1>u, <1>t DEF Due, Served, Replied
    <3>4. InMailbox = 1 => command.payload = Len(output) + 1
      BY <1>e, <1>t, <3>1, <3>2 DEF Accounted
    <3> QED BY <1>u, <1>t, <1>e, <3>2, <3>3, <3>4 DEF Accounted
  <2>3. OutputInOrder'
    BY <1>e DEF OutputInOrder
  <2> QED BY <1>o, <2>1, <2>2, <2>3 DEF Data
<1>4. CASE HandleExit
  <2> USE <1>4 DEF HandleExit, ExitWord, mailbox
  <2>1. Arguments'
    BY <1>u, <1>f, <1>t, <1>e, Handling, Performing, Answering
       DEF Arguments, Replied, Frame, Printing
  <2>2. Accounted'
    BY <1>u, <1>t, <1>e, ZeroFields, Handling, Performing, Answering
       DEF Accounted, Served, Replied, Due, InHand, InMailbox, IsWrite
  <2>3. OutputInOrder'
    BY <1>e DEF OutputInOrder
  <2> QED BY <1>o, <2>1, <2>2, <2>3 DEF Data
<1>5. CASE HandleSyscall
  <2> USE <1>5 DEF HandleSyscall, mailbox
  <2>1. Arguments'
    <3>1. Main = "wait" /\ Asked = PrintWord /\ command = PrintWord /\ InHost
      BY <1>e, Handling
    <3>2. Printing /\ ~Replied
      BY <3>1, PrintFields DEF Printing, Replied, InHost, NoReplies
    <3>3. hpc' = "perform" => len' = buflen
      BY <1>e, <1>f, <3>1, <3>2 DEF Arguments, Frame
    <3>4. Replied' = Replied /\ Frame' = Frame /\ hpc' # "writeback"
      BY DEF Replied, Frame
    <3> QED BY <1>u, <1>e, <3>3, <3>4 DEF Arguments
  <2>2. Accounted'
    BY <1>u, <1>t, <1>e, ZeroFields, Handling, Performing, Answering
       DEF Accounted, Served, Replied, Due, InHand, InMailbox, IsWrite
  <2>3. OutputInOrder'
    BY <1>e DEF OutputInOrder
  <2> QED BY <1>o, <2>1, <2>2, <2>3 DEF Data
<1>6. CASE HostPerform
  <2> USE <1>6 DEF HostPerform, mailbox
  <2>1. Arguments'
    BY <1>u, <1>f, <1>t, <1>e, Handling, Performing, Answering
       DEF Arguments, Replied, Frame, Printing
  <2>2. Accounted' /\ OutputInOrder'
    <3>1. Main = "wait" /\ Asked = PrintWord /\ InHost /\ len = buflen
      BY <1>e, Performing DEF Arguments
    <3>2. Printing /\ ~Replied /\ ~Replied'
      BY <3>1, PrintFields DEF Printing, Replied, InHost, NoReplies
    <3>3. InHand = 0 /\ InHand' = 0 /\ InMailbox' = 0 /\ InMailbox = 0
      BY <3>1, ZeroFields DEF InHand, InMailbox, IsWrite, InHost, BCD_DEVICE
    <3>4. Due = next - 1 - buflen /\ Due' = next - 1
      BY <1>u, <3>1, <3>2 DEF Due, Served
    <3>5. Len(output) = next - 1 - buflen
      BY <1>e, <1>n, <3>3, <3>4 DEF Accounted
    <3>6. /\ Len(output') = next - 1
          /\ \A i \in 1 .. Len(output') : output'[i] = i
      BY <1>e, <3>1, <3>5, WrittenInOrder
    <3>7. Len(output') \in Nat
      BY <1>x DEF Types
    <3>8. Accounted'
      <4>1. 0 # 1 /\ \A n \in Nat : n + 0 + 0 = n
        OBVIOUS
      <4> QED BY <3>2, <3>3, <3>4, <3>6, <3>7, <4>1, Zenon DEF Accounted, Replied
    <3> QED BY <3>6, <3>8 DEF OutputInOrder
  <2> QED BY <1>o, <2>1, <2>2 DEF Data
<1>7. CASE HostWriteback
  <2> USE <1>7 DEF HostWriteback, Answer, mailbox
  <2>1. Arguments'
    BY <1>u, <1>f, <1>t, <1>e, Handling, Performing, Answering
       DEF Arguments, Replied, Frame, Printing
  <2>2. Accounted'
    <3>1. Main = "wait" /\ Asked = PrintWord /\ InHost
      BY <1>e, Performing
    <3>2. Served /\ Printing
      BY <3>1, PrintFields DEF Served, Printing
    <3>3. fromhost_queue' # <<>> /\ fromhost' = Zero
      BY <3>1 DEF InHost, NoReplies
    <3>4. Served' /\ Due' = Due
      BY <1>u, <3>2, <3>3 DEF Served, Replied, Due
    <3>5. InHand = 0 /\ InHand' = 0 /\ InMailbox' = InMailbox
      BY DEF InHand, InMailbox
    <3> QED BY <1>e, <3>3, <3>4, <3>5 DEF Accounted
  <2>3. OutputInOrder'
    BY <1>e DEF OutputInOrder
  <2> QED BY <1>o, <2>1, <2>2, <2>3 DEF Data
<1>8. CASE HandleBcd
  <2> USE <1>8 DEF HandleBcd, mailbox
  <2>1. Arguments'
    BY <1>u, <1>f, <1>t, <1>e, Handling, Performing, Answering
       DEF Arguments, Replied, Frame, Printing
  <2>2. Accounted'
    <3>1. Due' = Due /\ Replied' = Replied /\ InHand' = 0 /\ InMailbox' = InMailbox
      BY <1>u DEF Due, Served, Replied, InHand, InMailbox
    <3>2. InMailbox \in {0, 1} /\ Due \in Int /\ command.payload \in Nat
      BY <1>e, <1>t DEF InMailbox, Due, Types, CommandType
    <3>3. Len(output') + 0 = Len(output) + InHand
      <4>1. CASE command.cmd = 0
        BY <4>1, <1>t DEF InHand, IsWrite
      <4>2. CASE command.cmd = 1
        <5>1. InHand = 1 /\ output' = Append(output, command.payload)
          BY <4>2 DEF InHand, IsWrite
        <5> QED BY <1>t, <3>2, <5>1, AppendProperties
      <4> QED BY <4>1, <4>2
    <3>4. Printing /\ Replied => Main = "back"
      BY <1>e, <1>t DEF Exchange, Resting, Sending, Waiting, Acking, Exiting, Printing, Replied,
                        NoReplies, InTohost, InHost, InPending, InQueue, InFromhost, Loose
    <3>5. Len(output') \in Int /\ InHand \in {0, 1}
      BY <1>x DEF Types, InHand
    <3> QED BY <1>u, <1>t, <1>e, <3>1, <3>2, <3>3, <3>4, <3>5 DEF Accounted, Replied
  <2>3. OutputInOrder'
    <3>1. CASE command.cmd = 0
      BY <1>e, <3>1 DEF OutputInOrder
    <3>2. CASE command.cmd = 1
      <4>1. InHand = 1 /\ output' = Append(output, command.payload) /\ command.payload \in Nat
        BY <1>e, <3>2 DEF InHand, IsWrite, Types, CommandType
      <4>2. command.payload = Len(output) + 1
        BY <1>e, <4>1 DEF Accounted
      <4>3. /\ Len(output') = Len(output) + 1
            /\ \A i \in 1 .. Len(output) : output'[i] = output[i]
            /\ output'[Len(output) + 1] = Len(output) + 1
        BY <1>t, <4>1, <4>2, AppendProperties
      <4> QED BY <1>e, <1>t, <4>3 DEF OutputInOrder
    <3> QED BY <3>1, <3>2
  <2> QED BY <1>o, <2>1, <2>2, <2>3 DEF Data
<1>9. CASE HandleIdentify
  <2> USE <1>9 DEF HandleIdentify, mailbox
  <2>1. Arguments'
    <3>1. ~Printing /\ Frame' = Frame /\ hpc' = "tick"
      BY <1>e, Identifying DEF Frame
    <3> QED BY <1>u, <3>1 DEF Arguments
  <2>2. Accounted'
    <3>1. ~Printing /\ ~Served /\ ~Served'
      BY <1>u, <1>e, Identifying DEF Served
    <3>2. InHand' = 0 /\ InHand = 0 /\ InMailbox' = InMailbox
      BY DEF InHand, InMailbox, IsWrite, IDENTIFY
    <3> QED BY <1>u, <1>e, <3>1, <3>2 DEF Accounted, Due
  <2>3. OutputInOrder'
    BY <1>e DEF OutputInOrder
  <2> QED BY <1>o, <2>1, <2>2, <2>3 DEF Data
<1>10. CASE HandleNull
  <2> USE <1>10 DEF HandleNull, mailbox
  <2>1. Arguments'
    BY <1>u, <1>f, <1>t, <1>e, Handling, Performing, Answering
       DEF Arguments, Replied, Frame, Printing
  <2>2. Accounted'
    BY <1>u, <1>t, <1>e, ZeroFields, Handling, Performing, Answering
       DEF Accounted, Served, Replied, Due, InHand, InMailbox, IsWrite
  <2>3. OutputInOrder'
    BY <1>e DEF OutputInOrder
  <2> QED BY <1>o, <2>1, <2>2, <2>3 DEF Data
<1>11. CASE \E typed \in {{}} \cup {{key} : key \in Keys} : HostTick(typed)
  <2> USE <1>11 DEF HostTick, Remaining, mailbox
  <2>1. Arguments'
    <3>1. Printing => Replied' = Replied
      BY <1>e, <1>u, Ticking DEF Replied
    <3>2. Frame' = Frame /\ hpc' = "deliver"
      BY DEF Frame
    <3> QED BY <1>u, <1>e, <3>1, <3>2 DEF Arguments
  <2>2. Accounted'
    <3>1. Printing => Replied' = Replied
      BY <1>e, <1>u, Ticking DEF Replied
    <3>2. InHand' = 0 /\ InHand = 0 /\ InMailbox' = InMailbox
      BY DEF InHand, InMailbox
    <3>3. (Served <=> Served') /\ Due' = Due
      BY <1>u, <3>1 DEF Served, Due
    <3> QED BY <1>u, <1>e, <3>2, <3>3 DEF Accounted
  <2>3. OutputInOrder'
    BY <1>e DEF OutputInOrder
  <2> QED BY <1>o, <2>1, <2>2, <2>3 DEF Data
<1>12. CASE HostDeliver
  <2> USE <1>12 DEF HostDeliver, mailbox
  <2>1. Arguments'
    BY <1>u, <1>f, <1>t, <1>e, Handling, Performing, Answering
       DEF Arguments, Replied, Frame, Printing
  <2>2. Accounted'
    BY <1>u, <1>t, <1>e, ZeroFields, Handling, Performing, Answering
       DEF Accounted, Served, Replied, Due, InHand, InMailbox, IsWrite
  <2>3. OutputInOrder'
    BY <1>e DEF OutputInOrder
  <2> QED BY <1>o, <2>1, <2>2, <2>3 DEF Data
<1>13. CASE HostAnswer
  <2> USE <1>13 DEF HostAnswer, mailbox
  <2>1. Arguments'
    <3>1. Main = "wait" /\ InQueue /\ Answers(fromhost_queue[1])
      BY <1>e, Answering DEF InQueue
    <3>p. Len(fromhost_queue) = 1 /\ fromhost' = fromhost_queue[1]
      BY <3>1, AnswerTakes DEF InQueue
    <3>q. fromhost_queue # <<>>
      BY <3>p
    <3>2. Replied /\ Replied'
      BY <3>1, <3>p, <3>q, ZeroFields DEF Replied, Answers
    <3>3. Frame' = Frame /\ hpc' = "poll"
      BY DEF Frame
    <3> QED BY <1>u, <1>e, <3>2, <3>3 DEF Arguments
  <2>2. Accounted'
    <3>1. Main = "wait" /\ InQueue /\ Answers(fromhost_queue[1])
      BY <1>e, Answering DEF InQueue
    <3>p. Len(fromhost_queue) = 1 /\ fromhost' = fromhost_queue[1]
      BY <3>1, AnswerTakes DEF InQueue
    <3>q. fromhost_queue # <<>>
      BY <3>p
    <3>2. Replied /\ Replied'
      BY <3>1, <3>p, <3>q, ZeroFields DEF Replied, Answers
    <3>3. (Served <=> Served') /\ (Served <=> Printing) /\ Due' = Due
      BY <1>u, <3>2 DEF Served, Due
    <3>4. InHand' = 0 /\ InHand = 0 /\ InMailbox' = 0 /\ InMailbox = 0
      BY <3>1, ZeroFields DEF InHand, InMailbox, IsWrite, InQueue, BCD_DEVICE
    <3>5. Len(output) = Due
      BY <1>e, <1>t, <3>4 DEF Accounted
    <3>6. Printing => Len(output) = next - 1
      BY <3>3, <3>5 DEF Due
    <3>7. Len(output) + 0 + 0 = Due
      BY <1>t, <3>5
    <3> QED BY <1>u, <1>e, <3>3, <3>4, <3>6, <3>7 DEF Accounted
  <2>3. OutputInOrder'
    BY <1>e DEF OutputInOrder
  <2> QED BY <1>o, <2>1, <2>2, <2>3 DEF Data
<1> QED BY <1>1, <1>2, <1>3, <1>4, <1>5, <1>6, <1>7, <1>8, <1>9, <1>10, <1>11, <1>12, <1>13
           DEF HostStep

LEMMA SignalData ==
    ASSUME IInv, Signal, UNCHANGED targetVars
    PROVE  Data'
<1>u. /\ Main' = Main /\ Asked' = Asked /\ buflen' = buflen /\ next' = next /\ Printing' = Printing
  BY DEF targetVars, Main, Asked, Printing
<1>e. Types /\ Exchange /\ Arguments /\ Buffered /\ Room /\ Accounted /\ OutputInOrder
  BY DEF IInv, Data
<1> USE DEF Signal, mailbox
<1>1. Arguments' /\ Buffered' /\ Room' /\ OutputInOrder'
  BY <1>u, <1>e DEF Arguments, Buffered, InBuffer, Room, OutputInOrder, Replied, Frame
<1>2. Accounted'
  <2>1. CASE signal_exit
    BY <1>u, <1>e, <2>1 DEF Accounted, Replied
  <2>2. CASE ~signal_exit
    BY <1>u, <1>e, <2>2 DEF Accounted, Replied, Due, Served, InHand, InMailbox
  <2> QED BY <2>1, <2>2 DEF IInv, Types
<1> QED BY <1>1, <1>2 DEF Data

(* One more character in the buffer.                                         *)
LEMMA BufferedMore ==
    ASSUME Types, Buffered,
           NEW b, NEW n, NEW l, n = next + 1, l = buflen + 1, Len(b) \in Nat, l <= Len(b),
           b[buflen + 1] = next, \A i \in 1 .. buflen : b[i] = buf[i]
    PROVE  InBuffer(b, l, n)
<1>1. buflen \in Nat /\ next \in Nat
  BY DEF Types
<1>2. ASSUME NEW i \in 1 .. l PROVE b[i] = n - 1 - l + i
  <2>1. CASE i \in 1 .. buflen
    BY <1>1, <2>1 DEF Buffered, InBuffer
  <2>2. CASE i = buflen + 1
    BY <1>1, <2>2
  <2> QED BY <1>1, <2>1, <2>2
<1> QED BY <1>1, <1>2 DEF Buffered, InBuffer

LEMMA TargetData ==
    ASSUME IInv, ~HandlerPrints, TargetStep
    PROVE  Data'
<1>t. /\ buflen \in Nat /\ next \in Nat /\ Len(output) \in Nat /\ buf \in Seq(Nat)
      /\ magic_mem \in [Frames -> [word0 : Nat, len : Nat]]
      /\ tpc \in [Context -> {"off", "run", "write", "wait", "ack", "back", "sent", "exit"}]
      /\ asked \in [Context -> CommandType] /\ "main" \in Context /\ "main" # "trap"
      /\ BUF \in Nat /\ BUF > 0
  BY BufAssumption DEF IInv, Types, Context
<1>f. FrameOf("main") = 2 /\ FrameOf("trap") = 4 /\ 2 \in Frames
  BY FrameAssumption DEF FrameOf
<1>e. Types /\ Exchange /\ Arguments /\ Buffered /\ Room /\ Accounted /\ OutputInOrder
  BY DEF IInv, Data
<1>1. ASSUME NEW newline \in BOOLEAN, Putchar("main", newline) PROVE Data'
  <2> USE <1>1 DEF Putchar, Runs, Goto, Unhosted, hostVars, mailbox
  <2>1. Main = "run" /\ Main' \in {"run", "write"} /\ (Main' = "run" => buflen + 1 # BUF)
    BY <1>t DEF Main
  <2>2. Arguments' /\ OutputInOrder'
    BY <1>e, <2>1, Performing DEF Arguments, OutputInOrder, Printing
  <2>3. Room'
    BY <1>t, <1>e, <2>1 DEF Room
  <2>4. Buffered'
    <3>1. buflen \in 0 .. Len(buf) /\ buflen < next
      BY <1>t, <1>e DEF Buffered, InBuffer
    <3>2. CASE buflen < Len(buf)
      <4>1. buf' = [buf EXCEPT ![buflen + 1] = next] /\ buflen + 1 \in 1 .. Len(buf)
        BY <1>t, <3>1, <3>2
      <4>2. /\ Len(buf') = Len(buf) /\ buf'[buflen + 1] = next
            /\ \A i \in 1 .. buflen : buf'[i] = buf[i]
        BY <1>t, <4>1, ExceptSeq
      <4>3. Len(buf') \in Nat /\ buflen' <= Len(buf') /\ next' = next + 1 /\ buflen' = buflen + 1
        BY <1>t, <3>1, <3>2, <4>2
      <4> QED BY <1>e, <4>2, <4>3, BufferedMore, Zenon DEF Buffered
    <3>3. CASE ~(buflen < Len(buf))
      <4>1. buf' = Append(buf, next) /\ buflen = Len(buf)
        BY <1>t, <3>1, <3>3
      <4>2. /\ Len(buf') = buflen + 1 /\ buf'[buflen + 1] = next
            /\ \A i \in 1 .. buflen : buf'[i] = buf[i]
        BY <1>t, <4>1, AppendProperties
      <4>3. Len(buf') \in Nat /\ buflen' <= Len(buf') /\ next' = next + 1 /\ buflen' = buflen + 1
        BY <1>t, <4>2
      <4> QED BY <1>e, <4>2, <4>3, BufferedMore, Zenon DEF Buffered
    <3> QED BY <3>2, <3>3
  <2>5. Accounted'
    <3>1. ~Printing /\ ~Printing' /\ ~Served /\ ~Served'
      BY <2>1 DEF Printing, Served
    <3>2. Due = next - 1 - buflen /\ Due' = next' - 1 - buflen'
      BY <3>1 DEF Due
    <3>3. Due' = Due
      BY <1>t, <3>2
    <3>4. InHand' = InHand /\ InMailbox' = InMailbox
      BY DEF InHand, InMailbox
    <3> QED BY <1>e, <3>1, <3>3, <3>4 DEF Accounted
  <2> QED BY <2>2, <2>3, <2>4, <2>5 DEF Data
<1>2. CASE Syscall("main")
  <2> USE <1>2 DEF Syscall, Runs, Goto, Unhosted, hostVars
  <2>1. Main = "write" /\ Main' = "wait" /\ Asked' = PrintWord
    BY <1>t DEF Main, Asked, PrintWord
  <2>2. tohost = Zero /\ NoReplies /\ Free /\ tohost' = PrintWord
    BY <1>e, <2>1 DEF Exchange, Resting, PrintWord
  <2>3. ~Served /\ ~Served' /\ ~Replied /\ ~Replied'
    BY <1>e, <2>1, <2>2 DEF Served, Printing, Replied, NoReplies, Free, Loose
  <2>4. Arguments'
    BY <1>t, <1>f, <1>e, <2>1, <2>3, Performing DEF Arguments, Frame
  <2>5. Buffered' /\ Room' /\ OutputInOrder'
    BY <1>e, <2>1, PrintFields DEF Buffered, InBuffer, Room, OutputInOrder
  <2>6. InHand' = InHand /\ InMailbox' = InMailbox
    BY <2>2, ZeroFields, PrintFields DEF InHand, InMailbox, IsWrite, SYSCALL_DEVICE, BCD_DEVICE
  <2>7. Accounted'
    BY <1>t, <1>e, <2>2, <2>3, <2>6, ZeroFields DEF Accounted, Due, InMailbox, IsWrite,
                                                    BCD_DEVICE, Replied
  <2> QED BY <2>4, <2>5, <2>7 DEF Data
<1>3. CASE SeeReply("main")
  <2> USE <1>3 DEF SeeReply, Runs, Goto, Unhosted, hostVars, mailbox
  <2>1. Main = "wait" /\ Main' = "ack" /\ Asked' = Asked /\ Replied /\ Replied'
    BY <1>t DEF Main, Asked, Replied
  <2>2. (Served <=> Served') /\ (Printing <=> Printing')
    BY <2>1 DEF Served, Printing
  <2>3. Arguments' /\ Buffered' /\ Room' /\ OutputInOrder'
    BY <1>e, <2>1, <2>2 DEF Arguments, Frame, Buffered, InBuffer, Room, OutputInOrder
  <2>4. Accounted'
    BY <1>e, <2>1, <2>2 DEF Accounted, Due, InHand, InMailbox
  <2> QED BY <2>3, <2>4 DEF Data
<1>4. CASE Acknowledge("main")
  <2> USE <1>4 DEF Acknowledge, Acknowledged, Runs, Goto, Unhosted, hostVars
  <2>1. Main = "ack" /\ Main' = "back" /\ Asked' = Asked
    BY <1>t DEF Main, Asked
  <2>2. (Served <=> Served') /\ (Printing <=> Printing')
    BY <2>1 DEF Served, Printing
  <2>3. Arguments' /\ Buffered' /\ Room' /\ OutputInOrder'
    BY <1>e, <2>1, <2>2, Performing DEF Exchange, Acking, InFromhost, Arguments, Frame, Replied,
                                        Buffered, InBuffer, Room, OutputInOrder
  <2>4. Accounted'
    BY <1>e, <2>1, <2>2 DEF Accounted, Due, InHand, InMailbox
  <2> QED BY <2>3, <2>4 DEF Data
<1>5. CASE Return("main")
  <2> USE <1>5 DEF Return, Emptied, Runs, Goto, Unhosted, hostVars, mailbox
  <2>1. Main = "back" /\ Main' = "run" /\ Asked' = Asked /\ ~Printing' /\ ~Served'
    BY <1>t DEF Main, Asked, Printing, Served
  <2>2. buflen' = IF Printing THEN 0 ELSE buflen
    BY <2>1 DEF Printing, Asked
  <2>3. Due' = Due
    BY <1>t, <2>1, <2>2 DEF Due, Served
  <2>4. Arguments' /\ OutputInOrder'
    BY <1>e, <2>1, Performing DEF Arguments, OutputInOrder
  <2>5. Buffered' /\ Room'
    <3>1. CASE Printing
      BY <1>t, <1>e, <2>1, <2>2, <3>1 DEF Buffered, InBuffer, Room
    <3>2. CASE ~Printing
      <4>1. buflen < BUF
        BY <1>e, <2>1, <3>2 DEF Room, Printing
      <4> QED BY <1>t, <1>e, <2>1, <2>2, <3>2, <4>1 DEF Buffered, InBuffer, Room
    <3> QED BY <3>1, <3>2
  <2>6. Accounted'
    BY <1>e, <2>1, <2>3 DEF Accounted, InHand, InMailbox
  <2> QED BY <2>4, <2>5, <2>6 DEF Data
<1>6. ASSUME NEW result \in ExitCodes, Exit(result) PROVE Data'
  <2> USE <1>6 DEF Exit, Runs, Goto, Unhosted, hostVars
  <2>1. Main = "run" /\ Main' = "exit" /\ ~Printing /\ ~Printing' /\ ~Served /\ ~Served'
    BY <1>t DEF Main, Printing, Served
  <2>2. tohost = Zero /\ tohost'.dev = SYSCALL_DEVICE
    BY <1>e, <2>1 DEF Exchange, Resting, Command
  <2>3. InHand' = InHand /\ InMailbox' = 0 /\ InMailbox = 0
    BY <2>2, ZeroFields DEF InHand, InMailbox, IsWrite, SYSCALL_DEVICE, BCD_DEVICE
  <2>4. Arguments' /\ Buffered' /\ Room' /\ OutputInOrder'
    BY <1>e, <2>1, Performing DEF Arguments, Buffered, InBuffer, Room, OutputInOrder
  <2>5. Accounted'
    BY <1>t, <1>e, <2>1, <2>3 DEF Accounted, Due
  <2> QED BY <2>4, <2>5 DEF Data
<1>7. ASSUME NEW pair \in Console, ConsoleCommand(pair) PROVE Data'
  <2> DEFINE request == Command(pair[1], pair[2], IF Writes(pair) THEN next ELSE 0)
  <2> USE <1>7 DEF ConsoleCommand, Runs, Goto, Unhosted, hostVars
  <2>1. /\ Main = "run" /\ Main' \in {"wait", "sent"} /\ tohost' = request /\ Asked' = request
        /\ tohost = Zero
    BY <1>t DEF Main, Asked
  <2>2. /\ request.dev \in 1 .. 255
        /\ IsWrite(request) <=> Writes(pair)
        /\ Writes(pair) => request.payload = next
    <3> DEFINE D == 1 .. 255
    <3> DEFINE K == 0 .. 255
    <3>0. pair \in D \X K
      BY ConsoleAssumption
    <3> HIDE DEF D, K
    <3>1. PICK d \in D, k \in K : pair = <<d, k>>
      BY <3>0
    <3>2. Writes(pair) <=> (d = BCD_DEVICE /\ k = 1)
      BY <3>1 DEF Writes
    <3>3. request.dev = d /\ request.cmd = k /\ (Writes(pair) => request.payload = next)
      BY <3>1 DEF Command
    <3> HIDE DEF request
    <3> QED BY <3>1, <3>2, <3>3 DEF D, IsWrite
  <2> HIDE DEF request
  <2>3. ~Printing /\ ~Printing' /\ ~Served /\ ~Served'
    BY <2>1, <2>2 DEF Printing, Served, SYSCALL_DEVICE
  <2>4. InHand' = InHand /\ InMailbox = 0 /\ InMailbox' = IF Writes(pair) THEN 1 ELSE 0
    BY <2>1, <2>2, ZeroFields DEF InHand, InMailbox, IsWrite, BCD_DEVICE
  <2>5. Arguments' /\ Buffered' /\ Room' /\ OutputInOrder'
    BY <1>t, <1>e, <2>1, <2>2, <2>3, Performing DEF Arguments, Buffered, InBuffer, Room,
                                                    OutputInOrder, SYSCALL_DEVICE
  <2>6. Accounted'
    <3>1. Due = next - 1 - buflen /\ Due' = next' - 1 - buflen
      BY <2>3 DEF Due
    <3>2. InHand \in {0, 1}
      BY DEF InHand
    <3>3. ASSUME hpc # "died" PROVE Len(output) + InHand = Due
      BY <1>t, <1>e, <2>4, <3>2, <3>3 DEF Accounted
    <3>4. CASE Writes(pair)
      <4>1. buflen = 0 /\ next' = next + 1 /\ tohost'.payload = next /\ InMailbox' = 1
        BY <2>1, <2>2, <2>4, <3>4
      <4>2. Due = next - 1 /\ Due' = next
        BY <1>t, <3>1, <4>1
      <4> QED BY <1>t, <1>e, <2>3, <2>4, <3>2, <3>3, <4>1, <4>2 DEF Accounted
    <3>5. CASE ~Writes(pair)
      <4>1. Due' = Due /\ InMailbox' = 0
        BY <2>4, <3>1, <3>5
      <4> QED BY <1>t, <1>e, <2>3, <2>4, <3>2, <3>3, <4>1 DEF Accounted
    <3> QED BY <3>4, <3>5
  <2> QED BY <2>5, <2>6 DEF Data
<1>8. CASE ConsoleTaken
  <2> USE <1>8 DEF ConsoleTaken, Runs, Goto, Unhosted, hostVars, mailbox
  <2>1. Main = "sent" /\ Main' = "run" /\ Asked' = Asked /\ ~Printing /\ ~Printing' /\ ~Served /\ ~Served'
    BY <1>t DEF Main, Asked, Printing, Served
  <2>2. Asked.dev # SYSCALL_DEVICE
    BY <1>e, <2>1 DEF Exchange, Sending, Unanswered
  <2>3. Arguments' /\ Buffered' /\ Room' /\ OutputInOrder'
    BY <1>e, <2>1, <2>2, Performing DEF Arguments, Buffered, InBuffer, Room, OutputInOrder
  <2>4. Accounted'
    BY <1>e, <2>1 DEF Accounted, Due, InHand, InMailbox
  <2> QED BY <2>3, <2>4 DEF Data
<1>9. CASE Trap \/ TrapReturn
  <2> USE <1>9 DEF Trap, TrapReturn, Goto, Unhosted, hostVars, mailbox
  <2>1. Main' = Main /\ Asked' = Asked /\ Printing' = Printing /\ Frame' = Frame
    BY <1>t, <1>f DEF Main, Asked, Printing, Frame
  <2>2. Served' = Served /\ Replied' = Replied /\ InHand' = InHand /\ InMailbox' = InMailbox
    BY <2>1 DEF Served, Replied, InHand, InMailbox
  <2>3. Arguments' /\ Buffered' /\ Room' /\ OutputInOrder'
    BY <1>e, <2>1, <2>2 DEF Arguments, Buffered, InBuffer, Room, OutputInOrder
  <2>4. Accounted'
    BY <1>e, <2>1, <2>2 DEF Accounted, Due
  <2> QED BY <2>3, <2>4 DEF Data
<1> QED BY <1>1, <1>2, <1>3, <1>4, <1>5, <1>6, <1>7, <1>8, <1>9, OnlyMain
           DEF TargetStep, Proceed, Context, IInv

-----------------------------------------------------------------------------
(* The invariant holds at first and through every step.                     *)
LEMMA InitIInv == Init => IInv
<1> SUFFICES ASSUME Init PROVE IInv
  OBVIOUS
<1>i. /\ tohost = Zero /\ fromhost = Zero /\ hpc = "poll" /\ command = Zero /\ len = 0
      /\ fromhost_queue = <<>> /\ pending_reads = <<>> /\ output = <<>> /\ exitcode = 0
      /\ signal_exit = FALSE /\ buf = <<>> /\ buflen = 0 /\ next = 1 /\ traps = 0 /\ code = 0
      /\ magic_mem = [a \in Frames |-> [word0 |-> 0, len |-> 0]]
      /\ tpc = [c \in Context |-> IF c = "main" THEN "run" ELSE "off"]
      /\ asked = [c \in Context |-> Zero]
  BY DEF Init, HostInit
<1>1. Main = "run" /\ tpc["trap"] = "off"
  BY <1>i DEF Main, Context
<1>2. Types
  <2>1. <<>> \in Seq(Nat) /\ 0 \in Nat /\ 1 \in Nat /\ Len(<<>>) = 0
    OBVIOUS
  <2>2. /\ magic_mem \in [Frames -> [word0 : Nat, len : Nat]]
        /\ tpc \in [Context -> {"off", "run", "write", "wait", "ack", "back", "sent", "exit"}]
        /\ asked \in [Context -> CommandType]
    BY <1>i, ZeroFields
  <2> QED BY <1>i, <1>1, <2>1, <2>2, ZeroFields, IntegerOfWord, Zenon DEF Types, Main
<1>3. Exchange
  BY <1>i, <1>1 DEF Exchange, Resting, Sending, Waiting, Acking, Exiting, Reason, NoReplies,
                    Free, Loose
<1>4. Data
  <2>1. Len(output) = 0 /\ Len(buf) = 0
    BY <1>i
  <2>2. Arguments /\ Room
    BY <1>i, <1>1, BufAssumption DEF Arguments, Printing, Room
  <2>3. Buffered /\ OutputInOrder
    BY <1>i, <2>1 DEF Buffered, InBuffer, OutputInOrder
  <2>4. Accounted
    BY <1>i, <1>1, <2>1, ZeroFields DEF Accounted, Due, Served, Printing, InHand, InMailbox,
                                        IsWrite, BCD_DEVICE
  <2> QED BY <2>2, <2>3, <2>4 DEF Data
<1> QED BY <1>2, <1>3, <1>4 DEF IInv

LEMMA NextIInv ==
    ASSUME ~HandlerPrints
    PROVE  IInv /\ [Next]_vars => IInv'
<1> SUFFICES ASSUME IInv, [Next]_vars PROVE IInv'
  OBVIOUS
<1>1. CASE HostStep /\ UNCHANGED targetVars
  BY <1>1, HostTypes, HostExchange, HostData DEF IInv
<1>2. CASE Signal /\ UNCHANGED targetVars
  BY <1>2, SignalTypes, SignalExchange, SignalData DEF IInv
<1>3. CASE TargetStep
  BY <1>3, TargetTypes, TargetExchange, TargetData DEF IInv
<1>4. CASE UNCHANGED vars
  <2> USE <1>4 DEF IInv, vars, hvars, mailbox, hostVars, targetVars
  <2>1. Types'
    BY DEF Types
  <2>2. Exchange'
    BY DEF Exchange, Resting, Sending, Waiting, Acking, Exiting, Reason, Main, Asked, Exited,
           ExitInt, PrintWord,
       InTohost, InHost, InPending, InQueue, InFromhost, NoReplies, Taking, Free, Loose, Answers
  <2>3. Data'
    BY DEF Data, Arguments, Buffered, InBuffer, Room, Accounted, OutputInOrder, Main, Asked,
           Printing, Replied,
       Served, Frame, Due, InHand, InMailbox
  <2> QED BY <2>1, <2>2, <2>3
<1> QED BY <1>1, <1>2, <1>3, <1>4 DEF Next

LEMMA InvInductive ==
    ASSUME ~HandlerPrints
    PROVE  Spec => []IInv
<1>1. IInv /\ [Next]_vars => IInv'
  BY NextIInv
<1> QED BY <1>1, InitIInv, PTL DEF Spec

-----------------------------------------------------------------------------
(* The mailbox, the host's latches and queues and the program's places keep  *)
(* their types; in particular htif_t::run never has more than one reply or  *)
(* one console read to remember, and putchar never passes the end of buf.   *)
THEOREM TypeCorrect == ASSUME ~HandlerPrints PROVE Spec => []TypeOK
<1>1. IInv => TypeOK
  <2> SUFFICES ASSUME IInv PROVE TypeOK
    OBVIOUS
  <2>1. buflen \in 0 .. BUF
    BY BufAssumption DEF IInv, Data, Room, Types
  <2> QED BY <2>1, Queues DEF IInv, Types, TypeOK
<1> QED BY <1>1, InvInductive, PTL

(* A command that the program waits for is in exactly one of tohost, the     *)
(* host's hands, the pending reads, the queue of replies and fromhost.      *)
THEOREM NeverLost == ASSUME ~HandlerPrints PROVE Spec => []OnePlace
<1>1. IInv => OnePlace
  BY ExchangeOnePlace DEF IInv
<1> QED BY <1>1, InvInductive, PTL

(* syscall_t::dispatch touches magic_mem only while the call that owns it     *)
(* has not returned.                                                        *)
THEOREM FramesAlive == ASSUME ~HandlerPrints PROVE Spec => []FrameInUse
<1>1. IInv => FrameInUse
  <2> SUFFICES ASSUME IInv, hpc \in {"perform", "writeback"}
               PROVE  FrameOf("main") = command.payload /\ tpc["main"] = "wait"
    BY DEF FrameInUse, Context
  <2> QED BY Performing, PrintFields DEF IInv, Main
<1> QED BY <1>1, InvInductive, PTL

(* Unless the user stopped it, htif_t::run returns what main returned, for    *)
(* every int of one bit less than an int has, and of any other the value      *)
(* without its highest bit, which the shift of tohost_exit takes.           *)
THEOREM ExitCorrect == ASSUME ~HandlerPrints PROVE Spec => []ExitReported
<1>1. IInv => ExitReported
  BY ExchangeExit DEF IInv
<1> QED BY <1>1, InvInductive, PTL

(* When syscall() sees its reply the host has done everything: the result is  *)
(* in magic_mem and the characters are on the terminal.                     *)
THEOREM RepliesCorrect == ASSUME ~HandlerPrints PROVE Spec => []ReplyMeansDone
<1>1. IInv => ReplyMeansDone
  <2> SUFFICES ASSUME IInv, fromhost # Zero, Main \in {"wait", "ack"}
               PROVE  /\ fromhost.dev = Asked.dev /\ fromhost.cmd = Asked.cmd
                      /\ Asked.dev = SYSCALL_DEVICE =>
                           /\ magic_mem[Asked.payload].word0 = buflen
                           /\ Len(output) >= buflen
                           /\ SubSeq(output, Len(output) - buflen + 1, Len(output))
                                = SubSeq(buf, 1, buflen)
    BY DEF ReplyMeansDone, Main, Asked
  <2>1. IsRequest(Asked) /\ InFromhost
    BY DEF IInv, Exchange, Waiting, Acking, InTohost, InHost, InPending, InQueue, NoReplies
  <2>2. fromhost.dev = Asked.dev /\ fromhost.cmd = Asked.cmd
    BY <2>1 DEF InFromhost, Answers
  <2>3. ASSUME Asked.dev = SYSCALL_DEVICE
        PROVE  /\ magic_mem[Asked.payload].word0 = buflen
               /\ Len(output) >= buflen
               /\ SubSeq(output, Len(output) - buflen + 1, Len(output)) = SubSeq(buf, 1, buflen)
    <3>1. Asked = PrintWord /\ Printing /\ Replied
      BY <2>1, <2>3 DEF IsRequest, Printing, Replied
    <3>2. magic_mem[Asked.payload].word0 = buflen
      BY <3>1, PrintFields DEF IInv, Data, Arguments, Frame
    <3>3. Len(output) = next - 1
      BY <3>1 DEF IInv, Data, Accounted
    <3>4. /\ buflen \in Nat /\ next \in Nat /\ output \in Seq(Nat) /\ buf \in Seq(Nat)
          /\ buflen < next /\ buflen <= Len(buf)
          /\ \A i \in 1 .. buflen : buf[i] = next - 1 - buflen + i
          /\ \A i \in 1 .. Len(output) : output[i] = i
      BY DEF IInv, Types, Data, Buffered, InBuffer, OutputInOrder
    <3>5. Len(output) >= buflen
      BY <3>3, <3>4
    <3> DEFINE shown == SubSeq(output, Len(output) - buflen + 1, Len(output))
    <3> DEFINE chars == SubSeq(buf, 1, buflen)
    <3>6. /\ chars \in Seq(Nat) /\ Len(chars) = buflen
          /\ \A i \in 1 .. buflen : chars[i] = buf[i]
      BY Characters DEF IInv, Data
    <3>7. /\ shown \in Seq(Nat) /\ Len(shown) = buflen
          /\ \A i \in 1 .. buflen : shown[i] = output[Len(output) - buflen + i]
      <4> DEFINE first == Len(output) - buflen + 1
                 last  == Len(output)
      <4>1. first \in 1 .. last + 1 /\ last \in Nat /\ last + 1 - first = buflen
        BY <3>3, <3>4, <3>5
      <4>2. first >= 1 /\ last <= Len(output)
        BY <4>1
      <4>3. \A i \in 1 .. buflen : first + i - 1 = Len(output) - buflen + i
        BY <3>4, <4>1
      <4> HIDE DEF first, last
      <4>4. /\ SubSeq(output, first, last) \in Seq(Nat) /\ Len(SubSeq(output, first, last)) = buflen
            /\ \A i \in 1 .. buflen : SubSeq(output, first, last)[i] = output[first + i - 1]
        <5>1. \A i \in first .. last : output[i] \in Nat
          BY <3>4, <4>1, <4>2
        <5> QED BY <4>1, <5>1, SubSeqProperties
      <4> QED BY <4>3, <4>4 DEF first, last
    <3> HIDE DEF shown, chars
    <3>8. ASSUME NEW i \in 1 .. buflen PROVE shown[i] = chars[i]
      <4> DEFINE j == Len(output) - buflen + i
      <4>1. j \in 1 .. Len(output) /\ j = next - 1 - buflen + i
        BY <3>3, <3>4
      <4>2. output[j] = j /\ shown[i] = output[j]
        BY <3>4, <3>7, <4>1
      <4>3. chars[i] = next - 1 - buflen + i
        BY <3>4, <3>6
      <4> HIDE DEF j
      <4> QED BY <4>1, <4>2, <4>3
    <3>9. shown = chars
      BY <3>6, <3>7, <3>8, SeqEqual
    <3> QED BY <3>2, <3>5, <3>9 DEF shown, chars
  <2> QED BY <2>2, <2>3
<1> QED BY <1>1, InvInductive, PTL

(* Characters come out in the order in which they were printed, each once.    *)
THEOREM OutputCorrect == ASSUME ~HandlerPrints PROVE Spec => []OutputInOrder
<1>1. IInv => OutputInOrder
  BY DEF IInv, Data
<1> QED BY <1>1, InvInductive, PTL
=============================================================================
