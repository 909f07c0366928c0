-------------------------------- MODULE Tsi ---------------------------------
(***************************************************************************)
(* tsi.cc: the host's side of the tethered serial interface.  The host puts *)
(* words into in_data, the target's serial adapter takes them, one per      *)
(* tick, performs what they say on the target's memory, and puts words into *)
(* out_data.  Host and target are coroutines: the host runs until it has to *)
(* wait for a word, and the simulation gives control back when it likes.    *)
(*                                                                          *)
(* A word is ALIGN bytes.  The five words of a command, its address and its *)
(* length are one element of in_data.                                       *)
(***************************************************************************)
EXTENDS Integers, Sequences

CONSTANTS ALIGN,   \* bytes of a word; 4 in the code
          Byte     \* byte addresses of the target's memory, whole words

VARIABLES running,   \* the coroutine that has control: "host" or "target"
          in_data, out_data,
          chip       \* the target: its serial adapter and its memory

tsiVars == <<running, in_data, out_data, chip>>

SAI_CMD_READ  == 0
SAI_CMD_WRITE == 1

Lane == 0 .. ALIGN - 1

AlignDown(a) == a - (a % ALIGN)

(* The serial adapter expects a command, and after one for a write the      *)
(* words; at and left say where it is in the transfer.                      *)
ChipInit == chip = [st |-> "cmd", at |-> 0, left |-> 0, mem |-> [b \in Byte |-> 0]]

TsiInit == /\ running = "host"
           /\ in_data = <<>> /\ out_data = <<>>
           /\ ChipInit

PushLen_Whole(n) == n
PushLen(n) == n - 1

(* What read_chunk and write_chunk put into in_data, for n words from a.    *)
Command(op, a, n) == [op |-> op, at |-> a, len |-> PushLen(n)]
ReadCommand(a, n) == <<Command(SAI_CMD_READ, a, n)>>
WriteCommand(a, words) == <<Command(SAI_CMD_WRITE, a, Len(words))>> \o words

-----------------------------------------------------------------------------
(* The adapter after one word of a transfer; left counts down to 0.         *)
Advanced(c) == IF c.left = 0 THEN [c EXCEPT !.st = "cmd", !.at = 0]
                             ELSE [c EXCEPT !.at = @ + ALIGN, !.left = @ - 1]

(* The adapter after the word w: a command, or one of the words to write.   *)
TakeWord(c, w) ==
    IF c.st = "cmd"
      THEN [c EXCEPT !.st = IF w.op = SAI_CMD_READ THEN "read" ELSE "write",
                     !.at = w.at, !.left = w.len]
      ELSE [Advanced(c) EXCEPT
                     !.mem = [b \in Byte |-> IF b - c.at \in Lane THEN w[b - c.at]
                                                                ELSE c.mem[b]]]

(* tick with in_ready: the target takes the word in front.                  *)
TickIn == /\ running = "target" /\ in_data # <<>> /\ chip.st # "read"
          /\ chip' = TakeWord(chip, Head(in_data))
          /\ in_data' = Tail(in_data)
          /\ UNCHANGED <<running, out_data>>

(* tick with out_valid; out_ready is always true.                           *)
TickOut == /\ running = "target" /\ chip.st = "read"
           /\ out_data' = Append(out_data, [j \in Lane |-> chip.mem[chip.at + j]])
           /\ chip' = Advanced(chip)
           /\ UNCHANGED <<running, in_data>>

(* The program on the target stores a byte.                                 *)
Store(b, v) == /\ running = "target"
               /\ chip' = [chip EXCEPT !.mem[b] = v]
               /\ UNCHANGED <<running, in_data, out_data>>

(* The simulation gives control to the host after any tick.                 *)
SwitchToHost == /\ running = "target"
                /\ running' = "host"
                /\ UNCHANGED <<in_data, out_data, chip>>

(* switch_to_target; not switching would be a wait without an end.          *)
SwitchToTarget_Not == running' = running
SwitchToTarget == running' = "target"

(* The target when all words that are on their way have arrived: the image  *)
(* of its state under the words of in_data, one after the other.            *)
Settled ==
    LET after[k \in 0 .. Len(in_data)] ==
          IF k = 0 THEN {chip} ELSE {TakeWord(c, in_data[k]) : c \in after[k - 1]}
    IN  IF chip.st = "read" THEN chip ELSE CHOOSE c \in after[Len(in_data)] : TRUE
=============================================================================
