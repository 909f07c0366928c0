------------------------------- MODULE MemIf --------------------------------
(***************************************************************************)
(* memif.cc over Tsi: reads and writes of any range of bytes, cut into the  *)
(* words and chunks that the transport offers.  A word that a write covers  *)
(* in part is read first and written back whole.                            *)
(***************************************************************************)
EXTENDS Tsi

CONSTANTS MAX_CHUNK,   \* chunk_max_size in bytes; 1024 in the code
          HostByte,    \* the bytes that HTIF writes
          TargetByte,  \* the bytes that the target's program stores into
          Ranges,      \* bound: <<address, length>> of the calls that are made
          MaxPosted,   \* bound: commands on their way when a call starts
          NoCall

ASSUME AlignAssumption == /\ ALIGN \in Nat \ {0}
                          /\ MAX_CHUNK \in Nat \ {0} /\ MAX_CHUNK % ALIGN = 0
ASSUME ByteAssumption ==
    /\ Byte \subseteq Nat /\ HostByte \subseteq Byte /\ TargetByte \subseteq Byte
    /\ \A b \in Byte : \A j \in Lane : AlignDown(b) + j \in Byte
ASSUME RangeAssumption == Ranges \subseteq Nat \X Nat
(* Host and target do not write into the same word.                         *)
ASSUME WordAssumption ==
    \A t \in TargetByte, h \in HostByte : AlignDown(t) # AlignDown(h)

VARIABLES call,        \* the call under way: [put, addr, len, data]
          loc,         \* where it is in read or write
          addr, len,   \* the parameters, as the code moves them on
          off,         \* how far bytes has moved on
          pos,         \* the loop's position in the aligned rest
          buf,         \* the caller's buffer
          got          \* the words read_chunk has received so far

callVars == <<call, loc, addr, len, off, pos, buf, got>>
vars == <<tsiVars, callVars>>

(* The values a byte takes: 0, or its own mark, so that a byte that ends up  *)
(* elsewhere shows.  A read's buffer holds neither at first.                *)
Mark(b) == b + 1
Unread == -1

Call(w, a, n, f(_)) == [put |-> w, addr |-> a, len |-> n, data |-> [i \in 0 .. n - 1 |-> f(a + i)]]

Zero(b) == 0
Blank(b) == Unread

Within(bytes) == {r \in Ranges : \A b \in r[1] .. r[1] + r[2] - 1 : b \in bytes}

(* HTIF reads what it writes and what the target stores.  Zeros, for which  *)
(* the code has a path of its own, come in ranges that may hold a word.     *)
Calls == {Call(FALSE, r[1], r[2], Blank) : r \in Within(HostByte) \cup Within(TargetByte)}
    \cup {Call(TRUE, r[1], r[2], Zero) : r \in {r \in Within(HostByte) : r[2] >= ALIGN}}
    \cup {Call(TRUE, r[1], r[2], Mark) : r \in Within(HostByte)}

ASSUME CallAssumption == NoCall \notin Calls

Init == /\ TsiInit
        /\ call = NoCall /\ loc = "idle"
        /\ addr = 0 /\ len = 0 /\ off = 0 /\ pos = 0
        /\ buf = <<>> /\ got = <<>>

Host(l) == running = "host" /\ loc = l

(* memif_t::read or memif_t::write is called.                               *)
Begin(c) == /\ Host("idle") /\ Len(in_data) <= MaxPosted
            /\ call' = c /\ loc' = "head"
            /\ addr' = c.addr /\ len' = c.len /\ buf' = c.data
            /\ off' = 0 /\ pos' = 0 /\ got' = <<>>
            /\ UNCHANGED tsiVars

(* Between two calls the host may be done, and only passes control on.      *)
HostYield == Host("idle") /\ SwitchToTarget /\ UNCHANGED <<in_data, out_data, chip, callVars>>

-----------------------------------------------------------------------------
(* The three kinds of pieces: the bytes before the first boundary, those    *)
(* after the last, and one chunk of the rest.  Each has a first word, a     *)
(* number of words and the positions of the buffer that it stands for.      *)
Least(a, b) == IF a < b THEN a ELSE b

Misaligned == addr % ALIGN
HeadLen == Least(len, ALIGN - Misaligned)
LenAfterHead_Boundary == len - (ALIGN - Misaligned)
LenAfterHead == len - HeadLen
TailLen == len % ALIGN
NextPos == pos + MAX_CHUNK
ChunkLen == Least(MAX_CHUNK, len - pos)

Piece == IF loc \in {"head", "headRead"} THEN
           [at |-> AlignDown(addr), words |-> 1, lo |-> off, hi |-> off + HeadLen]
         ELSE IF loc \in {"tail", "tailRead"} THEN
           [at |-> addr + len - TailLen, words |-> 1,
            lo |-> off + len - TailLen, hi |-> off + len]
         ELSE
           [at |-> addr + pos, words |-> ChunkLen \div ALIGN,
            lo |-> off + pos, hi |-> off + pos + ChunkLen]

(* The position in the buffer of the piece's first byte in memory; it is    *)
(* negative for a head at the start of the buffer.                          *)
Base == Piece.at - addr + off

InPiece(i) == Piece.lo <= i /\ i < Piece.hi

(* memcpy from the words ws of the piece into the buffer, and back.         *)
Copied(ws) == [i \in DOMAIN buf |->
    IF InPiece(i) /\ i - Base < Len(ws) * ALIGN
      THEN ws[(i - Base) \div ALIGN + 1][(i - Base) % ALIGN]
      ELSE buf[i]]

Merged_Fresh(ws) == [k \in 1 .. Piece.words |-> [j \in Lane |->
    LET i == Base + (k - 1) * ALIGN + j IN IF InPiece(i) THEN buf[i] ELSE 0]]
Merged(ws) == [k \in 1 .. Piece.words |-> [j \in Lane |->
    LET i == Base + (k - 1) * ALIGN + j IN IF InPiece(i) THEN buf[i] ELSE ws[k][j]]]

(* read_chunk of the piece: the command goes out, and the words are awaited. *)
SendRead(l) == /\ in_data' = in_data \o ReadCommand(Piece.at, Piece.words)
               /\ loc' = l
               /\ got' = <<>>
               /\ UNCHANGED <<running, out_data, chip, call, addr, len, off, pos, buf>>

SendWrite(words) == /\ in_data' = in_data \o WriteCommand(Piece.at, words)
                    /\ UNCHANGED <<running, out_data, chip>>

Awaiting == loc \in {"headRead", "tailRead", "bodyRead"} /\ Len(got) < Piece.words

WaitWord == /\ running = "host" /\ Awaiting /\ out_data = <<>>
            /\ SwitchToTarget
            /\ UNCHANGED <<in_data, out_data, chip, callVars>>

RecvWord == /\ running = "host" /\ Awaiting /\ out_data # <<>>
            /\ got' = Append(got, Head(out_data))
            /\ out_data' = Tail(out_data)
            /\ UNCHANGED <<running, in_data, chip, call, loc, addr, len, off, pos, buf>>

(* The words are there: a read copies its part of them out, a write puts    *)
(* its part in and sends them back.                                         *)
Finish == IF call.put THEN SendWrite(Merged(got)) /\ buf' = buf
                      ELSE buf' = Copied(got) /\ UNCHANGED tsiVars

-----------------------------------------------------------------------------
Skip(from, to, nothing) == /\ Host(from) /\ nothing
                           /\ loc' = to
                           /\ UNCHANGED <<tsiVars, call, addr, len, off, pos, buf, got>>

HeadRead == Host("head") /\ len # 0 /\ Misaligned # 0 /\ SendRead("headRead")
HeadSkip == Skip("head", "tail", len = 0 \/ Misaligned = 0)

HeadDone == /\ Host("headRead") /\ ~Awaiting
            /\ Finish
            /\ addr' = addr + HeadLen
            /\ off' = off + HeadLen
            /\ len' = LenAfterHead
            /\ loc' = "tail"
            /\ UNCHANGED <<call, pos, got>>

TailRead == Host("tail") /\ TailLen # 0 /\ SendRead("tailRead")
TailSkip == Skip("tail", "body", TailLen = 0)

TailDone == /\ Host("tailRead") /\ ~Awaiting
            /\ Finish
            /\ len' = len - TailLen
            /\ loc' = "body"
            /\ UNCHANGED <<call, addr, off, pos, got>>

BodyRead == Host("body") /\ pos < len /\ ~call.put /\ SendRead("bodyRead")

BodyReadDone == /\ Host("bodyRead") /\ ~Awaiting
                /\ Finish
                /\ pos' = NextPos
                /\ loc' = "body"
                /\ UNCHANGED <<call, addr, len, off, got>>

(* clear_chunk, when all bytes are zero, cuts the range in the same way.    *)
BodyWrite == /\ Host("body") /\ pos < len /\ call.put
             /\ SendWrite(Merged(<<>>))
             /\ pos' = NextPos
             /\ UNCHANGED <<call, loc, addr, len, off, buf, got>>

End == /\ Host("body") /\ pos >= len
       /\ call' = NoCall /\ loc' = "idle" /\ buf' = <<>> /\ got' = <<>>
       /\ addr' = 0 /\ len' = 0 /\ off' = 0 /\ pos' = 0
       /\ UNCHANGED tsiVars

InCall == \/ WaitWord \/ RecvWord
          \/ HeadRead \/ HeadSkip \/ HeadDone
          \/ TailRead \/ TailSkip \/ TailDone
          \/ BodyRead \/ BodyReadDone \/ BodyWrite \/ End

TargetStore == \E b \in TargetByte : \E v \in {0, Mark(b)} :
                 Store(b, v) /\ UNCHANGED callVars

Tick == (TickIn \/ TickOut) /\ UNCHANGED callVars

Resume == SwitchToHost /\ UNCHANGED callVars

Next == \/ \E c \in Calls : Begin(c)
        \/ HostYield \/ InCall \/ TargetStore \/ Tick \/ Resume

(* A call that is under way goes on; the simulation comes back to the host, *)
(* and its serial adapter moves a word whenever it has been given the       *)
(* chance often enough.                                                     *)
Spec == Init /\ [][Next]_vars /\ WF_vars(InCall) /\ WF_vars(Resume) /\ SF_vars(Tick)

-----------------------------------------------------------------------------
Word == [Lane -> {0} \cup {Mark(b) : b \in Byte}]

TypeOK == /\ running \in {"host", "target"}
          /\ chip.mem \in [Byte -> {0} \cup {Mark(b) : b \in Byte}]
          /\ chip.st \in {"cmd", "read", "write"}
          /\ \A k \in DOMAIN out_data : out_data[k] \in Word
          /\ \A k \in DOMAIN got : got[k] \in Word
          /\ call = NoCall <=> loc = "idle"
          /\ addr \in Nat /\ len \in Nat
          /\ call # NoCall => addr + len <= call.addr + call.len

(* The words that are on their way make whole commands: outside a read the   *)
(* adapter ends up between two commands with nothing sent back, and in a    *)
(* read exactly the missing words will come.  One word too many or too few  *)
(* would shift every later transfer.                                        *)
InStep == IF Awaiting
            THEN IF Settled.st = "read"
                   THEN Len(got) + Len(out_data) + Settled.left + 1 = Piece.words
                   ELSE Len(got) + Len(out_data) = Piece.words /\ Settled.st = "cmd"
            ELSE Settled.st = "cmd" /\ out_data = <<>>

(* The words of the piece that the target has already read.                 *)
Reading == loc \in {"headRead", "tailRead", "bodyRead"} /\ ~call.put
Fetched == got \o out_data

(* Positions that are still to be transferred: for a write those not yet    *)
(* sent, for a read those that the target has not read.                     *)
Left == IF call = NoCall THEN {}
        ELSE {i \in off + pos .. off + len - 1 :
                ~(Reading /\ InPiece(i) /\ i - Base < Len(Fetched) * ALIGN)}

B == INSTANCE ByteMemory WITH
       Value  <- {0} \cup {Mark(b) : b \in Byte},
       memory <- Settled.mem,
       left   <- Left,
       data   <- IF Reading THEN Copied(Fetched) ELSE buf

(* Cutting, merging and the transport together are the memory of memif.h:   *)
(* each byte is transferred once and from or to its own place, no other is  *)
(* touched, and reads see all the writes that are still on their way.       *)
ImplementsMemory == B!BSpec

(* Every call ends, whatever words it has to wait for.                      *)
Returns == call # NoCall ~> call = NoCall
=============================================================================
