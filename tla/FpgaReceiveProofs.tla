-------------------------- MODULE FpgaReceiveProofs --------------------------
(***************************************************************************)
(* Proofs about FpgaReceive for bytes of any width of at least two bits,    *)
(* FIFOs of any depth of at least two and any number of bits: bytes are     *)
(* framed, the FIFO is never overrun and is a queue, nothing from before a  *)
(* reset is taken, and no byte goes out twice or before an earlier one.     *)
(***************************************************************************)
EXTENDS FpgaReceive, SequenceTheorems, TLAPS

(* In IDLE nothing has been received since the reset.                       *)
Fresh == state = "IDLE" => taken = 0 /\ tl_byte_ctr = 0

(* Receiver and chip count the same bits, and the receiver has kept the      *)
(* ones of the byte on the wire.                                            *)
Aligned == /\ tl_byte_ctr = taken % BYTE
           /\ state = "RECEIVING" =>
                /\ taken > 0
                /\ \A i \in 0 .. BYTE - 1 : chip_byte[i] = 1 => tl_rx_byte[i] = 1

(* A byte is offered in the cycle after its last bit.                       *)
Offered == tl_rx_valid /\ state = "RECEIVING" => edge_was /\ tl_byte_ctr = 0

(* A byte about to be taken: tl_rx_ready, though old, is still right,       *)
(* because the write of the byte before is long over.                       *)
Taking == tl_rx_valid /\ tl_rx_ready => state = "RECEIVING" /\ ~full /\ ~tx_fifo_wr_en

(* A byte being written: the next cannot be complete for another cycle.      *)
Writing == tx_fifo_wr_en => ~tl_rx_valid /\ tl_byte_ctr = 0 /\ ~edge_was /\ ~full

(* Bytes taken, with the one about to be taken.                             *)
Pending == IF tl_rx_valid /\ tl_rx_ready THEN 1 ELSE 0
Counted == accepted + Pending <= taken \div BYTE

IInv == /\ TypeOK /\ TxFifo!TypeOK
        /\ Fresh /\ Aligned /\ Offered /\ Taking /\ Writing /\ Counted

-----------------------------------------------------------------------------
(* Counting a bit: the position in the byte wraps when a byte is complete.   *)
LEMMA DivStep ==
    ASSUME NEW n \in Nat, NEW b \in Nat, b >= 2
    PROVE  /\ (n + 1) % b = IF n % b = b - 1 THEN 0 ELSE (n % b) + 1
           /\ (n + 1) \div b = IF n % b = b - 1 THEN n \div b + 1 ELSE n \div b
OBVIOUS

LEMMA DivRange ==
    ASSUME NEW n \in Nat, NEW b \in Nat, b >= 2
    PROVE  /\ n % b \in 0 .. b - 1
           /\ n \div b \in Nat /\ n \div b <= n
OBVIOUS

LEMMA ZeroCounts == /\ 0 % BYTE = 0 /\ 0 \div BYTE = 0
                    /\ 0 \in Item /\ 0 \in 0 .. MaxBits /\ 0 \in 0 .. BYTE - 1
                    /\ Zero \in Byte /\ <<>> \in Seq(0 .. MaxBits)
BY ByteAssumption, MaxAssumption DEF Item, Zero, Byte, Bit

-----------------------------------------------------------------------------
(* tx_fifo as a Fifo of any depth: what fifo.v does whoever drives it.       *)

(* Truncation to the pointer width stays within the slots and is the        *)
(* identity on them.                                                        *)
LEMMA WrapRange ==
    ASSUME NEW n \in 0 .. 2 * DEPTH - 1
    PROVE  /\ TxFifo!Wrap(n) \in TxFifo!Slot
           /\ n \in TxFifo!Slot => TxFifo!Wrap(n) = n
BY DepthAssumption DEF TxFifo!Wrap, TxFifo!Slot

(* Advancing a pointer by two is advancing the advanced pointer by one, and *)
(* advancing always moves it.                                               *)
LEMMA WrapStep ==
    ASSUME NEW p \in TxFifo!Slot
    PROVE  /\ TxFifo!Wrap(p + 1) \in TxFifo!Slot /\ TxFifo!Wrap(p + 2) \in TxFifo!Slot
           /\ TxFifo!Wrap(p + 2) = TxFifo!Wrap(TxFifo!Wrap(p + 1) + 1)
           /\ TxFifo!Wrap(p + 1) # p
BY DepthAssumption DEF TxFifo!Wrap, TxFifo!Slot

LEMMA FirstSlots == /\ 0 \in TxFifo!Slot /\ 1 \in TxFifo!Slot
                    /\ TxFifo!Wrap(0 + 1) = 1
BY DepthAssumption DEF TxFifo!Slot, TxFifo!Wrap

LEMMA RingInit == TxFifo!Init => TxFifo!FifoInv
<1> SUFFICES ASSUME TxFifo!Init PROVE TxFifo!FifoInv
  OBVIOUS
<1>1. TxFifo!TypeOK
  BY FirstSlots, Zenon DEF TxFifo!Init, TxFifo!TypeOK
<1>2. TxFifo!FlagsExact
  BY Zenon DEF TxFifo!Init, TxFifo!FlagsExact
<1>3. TxFifo!AdvancedInStep
  BY FirstSlots, Zenon DEF TxFifo!Init, TxFifo!AdvancedInStep
<1> QED BY <1>1, <1>2, <1>3 DEF TxFifo!FifoInv

(* Every clock cycle preserves the invariant; one step per kind of cycle.   *)
LEMMA RingNext == TxFifo!FifoInv /\ [TxFifo!Next]_TxFifo!vars => TxFifo!FifoInv'
<1> SUFFICES ASSUME TxFifo!FifoInv, [TxFifo!Next]_TxFifo!vars PROVE TxFifo!FifoInv'
  OBVIOUS
<1> USE DepthAssumption DEF TxFifo!FifoInv, TxFifo!TypeOK, TxFifo!FlagsExact, TxFifo!AdvancedInStep
<1>1. CASE TxFifo!Reset
  <2>1. TxFifo!TypeOK'
    BY <1>1, FirstSlots, Zenon DEF TxFifo!Reset
  <2>2. TxFifo!FlagsExact'
    BY <1>1, Zenon DEF TxFifo!Reset
  <2>3. TxFifo!AdvancedInStep'
    BY <1>1, FirstSlots, Zenon DEF TxFifo!Reset
  <2> QED BY <2>1, <2>2, <2>3
<1>2. ASSUME NEW d \in Item, TxFifo!Write(d) PROVE TxFifo!FifoInv'
  <2>1. TxFifo!TypeOK'
    BY <1>2, WrapStep DEF TxFifo!Write, TxFifo!AdvanceWrite, TxFifo!FullAfterWrite
  <2>2. TxFifo!AdvancedInStep'
    BY <1>2, WrapStep DEF TxFifo!Write, TxFifo!AdvanceWrite
  <2>3. TxFifo!FlagsExact'
    BY <1>2, WrapStep DEF TxFifo!Write, TxFifo!AdvanceWrite, TxFifo!FullAfterWrite
  <2> QED BY <2>1, <2>2, <2>3
<1>3. CASE TxFifo!Read
  <2>1. TxFifo!TypeOK'
    BY <1>3, WrapStep DEF TxFifo!Read, TxFifo!AdvanceRead, TxFifo!EmptyAfterRead
  <2>2. TxFifo!AdvancedInStep'
    BY <1>3, WrapStep DEF TxFifo!Read, TxFifo!AdvanceRead
  <2>3. TxFifo!FlagsExact'
    BY <1>3, WrapStep DEF TxFifo!Read, TxFifo!AdvanceRead, TxFifo!EmptyAfterRead
  <2> QED BY <2>1, <2>2, <2>3
<1>4. ASSUME NEW d \in Item, TxFifo!WriteRead(d) PROVE TxFifo!FifoInv'
  <2>1. TxFifo!TypeOK'
    BY <1>4, WrapStep DEF TxFifo!WriteRead, TxFifo!AdvanceWrite, TxFifo!AdvanceRead
  <2>2. TxFifo!AdvancedInStep'
    BY <1>4, WrapStep DEF TxFifo!WriteRead, TxFifo!AdvanceWrite, TxFifo!AdvanceRead
  <2>3. TxFifo!FlagsExact'
    BY <1>4 DEF TxFifo!WriteRead, TxFifo!AdvanceWrite, TxFifo!AdvanceRead, TxFifo!Wrap,
                TxFifo!Slot
  <2> QED BY <2>1, <2>2, <2>3
<1>5. CASE UNCHANGED TxFifo!vars
  BY <1>5 DEF TxFifo!vars, TxFifo!ptrs
<1> QED BY <1>1, <1>2, <1>3, <1>4, <1>5 DEF TxFifo!Next

(* The flags and the registered successors of fifo.v agree with the         *)
(* pointers in every reachable state.                                       *)
THEOREM FifoCorrect == TxFifo!Spec => []TxFifo!FifoInv
BY RingInit, RingNext, PTL DEF TxFifo!Spec

-----------------------------------------------------------------------------
(* The queue that the ring holds: it has Count elements of Item.            *)
LEMMA CountRange ==
    ASSUME TxFifo!FifoInv
    PROVE  /\ TxFifo!Count \in 0 .. DEPTH
           /\ ~full => TxFifo!Count < DEPTH
           /\ ~empty => TxFifo!Count > 0
           /\ empty => TxFifo!Count = 0
BY DepthAssumption DEF TxFifo!FifoInv, TxFifo!TypeOK, TxFifo!FlagsExact, TxFifo!Count,
                       TxFifo!Wrap, TxFifo!Slot

LEMMA ContentsType ==
    ASSUME TxFifo!FifoInv
    PROVE  /\ TxFifo!Contents \in Seq(Item) /\ Len(TxFifo!Contents) = TxFifo!Count
           /\ \A i \in 1 .. TxFifo!Count :
                TxFifo!Contents[i] = buffer[TxFifo!Wrap(read_ptr + i - 1)]
<1>1. TxFifo!Count \in Nat
  BY CountRange, DepthAssumption
<1>2. ASSUME NEW i \in 1 .. TxFifo!Count PROVE buffer[TxFifo!Wrap(read_ptr + i - 1)] \in Item
  <2>1. TxFifo!Wrap(read_ptr + i - 1) \in TxFifo!Slot
    BY CountRange, DepthAssumption DEF TxFifo!FifoInv, TxFifo!TypeOK, TxFifo!Slot, TxFifo!Wrap
  <2> QED BY <2>1 DEF TxFifo!FifoInv, TxFifo!TypeOK
<1>3. TxFifo!Contents \in [1 .. TxFifo!Count -> Item]
  BY <1>2 DEF TxFifo!Contents
<1> QED BY <1>1, <1>3, LenProperties DEF TxFifo!Contents

(* The slot of the i-th element: no element lies in the slot that is        *)
(* written next unless the ring is full, and a new element is the last.     *)
LEMMA WriteSlot ==
    ASSUME TxFifo!FifoInv
    PROVE  /\ TxFifo!Wrap(read_ptr + TxFifo!Count) = write_ptr
           /\ ~full => \A i \in 1 .. TxFifo!Count : TxFifo!Wrap(read_ptr + i - 1) # write_ptr
           /\ \A i \in 2 .. TxFifo!Count : TxFifo!Wrap(read_ptr + i - 1) # read_ptr
BY DepthAssumption DEF TxFifo!FifoInv, TxFifo!TypeOK, TxFifo!FlagsExact, TxFifo!Count,
                       TxFifo!Wrap, TxFifo!Slot

(* What the refinement needs of a state, and of the state after a step.     *)
IsQueue == /\ TxFifo!Contents \in Seq(Item) /\ Len(TxFifo!Contents) = TxFifo!Count
           /\ TxFifo!Count \in 0 .. DEPTH
           /\ \A i \in 1 .. TxFifo!Count :
                TxFifo!Contents[i] = buffer[TxFifo!Wrap(read_ptr + i - 1)]

LEMMA InvIsQueue == TxFifo!FifoInv => IsQueue
BY CountRange, ContentsType DEF IsQueue

LEMMA InvIsQueueNext == TxFifo!FifoInv' => IsQueue'
BY InvIsQueue, PTL

(* A write appends its element and a read takes the oldest away.            *)
LEMMA WriteAppends ==
    ASSUME TxFifo!FifoInv, TxFifo!FifoInv', NEW d \in Item, TxFifo!Write(d)
    PROVE  TxFifo!Contents' = Append(TxFifo!Contents, d) /\ Len(TxFifo!Contents) < DEPTH
<1> IsQueue /\ IsQueue'
  BY InvIsQueue, InvIsQueueNext
<1>1. TxFifo!Count' = TxFifo!Count + 1 /\ TxFifo!Count < DEPTH
  BY DepthAssumption DEF TxFifo!FifoInv, TxFifo!TypeOK, TxFifo!FlagsExact,
                         TxFifo!AdvancedInStep, TxFifo!Write, TxFifo!AdvanceWrite,
                         TxFifo!FullAfterWrite, TxFifo!Count, TxFifo!Wrap, TxFifo!Slot
<1>2. ASSUME NEW i \in 1 .. TxFifo!Count' PROVE TxFifo!Contents'[i] = Append(TxFifo!Contents, d)[i]
  <2>1. TxFifo!Contents'[i] = buffer'[TxFifo!Wrap(read_ptr + i - 1)]
    BY DEF IsQueue, TxFifo!Write
  <2>2. CASE i = TxFifo!Count + 1
    <3>1. TxFifo!Wrap(read_ptr + i - 1) = write_ptr
      <4>1. read_ptr + i - 1 = read_ptr + TxFifo!Count
        BY <2>2, DepthAssumption DEF TxFifo!FifoInv, TxFifo!TypeOK, TxFifo!Slot, IsQueue
      <4> QED BY <4>1, WriteSlot
    <3>2. buffer'[write_ptr] = d
      BY DEF TxFifo!Write, TxFifo!AdvanceWrite, TxFifo!FifoInv, TxFifo!TypeOK
    <3> QED BY <2>1, <2>2, <3>1, <3>2, AppendProperties DEF IsQueue
  <2>3. CASE i \in 1 .. TxFifo!Count
    <3>1. TxFifo!Wrap(read_ptr + i - 1) # write_ptr
      BY <2>3, WriteSlot DEF TxFifo!Write
    <3>2. TxFifo!Wrap(read_ptr + i - 1) \in TxFifo!Slot
      BY <2>3, DepthAssumption DEF TxFifo!FifoInv, TxFifo!TypeOK, TxFifo!Slot, IsQueue,
                                   TxFifo!Wrap
    <3>3. TxFifo!Contents'[i] = buffer[TxFifo!Wrap(read_ptr + i - 1)]
      BY <2>1, <3>1, <3>2 DEF TxFifo!Write, TxFifo!AdvanceWrite, TxFifo!FifoInv, TxFifo!TypeOK
    <3> QED BY <2>3, <3>3, AppendProperties DEF IsQueue
  <2> QED BY <1>1, <2>2, <2>3, DepthAssumption DEF IsQueue
<1>3. /\ Append(TxFifo!Contents, d) \in Seq(Item)
      /\ Len(Append(TxFifo!Contents, d)) = TxFifo!Count'
  BY <1>1, AppendProperties DEF IsQueue
<1> HIDE DEF TxFifo!Contents, TxFifo!Count
<1> QED BY <1>1, <1>2, <1>3, SeqEqual DEF IsQueue

LEMMA ReadTakes ==
    ASSUME TxFifo!FifoInv, TxFifo!FifoInv', TxFifo!Read
    PROVE  /\ TxFifo!Contents # <<>>
           /\ TxFifo!Contents' = Tail(TxFifo!Contents) /\ out' = Head(TxFifo!Contents)
<1> IsQueue /\ IsQueue'
  BY InvIsQueue, InvIsQueueNext
<1>1. TxFifo!Count' = TxFifo!Count - 1 /\ TxFifo!Count > 0
  BY DepthAssumption DEF TxFifo!FifoInv, TxFifo!TypeOK, TxFifo!FlagsExact,
                         TxFifo!AdvancedInStep, TxFifo!Read, TxFifo!AdvanceRead,
                         TxFifo!EmptyAfterRead, TxFifo!Count, TxFifo!Wrap, TxFifo!Slot
<1>2. TxFifo!Contents # <<>>
  BY <1>1, EmptySeq DEF IsQueue
<1>3. Head(TxFifo!Contents) = out'
  <2>1. Head(TxFifo!Contents) = TxFifo!Contents[1]
    BY <1>2, HeadTailProperties DEF IsQueue
  <2>2. TxFifo!Contents[1] = buffer[TxFifo!Wrap(read_ptr)]
    <3>1. 1 \in 1 .. TxFifo!Count /\ read_ptr + 1 - 1 = read_ptr
      BY <1>1, DepthAssumption DEF IsQueue, TxFifo!FifoInv, TxFifo!TypeOK, TxFifo!Slot
    <3> QED BY <3>1 DEF IsQueue
  <2>3. TxFifo!Wrap(read_ptr) = read_ptr
    BY DepthAssumption DEF TxFifo!FifoInv, TxFifo!TypeOK, TxFifo!Slot, TxFifo!Wrap
  <2> QED BY <2>1, <2>2, <2>3 DEF TxFifo!Read, TxFifo!AdvanceRead
<1>4. /\ Tail(TxFifo!Contents) \in Seq(Item)
      /\ Len(Tail(TxFifo!Contents)) = TxFifo!Count'
      /\ \A i \in 1 .. TxFifo!Count' : Tail(TxFifo!Contents)[i] = TxFifo!Contents[i + 1]
  BY <1>1, <1>2, HeadTailProperties DEF IsQueue
<1>5. ASSUME NEW i \in 1 .. TxFifo!Count' PROVE TxFifo!Contents'[i] = Tail(TxFifo!Contents)[i]
  <2>1. TxFifo!Contents'[i] = buffer[TxFifo!Wrap(read_ptr' + i - 1)]
    BY DEF IsQueue, TxFifo!Read
  <2>2. TxFifo!Contents[i + 1] = buffer[TxFifo!Wrap(read_ptr + i)]
    <3>1. i + 1 \in 1 .. TxFifo!Count /\ read_ptr + (i + 1) - 1 = read_ptr + i
      BY <1>1 DEF IsQueue, TxFifo!FifoInv, TxFifo!TypeOK, TxFifo!Slot
    <3> QED BY <3>1 DEF IsQueue
  <2>3. TxFifo!Wrap(read_ptr' + i - 1) = TxFifo!Wrap(read_ptr + i)
    BY <1>1, DepthAssumption DEF TxFifo!Read, TxFifo!AdvanceRead, TxFifo!FifoInv, TxFifo!TypeOK,
                                 TxFifo!Slot, TxFifo!Wrap, IsQueue
  <2> QED BY <1>4, <2>1, <2>2, <2>3
<1> QED BY <1>2, <1>3, <1>4, <1>5, SeqEqual DEF IsQueue

(* Both at once, at any fill level but empty; in a full ring the new        *)
(* element takes the slot of the one that leaves.                           *)
LEMMA WriteReadShifts ==
    ASSUME TxFifo!FifoInv, TxFifo!FifoInv', NEW d \in Item, TxFifo!WriteRead(d)
    PROVE  /\ TxFifo!Contents # <<>>
           /\ TxFifo!Contents' = Append(Tail(TxFifo!Contents), d) /\ out' = Head(TxFifo!Contents)
<1> IsQueue /\ IsQueue'
  BY InvIsQueue, InvIsQueueNext
<1>1. TxFifo!Count' = TxFifo!Count /\ TxFifo!Count > 0
  BY DepthAssumption DEF TxFifo!FifoInv, TxFifo!TypeOK, TxFifo!FlagsExact,
                         TxFifo!AdvancedInStep, TxFifo!WriteRead, TxFifo!AdvanceRead,
                         TxFifo!AdvanceWrite, TxFifo!Count, TxFifo!Wrap, TxFifo!Slot
<1>2. TxFifo!Contents # <<>>
  BY <1>1, EmptySeq DEF IsQueue
<1>3. Head(TxFifo!Contents) = out'
  <2>1. Head(TxFifo!Contents) = TxFifo!Contents[1]
    BY <1>2, HeadTailProperties DEF IsQueue
  <2>2. TxFifo!Contents[1] = buffer[TxFifo!Wrap(read_ptr)]
    <3>1. 1 \in 1 .. TxFifo!Count /\ read_ptr + 1 - 1 = read_ptr
      BY <1>1, DepthAssumption DEF IsQueue, TxFifo!FifoInv, TxFifo!TypeOK, TxFifo!Slot
    <3> QED BY <3>1 DEF IsQueue
  <2>3. TxFifo!Wrap(read_ptr) = read_ptr
    BY DepthAssumption DEF TxFifo!FifoInv, TxFifo!TypeOK, TxFifo!Slot, TxFifo!Wrap
  <2> QED BY <2>1, <2>2, <2>3 DEF TxFifo!WriteRead, TxFifo!AdvanceRead
<1>4. /\ Tail(TxFifo!Contents) \in Seq(Item)
      /\ Len(Tail(TxFifo!Contents)) = TxFifo!Count - 1
      /\ \A i \in 1 .. TxFifo!Count - 1 : Tail(TxFifo!Contents)[i] = TxFifo!Contents[i + 1]
  BY <1>1, <1>2, HeadTailProperties DEF IsQueue
<1>5. /\ Append(Tail(TxFifo!Contents), d) \in Seq(Item)
      /\ Len(Append(Tail(TxFifo!Contents), d)) = TxFifo!Count
      /\ Append(Tail(TxFifo!Contents), d)[TxFifo!Count] = d
      /\ \A i \in 1 .. TxFifo!Count - 1 :
           Append(Tail(TxFifo!Contents), d)[i] = TxFifo!Contents[i + 1]
  BY <1>1, <1>4, AppendProperties DEF IsQueue
<1>6. ASSUME NEW i \in 1 .. TxFifo!Count
      PROVE  TxFifo!Contents'[i] = Append(Tail(TxFifo!Contents), d)[i]
  <2>1. TxFifo!Contents'[i] = buffer'[TxFifo!Wrap(read_ptr' + i - 1)]
    BY <1>1 DEF IsQueue
  <2>2. TxFifo!Wrap(read_ptr' + i - 1) = TxFifo!Wrap(read_ptr + i)
    BY DepthAssumption DEF TxFifo!WriteRead, TxFifo!AdvanceRead, TxFifo!FifoInv, TxFifo!TypeOK,
                           TxFifo!Slot, TxFifo!Wrap, IsQueue
  <2>3. CASE i = TxFifo!Count
    <3>1. TxFifo!Wrap(read_ptr + i) = write_ptr
      BY <2>3, WriteSlot
    <3>2. buffer'[write_ptr] = d
      BY DEF TxFifo!WriteRead, TxFifo!AdvanceWrite, TxFifo!FifoInv, TxFifo!TypeOK
    <3> QED BY <1>5, <2>1, <2>2, <2>3, <3>1, <3>2
  <2>4. CASE i \in 1 .. TxFifo!Count - 1
    <3>1. /\ i + 1 \in 2 .. TxFifo!Count /\ i + 1 \in 1 .. TxFifo!Count
          /\ read_ptr + (i + 1) - 1 = read_ptr + i
      BY <2>4, DepthAssumption DEF IsQueue, TxFifo!FifoInv, TxFifo!TypeOK, TxFifo!Slot
    <3>2. TxFifo!Contents[i + 1] = buffer[TxFifo!Wrap(read_ptr + i)]
      BY <3>1 DEF IsQueue
    <3>3. TxFifo!Wrap(read_ptr + i) # write_ptr
      BY <3>1, WriteSlot DEF TxFifo!FifoInv, TxFifo!FlagsExact, TxFifo!WriteRead
    <3>4. TxFifo!Wrap(read_ptr + i) \in TxFifo!Slot
      BY <2>4, DepthAssumption DEF TxFifo!FifoInv, TxFifo!TypeOK, TxFifo!Slot, IsQueue,
                                   TxFifo!Wrap
    <3>5. buffer'[TxFifo!Wrap(read_ptr + i)] = buffer[TxFifo!Wrap(read_ptr + i)]
      BY <3>3, <3>4 DEF TxFifo!WriteRead, TxFifo!AdvanceWrite, TxFifo!FifoInv, TxFifo!TypeOK
    <3> QED BY <1>5, <2>1, <2>2, <2>4, <3>2, <3>5
  <2> QED BY <1>1, <2>3, <2>4, DepthAssumption DEF IsQueue
<1> QED BY <1>1, <1>2, <1>3, <1>5, <1>6, SeqEqual DEF IsQueue

LEMMA EmptyRing ==
    ASSUME TxFifo!FifoInv, empty
    PROVE  TxFifo!Contents = <<>>
<1>1. IsQueue /\ TxFifo!Count = 0
  BY InvIsQueue, CountRange
<1> QED BY <1>1, EmptySeq DEF IsQueue

LEMMA EmptyRingNext == TxFifo!FifoInv' /\ empty' => (TxFifo!Contents = <<>>)'
BY EmptyRing, PTL

(* The ring of fifo.v, its two pointers and its two flags together, is the  *)
(* bounded queue of ByteQueue, for every depth and every range of data.     *)
THEOREM FifoIsQueue == TxFifo!Spec => TxFifo!ImplementsQueue
<1>1. TxFifo!Init => TxFifo!Queue!QInit
  <2> SUFFICES ASSUME TxFifo!Init PROVE TxFifo!Queue!QInit
    OBVIOUS
  <2>1. TxFifo!Contents = <<>>
    BY RingInit, EmptyRing DEF TxFifo!Init
  <2> QED BY <2>1 DEF TxFifo!Queue!QInit, TxFifo!Init
<1>2. TxFifo!FifoInv /\ TxFifo!FifoInv' /\ [TxFifo!Next]_TxFifo!vars
        => [TxFifo!Queue!QNext]_<<TxFifo!Contents, out>>
  <2> SUFFICES ASSUME TxFifo!FifoInv, TxFifo!FifoInv', [TxFifo!Next]_TxFifo!vars
               PROVE  TxFifo!Queue!QNext \/ UNCHANGED <<TxFifo!Contents, out>>
    OBVIOUS
  <2>1. CASE TxFifo!Reset
    <3>1. TxFifo!Contents' = <<>>
      BY <2>1, EmptyRingNext DEF TxFifo!Reset
    <3> QED BY <2>1, <3>1 DEF TxFifo!Reset, TxFifo!Queue!QNext, TxFifo!Queue!QReset
  <2>2. ASSUME NEW d \in Item, TxFifo!Write(d) PROVE TxFifo!Queue!QNext
    BY <2>2, WriteAppends DEF TxFifo!Write, TxFifo!Queue!QNext, TxFifo!Queue!QWrite
  <2>3. CASE TxFifo!Read
    BY <2>3, ReadTakes DEF TxFifo!Queue!QNext, TxFifo!Queue!QRead
  <2>4. ASSUME NEW d \in Item, TxFifo!WriteRead(d) PROVE TxFifo!Queue!QNext
    BY <2>4, WriteReadShifts DEF TxFifo!Queue!QNext, TxFifo!Queue!QWriteRead
  <2>5. CASE UNCHANGED TxFifo!vars
    BY <2>5 DEF TxFifo!vars, TxFifo!ptrs, TxFifo!Contents, TxFifo!Count
  <2> QED BY <2>1, <2>2, <2>3, <2>4, <2>5 DEF TxFifo!Next
<1> QED BY <1>1, <1>2, FifoCorrect, PTL DEF TxFifo!Spec, TxFifo!ImplementsQueue,
                                            TxFifo!Queue!QSpec

-----------------------------------------------------------------------------
(* What a cycle does to tx_fifo is a step of the FIFO or leaves it alone.    *)
LEMMA CycleIsFifo ==
    ASSUME FifoCycle, tx_fifo_input \in Item
    PROVE  [TxFifo!Next]_TxFifo!vars
BY DEF FifoCycle, TxFifo!Next, TxFifo!vars, TxFifo!ptrs, tx_fifo

(* The FIFO's steps keep the types of its registers.                        *)
LEMMA FifoType == TxFifo!TypeOK /\ [TxFifo!Next]_TxFifo!vars => TxFifo!TypeOK'
<1> SUFFICES ASSUME TxFifo!TypeOK, [TxFifo!Next]_TxFifo!vars PROVE TxFifo!TypeOK'
  OBVIOUS
<1> USE DEF TxFifo!TypeOK
<1>1. CASE TxFifo!Reset
  <2>1. 0 \in TxFifo!Slot /\ 1 \in TxFifo!Slot
    BY DepthAssumption DEF TxFifo!Slot
  <2> QED BY <1>1, <2>1, Zenon DEF TxFifo!Reset
<1>2. ASSUME NEW d \in Item, TxFifo!Write(d) PROVE TxFifo!TypeOK'
  BY <1>2, WrapStep DEF TxFifo!Write, TxFifo!AdvanceWrite, TxFifo!FullAfterWrite
<1>3. CASE TxFifo!Read
  BY <1>3, WrapStep DEF TxFifo!Read, TxFifo!AdvanceRead, TxFifo!EmptyAfterRead
<1>4. ASSUME NEW d \in Item, TxFifo!WriteRead(d) PROVE TxFifo!TypeOK'
  BY <1>4, WrapStep DEF TxFifo!WriteRead, TxFifo!AdvanceWrite, TxFifo!AdvanceRead
<1>5. CASE UNCHANGED TxFifo!vars
  BY <1>5 DEF TxFifo!vars, TxFifo!ptrs
<1> QED BY <1>1, <1>2, <1>3, <1>4, <1>5 DEF TxFifo!Next

(* Without a write the FIFO does not become full.                           *)
LEMMA StaysNotFull ==
    ASSUME FifoCycle, ~full, ~tx_fifo_wr_en
    PROVE  ~full'
<1>1. CASE ReadEnable
  BY <1>1 DEF FifoCycle, TxFifo!Read
<1>2. CASE ~ReadEnable
  BY <1>2 DEF FifoCycle, tx_fifo
<1> QED BY <1>1, <1>2

-----------------------------------------------------------------------------
LEMMA InitIInv == Init => IInv
<1> SUFFICES ASSUME Init PROVE IInv
  OBVIOUS
<1> USE DEF Init
<1>1. TypeOK
  BY ZeroCounts, Zenon DEF TypeOK, NoItem
<1>2. TxFifo!TypeOK
  <2>1. 0 \in TxFifo!Slot /\ 1 \in TxFifo!Slot
    BY DepthAssumption DEF TxFifo!Slot
  <2>2. buffer \in [TxFifo!Slot -> Item] /\ out \in Item
    BY ZeroCounts DEF TxFifo!Slot, NoItem
  <2> QED BY <2>1, <2>2, Zenon DEF TxFifo!TypeOK, TxFifo!Init
<1>3. Fresh /\ Aligned /\ Offered /\ Counted
  BY ZeroCounts DEF Fresh, Aligned, Offered, Counted, Pending
<1>4. Taking /\ Writing
  BY DEF Taking, Writing
<1> QED BY <1>1, <1>2, <1>3, <1>4 DEF IInv

(* A cycle of the clock.                                                    *)
LEMMA CycleIInv ==
    ASSUME IInv, NEW in \in Bit \cup {None}, NEW over \in BOOLEAN, Cycle(in, over)
    PROVE  IInv'
<1> USE ByteAssumption, MaxAssumption DEF IInv, Bit, None
<1>t. tl_byte_ctr \in 0 .. BYTE - 1 /\ taken \in Nat /\ accepted \in Nat
  BY DEF TypeOK
<1>d. /\ taken \div BYTE \in Nat /\ taken \div BYTE <= taken
      /\ (taken + 1) % BYTE = IF tl_byte_ctr = BYTE - 1 THEN 0 ELSE tl_byte_ctr + 1
      /\ (taken + 1) \div BYTE = IF tl_byte_ctr = BYTE - 1 THEN taken \div BYTE + 1
                                  ELSE taken \div BYTE
  BY <1>t, DivStep, DivRange DEF Aligned
(* The chip gives a bit: its place, and the end of the byte.                *)
<1>b. ASSUME in # None
      PROVE  /\ ~edge_was /\ taken' = taken + 1 /\ edge_was' = TRUE
             /\ state' = "RECEIVING"
             /\ tl_byte_ctr' = IF tl_byte_ctr = BYTE - 1 THEN 0 ELSE tl_byte_ctr + 1
             /\ tl_rx_valid' \in BOOLEAN
             /\ tl_rx_valid' => state = "RECEIVING" /\ tl_byte_ctr = BYTE - 1
             /\ state = "RECEIVING" /\ tl_byte_ctr = BYTE - 1 => tl_byte_ctr' = 0
  <2>1. ~edge_was /\ taken' = taken + 1 /\ edge_was' = TRUE
    BY <1>b DEF Cycle
  <2>2. CASE ReceiveFirst(in)
    <3>1. state = "IDLE" /\ tl_byte_ctr = 0
      BY <2>2 DEF ReceiveFirst, Fresh
    <3>2. state' = "RECEIVING" /\ tl_byte_ctr' = 1 /\ tl_rx_valid' = FALSE
      BY <2>2, <1>b DEF ReceiveFirst
    <3>3. tl_byte_ctr' = IF tl_byte_ctr = BYTE - 1 THEN 0 ELSE tl_byte_ctr + 1
      BY <3>1, <3>2
    <3> QED BY <2>1, <3>1, <3>2, <3>3, Zenon
  <2>3. CASE ReceiveNext(in)
    BY <2>1, <2>3, <1>b, <1>t DEF ReceiveNext, NextCtr, LastBit
  <2> QED BY <2>2, <2>3 DEF Cycle
<1>n. ASSUME in = None
      PROVE  /\ taken' = taken /\ edge_was' = FALSE /\ chip_byte' = chip_byte
             /\ state' = state /\ tl_byte_ctr' = tl_byte_ctr
             /\ tl_rx_valid' = FALSE
             /\ state = "RECEIVING" => tl_rx_byte' = tl_rx_byte
  BY <1>n DEF Cycle, ReceiveFirst, ReceiveNext, Fresh
(* The controller.                                                          *)
<1>c. /\ tl_rx_ready' = ~full /\ tx_fifo_wr_en' = (tl_rx_valid /\ tl_rx_ready)
      /\ accepted' = accepted + Pending
      /\ tl_rx_valid /\ tl_rx_ready => tx_fifo_input' = accepted + 1
      /\ ~(tl_rx_valid /\ tl_rx_ready) => tx_fifo_input' = tx_fifo_input
  BY <1>t DEF Cycle, Control, RxReady, Pending
<1>f. FifoCycle /\ [TxFifo!Next]_TxFifo!vars /\ TxFifo!TypeOK'
  BY CycleIsFifo, FifoType DEF Cycle, TypeOK
<1>1. TypeOK'
  <2>1. taken' \in 0 .. MaxBits /\ edge_was' \in BOOLEAN
    BY <1>b, <1>n, <1>t DEF Cycle, TypeOK
  <2>2. /\ state' \in {"IDLE", "RECEIVING"} /\ tl_byte_ctr' \in 0 .. BYTE - 1
        /\ tl_rx_valid' \in BOOLEAN
    <3>1. CASE in # None
      BY <3>1, <1>b, <1>t
    <3>2. CASE in = None
      BY <3>2, <1>n, <1>t DEF TypeOK
    <3> QED BY <3>1, <3>2
  <2>3. tl_rx_byte' \in Byte /\ chip_byte' \in Byte
    <3>1. tl_byte_ctr \in 0 .. BYTE - 1 /\ taken % BYTE \in 0 .. BYTE - 1
      BY <1>t DEF Aligned
    <3> QED BY <3>1, ZeroCounts DEF Cycle, ReceiveFirst, ReceiveNext, TypeOK, Byte
  <2>4. accepted' \in 0 .. MaxBits /\ tx_fifo_input' \in Item
    BY <1>c, <1>d, <1>t DEF TypeOK, Counted, Pending, Item
  <2>5. tl_rx_ready' \in BOOLEAN /\ tx_fifo_wr_en' \in BOOLEAN
    BY <1>c, Zenon DEF TypeOK
  <2>6. Dout \in Item
    BY ZeroCounts DEF Dout, NoItem, TxFifo!TypeOK
  <2>7. uart_tx_data_in_valid' \in BOOLEAN
    BY Zenon DEF Cycle, ReadEnable, TypeOK, TxFifo!TypeOK
  <2>8. /\ transmit_phase' \in BOOLEAN /\ data_in_ready' \in BOOLEAN
        /\ tx_buffer' \in Item /\ echo' \in Seq(0 .. MaxBits)
    <3>1. Append(echo, Dout) \in Seq(0 .. MaxBits)
      BY <2>6 DEF TypeOK, Item
    <3>2. CASE UartStart
      BY <2>6, <3>1, <3>2, Zenon DEF Cycle, UartCycle, UartStart
    <3>3. CASE ~UartStart /\ transmit_phase /\ over
      BY <3>3, ZeroCounts, Zenon DEF Cycle, UartCycle, ReadyAfterStop, TypeOK, NoItem
    <3>4. CASE ~UartStart /\ ~(transmit_phase /\ over)
      BY <3>4, Zenon DEF Cycle, UartCycle, uart, TypeOK
    <3> QED BY <3>2, <3>3, <3>4
  <2> QED BY <2>1, <2>2, <2>3, <2>4, <2>5, <2>7, <2>8 DEF TypeOK
<1>2. Fresh'
  BY <1>b, <1>n DEF Fresh
<1>3. Aligned'
  <2>1. CASE in = None
    BY <2>1, <1>n DEF Aligned
  <2>2. CASE in # None
    <3>1. tl_byte_ctr' = taken' % BYTE /\ taken' > 0
      BY <2>2, <1>b, <1>d, <1>t
    <3>2. ASSUME NEW i \in 0 .. BYTE - 1, chip_byte'[i] = 1 PROVE tl_rx_byte'[i] = 1
      <4>1. taken % BYTE = tl_byte_ctr
        BY DEF Aligned
      <4>2. CASE i = tl_byte_ctr
        BY <2>2, <3>2, <4>1, <4>2, <1>t DEF Cycle, ReceiveFirst, ReceiveNext, TypeOK, Byte,
                                            Zero, Fresh
      <4>3. CASE i # tl_byte_ctr
        BY <2>2, <3>2, <4>1, <4>3, <1>t DEF Cycle, ReceiveFirst, ReceiveNext, TypeOK, Byte,
                                            Zero, Fresh, Aligned
      <4> QED BY <4>2, <4>3
    <3> QED BY <3>1, <3>2 DEF Aligned
  <2> QED BY <2>1, <2>2
<1>4. Offered'
  BY <1>b, <1>n, <1>t DEF Offered
<1>5. Taking'
  <2> SUFFICES ASSUME tl_rx_valid', tl_rx_ready'
               PROVE  state' = "RECEIVING" /\ ~full' /\ ~tx_fifo_wr_en'
    BY DEF Taking
  <2>1. in # None /\ state = "RECEIVING" /\ tl_byte_ctr = BYTE - 1
    BY <1>b, <1>n
  <2>2. ~(tl_rx_valid /\ tl_rx_ready)
    BY <2>1, <1>b DEF Offered
  <2>3. ~full /\ ~tx_fifo_wr_en
    <3>1. ~full
      BY <1>c, Zenon
    <3> QED BY <2>1, <3>1 DEF Writing
  <2> QED BY <2>1, <2>2, <2>3, <1>b, <1>c, <1>f, StaysNotFull
<1>6. Writing'
  <2> SUFFICES ASSUME tx_fifo_wr_en'
               PROVE  ~tl_rx_valid' /\ tl_byte_ctr' = 0 /\ ~edge_was' /\ ~full'
    BY DEF Writing
  <2>1. tl_rx_valid /\ tl_rx_ready
    BY <1>c
  <2>2. edge_was /\ tl_byte_ctr = 0 /\ ~full /\ ~tx_fifo_wr_en
    BY <2>1 DEF Taking, Offered
  <2> QED BY <2>2, <1>b, <1>n, <1>f, StaysNotFull
<1>7. Counted'
  <2>1. accepted' <= taken \div BYTE
    BY <1>c DEF Counted
  <2>2. Pending' \in {0, 1}
    BY DEF Pending
  <2>3. CASE tl_rx_valid'
    <3>1. in # None /\ tl_byte_ctr = BYTE - 1
      BY <2>3, <1>b, <1>n
    <3>2. taken' \div BYTE = taken \div BYTE + 1
      BY <3>1, <1>b, <1>d
    <3> QED BY <2>1, <2>2, <3>2, <1>c, <1>d, <1>t DEF Counted, Pending
  <2>4. CASE ~tl_rx_valid'
    <3>1. taken' \div BYTE \in Nat /\ taken' \div BYTE >= taken \div BYTE
      <4>1. CASE in # None
        BY <4>1, <1>b, <1>d, <1>t
      <4>2. CASE in = None
        BY <4>2, <1>n, <1>d
      <4> QED BY <4>1, <4>2
    <3>2. Pending' = 0
      BY <2>4 DEF Pending
    <3>3. accepted' \in Nat
      BY <1>c, <1>t DEF Pending
    <3> QED BY <2>1, <3>1, <3>2, <3>3, <1>d DEF Counted
  <2> QED BY <2>3, <2>4
<1> QED BY <1>f, <1>1, <1>2, <1>3, <1>4, <1>5, <1>6, <1>7

(* A cycle of the reset.                                                    *)
LEMMA ResetIInv == IInv /\ Reset => IInv'
<1> SUFFICES ASSUME IInv, Reset PROVE IInv'
  OBVIOUS
<1> USE DEF IInv, Reset
<1>f. TxFifo!TypeOK'
  BY FifoType DEF TxFifo!Next
<1>1. TypeOK'
  <2>1. uart_tx_data_in_valid' \in BOOLEAN
    BY Zenon DEF ReadEnable, TypeOK, TxFifo!TypeOK
  <2> QED BY <2>1, ZeroCounts, Zenon DEF TypeOK, NoItem, ReadyInReset
<1>2. Fresh' /\ Aligned' /\ Offered' /\ Counted'
  BY ZeroCounts DEF Fresh, Aligned, Offered, Counted, Pending, ReadyInReset
<1>3. Taking' /\ Writing'
  BY DEF Taking, Writing, ReadyInReset
<1> QED BY <1>f, <1>1, <1>2, <1>3

LEMMA NextIInv == IInv /\ [Next]_vars => IInv'
<1> SUFFICES ASSUME IInv, [Next]_vars PROVE IInv'
  OBVIOUS
<1>1. CASE Next
  BY <1>1, CycleIInv, ResetIInv DEF Next
<1>2. CASE UNCHANGED vars
  BY <1>2 DEF vars, receiver, controller, tx_fifo, uart, IInv, TypeOK, TxFifo!TypeOK, Fresh,
              Aligned, Offered, Taking, Writing, Counted, Pending
<1> QED BY <1>1, <1>2

LEMMA InvInductive == Spec => []IInv
<1>1. IInv /\ [Next]_vars => IInv'
  BY NextIInv
<1> QED BY <1>1, InitIInv, PTL DEF Spec

-----------------------------------------------------------------------------
(* The registers keep their widths.                                         *)
THEOREM TypeCorrect == Spec => []TypeOK
<1>1. IInv => TypeOK
  BY DEF IInv
<1> QED BY <1>1, InvInductive, PTL

(* adapter_controller.v never writes to a full tx_fifo, for any width of a   *)
(* byte and any depth: its ready signal may be old without harm.            *)
THEOREM NeverOverrun == Spec => []AcceptedFits
<1>1. IInv => AcceptedFits
  BY DEF IInv, Writing, AcceptedFits
<1> QED BY <1>1, InvInductive, PTL

(* tl_receiver.v offers a byte only when its last bit is in, with at         *)
(* least the ones that the chip sent.                                       *)
THEOREM FramesCorrect == Spec => []BytesFramed
<1>1. IInv => BytesFramed
  BY DEF IInv, Aligned, Offered, BytesFramed
<1> QED BY <1>1, InvInductive, PTL

(* A reset of one cycle is enough, though tl_rx_valid has no reset value:    *)
(* no byte of before it is taken.                                           *)
THEOREM ResetForgets == Spec => []NothingFromBeforeReset
<1>1. IInv => NothingFromBeforeReset
  <2> SUFFICES ASSUME IInv PROVE accepted <= taken \div BYTE
    BY DEF NothingFromBeforeReset
  <2>1. taken \div BYTE \in Nat /\ accepted \in Nat
    BY DivRange, ByteAssumption, MaxAssumption DEF IInv, TypeOK
  <2> QED BY <2>1 DEF IInv, Counted, Pending
<1> QED BY <1>1, InvInductive, PTL

(* What the adapter does to tx_fifo is a behaviour of Fifo, so that what was *)
(* shown of every behaviour of Fifo holds of it: it is a queue.             *)
THEOREM UsesFifo == Spec => TxFifo!Spec
<1>1. Init => TxFifo!Init
  BY DEF Init
<1>2. IInv /\ [Next]_vars => [TxFifo!Next]_TxFifo!vars
  <2> SUFFICES ASSUME IInv, [Next]_vars PROVE [TxFifo!Next]_TxFifo!vars
    OBVIOUS
  <2>1. ASSUME NEW in \in Bit \cup {None}, NEW over \in BOOLEAN, Cycle(in, over)
        PROVE  [TxFifo!Next]_TxFifo!vars
    BY <2>1, CycleIsFifo DEF Cycle, IInv, TypeOK
  <2>2. CASE Reset
    BY <2>2 DEF Reset, TxFifo!Next
  <2>3. CASE UNCHANGED vars
    BY <2>3 DEF vars, tx_fifo, TxFifo!vars, TxFifo!ptrs
  <2> QED BY <2>1, <2>2, <2>3 DEF Next
<1> QED BY <1>1, <1>2, InvInductive, PTL DEF Spec, TxFifo!Spec
-----------------------------------------------------------------------------
(* The ring holds the numbers of the last bytes that were written, in their  *)
(* order: all those written so far but the ones popped before.              *)
Written == IF tx_fifo_wr_en THEN accepted - 1 ELSE accepted
Popped  == Written - Len(TxFifo!Contents)

Run(q, p) == \A i \in 1 .. Len(q) : q[i] = p + i

Numbered ==
    /\ tx_fifo_wr_en => tx_fifo_input = accepted /\ accepted > 0
    /\ Popped \in Nat
    /\ Run(TxFifo!Contents, Popped)

(* A frame carries nothing that is still in the ring.                       *)
Echoed == \A i \in 1 .. Len(echo) : echo[i] <= Popped

OrderInv == TxFifo!FifoInv /\ Numbered /\ Echoed /\ NoByteTwice

(* What a cycle does to the contents, and what the UART would take then.     *)
LEMMA CycleContents ==
    ASSUME IInv, TxFifo!FifoInv, TxFifo!FifoInv', FifoCycle
    PROVE  /\ TxFifo!Contents \in Seq(Item) /\ TxFifo!Contents' \in Seq(Item)
           /\ ReadEnable => TxFifo!Contents # <<>> /\ Dout = Head(TxFifo!Contents)
           /\ TxFifo!Contents' =
                LET kept == IF ReadEnable THEN Tail(TxFifo!Contents) ELSE TxFifo!Contents
                IN  IF tx_fifo_wr_en THEN Append(kept, tx_fifo_input) ELSE kept
<1>0. TxFifo!Contents \in Seq(Item) /\ TxFifo!Contents' \in Seq(Item)
  BY InvIsQueue, InvIsQueueNext, DepthAssumption DEF IsQueue
<1>1. tx_fifo_input \in Item /\ (tx_fifo_wr_en => ~full)
  BY DEF IInv, TypeOK, Writing
<1>2. CASE tx_fifo_wr_en /\ ReadEnable
  <2>1. TxFifo!WriteRead(tx_fifo_input) /\ out' = buffer[read_ptr]
    BY <1>2 DEF FifoCycle, TxFifo!WriteRead, TxFifo!AdvanceWrite, TxFifo!AdvanceRead,
                TxFifo!Wrap
  <2> QED BY <1>0, <1>1, <1>2, <2>1, WriteReadShifts, DepthAssumption DEF Dout
<1>3. CASE tx_fifo_wr_en /\ ~ReadEnable
  <2>1. TxFifo!Write(tx_fifo_input)
    BY <1>1, <1>3 DEF FifoCycle, TxFifo!Write, TxFifo!AdvanceWrite, TxFifo!FullAfterWrite,
                      TxFifo!Wrap
  <2> QED BY <1>0, <1>1, <1>3, <2>1, WriteAppends, DepthAssumption
<1>4. CASE ~tx_fifo_wr_en /\ ReadEnable
  <2>1. TxFifo!Read /\ out' = buffer[read_ptr]
    BY <1>4 DEF FifoCycle, TxFifo!Read, TxFifo!AdvanceRead, TxFifo!EmptyAfterRead, TxFifo!Wrap
  <2> QED BY <1>0, <1>4, <2>1, ReadTakes, DepthAssumption DEF Dout
<1>5. CASE ~tx_fifo_wr_en /\ ~ReadEnable
  BY <1>0, <1>5 DEF FifoCycle, tx_fifo, TxFifo!Contents, TxFifo!Count, TxFifo!Wrap
<1> QED BY <1>2, <1>3, <1>4, <1>5

(* Taking the oldest number away and adding the next keeps the numbering.    *)
LEMMA PopNumbered ==
    ASSUME NEW q \in Seq(Item), NEW p \in Nat, Run(q, p), q # <<>>
    PROVE  /\ Tail(q) \in Seq(Item) /\ Len(Tail(q)) = Len(q) - 1
           /\ Run(Tail(q), p + 1) /\ Head(q) = p + 1
<1>1. /\ Tail(q) \in Seq(Item) /\ Len(q) \in Nat /\ Len(q) > 0 /\ Len(Tail(q)) = Len(q) - 1
      /\ \A i \in 1 .. Len(Tail(q)) : Tail(q)[i] = q[i + 1]
      /\ Head(q) = q[1]
  BY HeadTailProperties, EmptySeq, LenProperties
<1> QED BY <1>1 DEF Run

LEMMA PushNumbered ==
    ASSUME NEW q \in Seq(Item), NEW p \in Nat, Run(q, p), NEW d \in Item, d = p + Len(q) + 1
    PROVE  /\ Append(q, d) \in Seq(Item) /\ Len(Append(q, d)) = Len(q) + 1
           /\ Run(Append(q, d), p)
<1>1. /\ Append(q, d) \in Seq(Item) /\ Len(q) \in Nat /\ Len(Append(q, d)) = Len(q) + 1
      /\ Append(q, d)[Len(q) + 1] = d
      /\ \A i \in 1 .. Len(q) : Append(q, d)[i] = q[i]
  BY AppendProperties, LenProperties
<1> QED BY <1>1 DEF Run

LEMMA InitOrder == Init => OrderInv
<1> SUFFICES ASSUME Init PROVE OrderInv
  OBVIOUS
<1>1. TxFifo!FifoInv
  <2>1. TxFifo!Init
    BY ZeroCounts DEF Init, TxFifo!Init, TxFifo!Slot, NoItem
  <2> QED BY <2>1, RingInit, DepthAssumption
<1>2. TxFifo!Contents = <<>>
  BY <1>1, EmptyRing, DepthAssumption DEF Init, TxFifo!Init
<1>3. Popped = 0 /\ Len(TxFifo!Contents) = 0
  BY <1>2 DEF Popped, Written, Init
<1> QED BY <1>1, <1>3 DEF OrderInv, Numbered, Run, Echoed, NoByteTwice, Init

LEMMA NextOrder == IInv /\ OrderInv /\ [Next]_vars => OrderInv'
<1> SUFFICES ASSUME IInv, OrderInv, [Next]_vars PROVE OrderInv'
  OBVIOUS
<1>0. IInv'
  BY NextIInv
<1>1. ASSUME NEW in \in Bit \cup {None}, NEW over \in BOOLEAN, Cycle(in, over)
      PROVE  OrderInv'
  <2>1. TxFifo!FifoInv'
    <3>1. [TxFifo!Next]_TxFifo!vars
      BY <1>1, CycleIsFifo DEF Cycle, IInv, TypeOK
    <3> QED BY <3>1, RingNext, DepthAssumption DEF OrderInv
  <2> DEFINE q == TxFifo!Contents
             p2 == IF ReadEnable THEN Popped + 1 ELSE Popped
  <2>2. /\ q \in Seq(Item) /\ q' \in Seq(Item)
        /\ ReadEnable => q # <<>> /\ Dout = Head(q)
        /\ q' = LET kept == IF ReadEnable THEN Tail(q) ELSE q
                IN  IF tx_fifo_wr_en THEN Append(kept, tx_fifo_input) ELSE kept
    BY <1>1, <2>1, CycleContents DEF Cycle, OrderInv
  <2>3. /\ tx_fifo_wr_en' = (tx_fifo_wr_en' = TRUE)
        /\ tx_fifo_wr_en \in BOOLEAN /\ ReadEnable \in BOOLEAN
        /\ accepted \in Nat /\ tx_fifo_input \in Item
        /\ tx_fifo_wr_en' => tx_fifo_input' = accepted' /\ accepted' > 0
        /\ Written' = accepted
    BY <1>1 DEF Cycle, Control, Written, IInv, TypeOK, Item, ReadEnable, TxFifo!TypeOK
  <2>4. Popped + Len(q) = Written /\ Len(q) \in Nat
    BY <2>2, <2>3 DEF Popped, Written
  <2>5. tx_fifo_wr_en => tx_fifo_input = Popped + Len(q) + 1
    BY <2>3, <2>4 DEF OrderInv, Numbered, Written
  <2> HIDE DEF q
  <2>6. /\ p2 + Len(q') = accepted /\ Len(q') \in Nat
        /\ Run(q', p2) /\ Popped \in Nat
        /\ ReadEnable => Dout = Popped + 1
    <3>1. Popped \in Nat /\ Run(q, Popped)
      BY DEF OrderInv, Numbered, q
    <3> DEFINE kept == IF ReadEnable THEN Tail(q) ELSE q
    <3>2. /\ kept \in Seq(Item) /\ p2 \in Nat /\ p2 + Len(kept) = Popped + Len(q)
          /\ Run(kept, p2) /\ (ReadEnable => Dout = Popped + 1)
      <4>1. CASE ReadEnable
        BY <2>2, <2>4, <3>1, <4>1, PopNumbered
      <4>2. CASE ~ReadEnable
        BY <2>2, <2>4, <3>1, <4>2
      <4> QED BY <4>1, <4>2
    <3>3. q' = IF tx_fifo_wr_en THEN Append(kept, tx_fifo_input) ELSE kept
      BY <2>2
    <3>4. Len(kept) \in Nat
      BY <3>2, LenProperties
    <3> HIDE DEF kept, p2
    <3>5. CASE tx_fifo_wr_en
      <4>1. tx_fifo_input = p2 + Len(kept) + 1 /\ accepted = Written + 1
        BY <2>3, <2>5, <3>2, <3>5 DEF Written
      <4>2. Len(q') = Len(kept) + 1 /\ Run(q', p2)
        BY <2>3, <3>2, <3>3, <3>5, <4>1, PushNumbered
      <4> QED BY <2>3, <2>4, <3>1, <3>2, <3>4, <4>1, <4>2
    <3>6. CASE ~tx_fifo_wr_en
      BY <2>3, <2>4, <3>1, <3>2, <3>3, <3>4, <3>6 DEF Written
    <3> QED BY <3>5, <3>6
  <2>7. Popped' = p2
    BY <2>3, <2>6 DEF Popped, q
  <2>8. Numbered'
    BY <2>3, <2>6, <2>7 DEF Numbered, q
  <2>9. Echoed' /\ NoByteTwice'
    <3>0. /\ echo \in Seq(0 .. MaxBits) /\ Dout \in 0 .. MaxBits /\ Len(echo) \in Nat
          /\ \A i \in 1 .. Len(echo) : echo[i] \in 0 .. MaxBits
      BY ZeroCounts, ElementOfSeq, LenProperties DEF IInv, TypeOK, Dout, NoItem, TxFifo!TypeOK,
                                                     Item
    <3>1. CASE UartStart
      <4>1. echo' = Append(echo, Dout)
        BY <1>1, <3>1, Zenon DEF Cycle, UartCycle, UartStart
      <4>2. /\ Len(echo') = Len(echo) + 1 /\ echo'[Len(echo) + 1] = Dout
            /\ \A i \in 1 .. Len(echo) : echo'[i] = echo[i]
        BY <3>0, <4>1, AppendProperties
      <4>3. /\ Dout = 0 \/ (Dout = Popped + 1 /\ p2 = Popped + 1)
            /\ p2 >= Popped /\ p2 \in Nat /\ Popped \in Nat
        BY <2>6 DEF Dout, NoItem
      <4> HIDE DEF p2
      <4>4. Dout \in Nat /\ Dout <= p2 /\ (Dout = 0 \/ Dout > Popped)
            /\ \A i \in 1 .. Len(echo) : echo[i] \in Nat /\ echo[i] <= Popped
        BY <3>0, <4>3, MaxAssumption DEF OrderInv, Echoed
      <4>5. ASSUME NEW i \in 1 .. Len(echo') PROVE echo'[i] <= p2
        <5>1. i = Len(echo) + 1 \/ i \in 1 .. Len(echo)
          BY <3>0, <4>2
        <5> QED BY <4>2, <4>3, <4>4, <5>1
      <4>6. ASSUME NEW i \in 1 .. Len(echo'), NEW j \in 1 .. Len(echo'),
                   i < j, echo'[i] # 0, echo'[j] # 0
            PROVE  echo'[i] < echo'[j]
        <5>1. i \in 1 .. Len(echo) /\ (j = Len(echo) + 1 \/ j \in 1 .. Len(echo))
          BY <3>0, <4>2, <4>6
        <5>2. CASE j = Len(echo) + 1
          <6>1. echo'[j] = Dout /\ echo'[i] = echo[i]
            BY <4>2, <5>1, <5>2
          <6> QED BY <4>3, <4>4, <4>6, <5>1, <6>1
        <5>3. CASE j \in 1 .. Len(echo)
          <6>1. echo'[j] = echo[j] /\ echo'[i] = echo[i]
            BY <4>2, <5>1, <5>3
          <6> QED BY <4>6, <5>1, <5>3, <6>1 DEF OrderInv, NoByteTwice
        <5> QED BY <5>1, <5>2, <5>3
      <4> QED BY <2>7, <4>5, <4>6 DEF Echoed, NoByteTwice
    <3>2. CASE ~UartStart
      <4>1. echo' = echo
        BY <1>1, <3>2, Zenon DEF Cycle, UartCycle, uart
      <4>2. p2 >= Popped /\ p2 \in Nat /\ Popped \in Nat
        BY <2>6
      <4> HIDE DEF p2
      <4> QED BY <2>7, <3>0, <4>1, <4>2, MaxAssumption DEF OrderInv, Echoed, NoByteTwice
    <3> QED BY <3>1, <3>2
  <2> QED BY <2>1, <2>8, <2>9 DEF OrderInv
<1>2. CASE Reset
  <2>1. TxFifo!FifoInv'
    BY <1>2, RingNext, DepthAssumption DEF OrderInv, Reset, TxFifo!Next
  <2>2. TxFifo!Contents' = <<>>
    BY <1>2, <2>1, EmptyRingNext, DepthAssumption DEF Reset, TxFifo!Reset
  <2>3. Popped' = 0 /\ Len(TxFifo!Contents)' = 0
    BY <1>2, <2>2 DEF Popped, Written, Reset
  <2> QED BY <1>2, <2>1, <2>3 DEF OrderInv, Numbered, Run, Echoed, NoByteTwice, Reset
<1>3. CASE UNCHANGED vars
  BY <1>3 DEF vars, receiver, controller, tx_fifo, uart, OrderInv, Numbered, Echoed,
              NoByteTwice, Popped, Written, TxFifo!FifoInv, TxFifo!TypeOK, TxFifo!FlagsExact,
              TxFifo!AdvancedInStep, TxFifo!Contents, TxFifo!Count, TxFifo!Wrap
<1> QED BY <1>1, <1>2, <1>3 DEF Next

(* What the UART sends of the chip's bytes, it sends in their order and at   *)
(* most once, though traffic_adapter.v pops one byte and sends the next.    *)
THEOREM EchoCorrect == Spec => []NoByteTwice
<1>1. Spec => []OrderInv
  BY InitOrder, NextOrder, InvInductive, PTL DEF Spec
<1>2. OrderInv => NoByteTwice
  BY DEF OrderInv
<1> QED BY <1>1, <1>2, PTL

(* Under this traffic tx_fifo is a queue: no byte is lost, repeated or       *)
(* overtaken in it, at any depth and any fill level.                        *)
THEOREM TxFifoIsQueue == Spec => ImplementsQueue
BY UsesFifo, FifoIsQueue, PTL DEF ImplementsQueue
=============================================================================
