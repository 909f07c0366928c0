----------------------------- MODULE ByteMemory -----------------------------
(***************************************************************************)
(* What memif.h promises HTIF: the target's memory as an array of bytes of  *)
(* which any range can be read or written, one call at a time, while the    *)
(* target goes on and stores into its own bytes.  A call transfers every    *)
(* byte of its range exactly once, and touches no byte outside.             *)
(***************************************************************************)
EXTENDS Integers

CONSTANTS Byte,    \* the addresses
          Value,   \* the values of a byte
          NoCall,  \* between two calls
          Calls    \* the calls HTIF makes: [put, addr, len, data]

VARIABLES memory,  \* [Byte -> Value]
          call,    \* the call that is under way
          left,    \* positions of its range that are still to be transferred
          data     \* the caller's buffer

bvars == <<memory, call, left, data>>

BInit == /\ memory \in [Byte -> Value]
         /\ call = NoCall /\ left = {} /\ data = <<>>

Positions(c) == 0 .. c.len - 1

Start == /\ call = NoCall
         /\ call' \in Calls
         /\ left' = Positions(call')
         /\ data' = call'.data
         /\ UNCHANGED memory

(* Some of the positions are transferred.                                   *)
Transfer ==
    LET now == left \ left'
        old == memory
    IN /\ call # NoCall /\ left' \subseteq left /\ now # {}
       /\ IF call.put
            THEN /\ memory' = [b \in Byte |-> IF b - call.addr \in now
                                                THEN data[b - call.addr] ELSE old[b]]
                 /\ data' = data
            ELSE /\ data' = [i \in DOMAIN data |-> IF i \in now THEN old[call.addr + i]
                                                              ELSE data[i]]
                 /\ memory' = memory
       /\ UNCHANGED call

Return == /\ call # NoCall /\ left = {}
          /\ call' = NoCall /\ data' = <<>>
          /\ UNCHANGED <<memory, left>>

(* The target stores one byte; HTIF's calls are not in its way.             *)
TargetStore == /\ UNCHANGED <<call, left, data>>
               /\ LET old == memory
                      new == memory'
                  IN  \E b \in Byte : /\ new[b] \in Value
                                      /\ \A o \in Byte \ {b} : new[o] = old[o]

BNext == Start \/ Transfer \/ Return \/ TargetStore

BSpec == BInit /\ [][BNext]_bvars
=============================================================================
