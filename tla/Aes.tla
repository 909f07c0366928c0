-------------------------------- MODULE Aes ---------------------------------
(***************************************************************************)
(* aes.h: the driver of the AES accelerator, whose modes of operation are   *)
(* built from its one operation, blocks encrypted or decrypted in memory    *)
(* while the driver polls.  The accelerator itself is external.             *)
(*                                                                          *)
(* A block is the set of the atoms that are xored in it, so that blocks are  *)
(* equal when they are for every cipher.  Texts are whole blocks, as those   *)
(* of all callers.  Memory is accessed in program order.                    *)
(***************************************************************************)
EXTENDS Naturals, Sequences

CONSTANTS N,      \* blocks of a text
          BASE,   \* values of a byte; 256
          LEN     \* AES_BLOCKLEN, bytes of a block; 16

ASSUME SizeAssumption == N \in Nat \ {0} /\ BASE \in Nat \ {0, 1} /\ LEN \in Nat \ {0}

Xor(x, y) == (x \ y) \cup (y \ x)

(* The cipher and its inverse under key k.                                  *)
Inverted(name, k, x) == \E a \in x : x = {a} /\ a[1] = name /\ a[2] = k
Apply(name, inverse, k, x) ==
    IF Inverted(inverse, k, x) THEN (CHOOSE a \in x : TRUE)[3] ELSE {<<name, k, x>>}
Enc(k, x) == Apply("E", "D", k, x)
Dec(k, x) == Apply("D", "E", k, x)

(* The bytes of an initial vector, how many of them there are (BASE^LEN),    *)
(* and one as a number and as a block.                                      *)
Bytes == [1 .. LEN -> 0 .. BASE - 1]
Vectors == LET p[i \in 0 .. LEN] == IF i = 0 THEN 1 ELSE p[i - 1] * BASE IN p[LEN]
Value(c) == LET v[i \in 0 .. LEN] == IF i = 0 THEN 0 ELSE v[i - 1] * BASE + c[i] IN v[LEN]
BlockOf(c) == {<<"iv", Value(c), {}>>}

VARIABLES
  mem,                   \* the blocks at each address
  key, src, dest, left, decrypt,  \* the accelerator: its registers, and the blocks to go
  at,                    \* where the driver is, "return" between calls
  call,                  \* its parameters
  done,                  \* the blocks its loop is through with
  IV,                    \* its pointer to the block to chain with
  iv                     \* the bytes of the initial vector, which IV starts at

accelerator == <<key, src, dest, left, decrypt>>
driver == <<at, call, done, IV, iv>>
aesVars == <<mem, accelerator, driver>>

(* An address is an array with the number of a block in it.                 *)
Plus(a, n) == <<a[1], a[2] + n>>
At(a) == mem[a[1]][a[2]]
Stored(m, a, x) == [m EXCEPT ![a[1]][a[2]] = x]

AesInit == /\ key = 0 /\ left = 0 /\ decrypt = FALSE
           /\ src = <<"filler", 1>> /\ dest = <<"filler", 1>>
           /\ at = "return" /\ done = 0 /\ IV = <<"iv", 1>> /\ iv \in Bytes
           /\ call = [fn |-> "none", key |-> 0, n |-> 0, src |-> src, dest |-> dest]

-----------------------------------------------------------------------------
(* The accelerator takes block after block.                                 *)
Work == /\ left > 0
        /\ mem' = Stored(mem, dest, IF decrypt THEN Dec(key, At(src)) ELSE Enc(key, At(src)))
        /\ src' = Plus(src, 1) /\ dest' = Plus(dest, 1) /\ left' = left - 1
        /\ UNCHANGED <<key, decrypt, driver>>

(* aes_extended_addressload and aes_extended_encryptblocks or decryptblocks, *)
(* which an accelerator at work does not take.                              *)
Load(from, to, n, dec) ==
    IF left = 0 THEN src' = from /\ dest' = to /\ left' = n /\ decrypt' = dec
    ELSE UNCHANGED <<src, dest, left, decrypt>>

(* aes_extended_keysetup128 and 256, which the NO_KEY functions leave out.   *)
NoKey(c) == c.fn \in {"NO_KEY_ENC", "NO_KEY_DEC"}
KeySetup(c) == key' = IF NoKey(c) THEN key ELSE c.key

Chained(fn)  == fn \in {"CBC_ENC", "CBC_DEC"}
Decrypts(fn) == fn \in {"ECB_DEC", "NO_KEY_DEC", "CBC_DEC"}

Call(c) ==
    /\ at = "return"
    /\ call' = c /\ done' = 0 /\ IV' = <<"iv", 1>>
    /\ at' = IF c.fn = "CBC_ENC" THEN "xor" ELSE IF c.fn = "CTR" THEN "counters" ELSE "start"
    /\ IF c.fn = "CTR" THEN UNCHANGED key ELSE KeySetup(c)
    /\ UNCHANGED <<mem, src, dest, left, decrypt, iv>>

(* XOR_IV before the encryption.                                            *)
From == Plus(call.src, done)
To   == Plus(call.dest, done)
XorBefore ==
    /\ at = "xor"
    /\ mem' = Stored(mem, To, Xor(At(From), At(IV)))
    /\ at' = "start"
    /\ UNCHANGED <<accelerator, call, done, IV, iv>>

Start ==
    /\ at = "start"
    /\ \/ call.fn = "CBC_ENC" /\ Load(To, To, 1, FALSE) /\ UNCHANGED key
       \/ call.fn = "CBC_DEC" /\ Load(From, To, 1, TRUE) /\ UNCHANGED key
       \/ call.fn = "CTR" /\ Load(call.dest, call.dest, call.n, FALSE) /\ KeySetup(call)
       \/ /\ ~Chained(call.fn) /\ call.fn # "CTR"
          /\ Load(call.src, call.dest, call.n, Decrypts(call.fn)) /\ UNCHANGED key
    /\ at' = "poll"
    /\ UNCHANGED <<mem, call, done, IV, iv>>

(* The loop on aes_extended_querystatus, and one with the status inverted.   *)
PollEnds_Busy == left > 0
PollEnds      == left = 0

Poll ==
    /\ at = "poll" /\ PollEnds
    /\ at' = IF Chained(call.fn) \/ call.fn = "CTR" THEN "block" ELSE "return"
    /\ UNCHANGED <<mem, accelerator, call, done, IV, iv>>

(* After a block of CBC: XOR_IV of a decrypted one, and the chaining pointer *)
(* moves to the ciphertext, which is in dest or in src.                      *)
NextIV == IF call.fn = "CBC_ENC" THEN To ELSE From

ChainBlock ==
    /\ at = "block" /\ Chained(call.fn)
    /\ mem' = IF call.fn = "CBC_DEC" THEN Stored(mem, To, Xor(At(To), At(IV))) ELSE mem
    /\ IV' = NextIV
    /\ done' = done + 1
    /\ at' = IF done + 1 = call.n THEN "return"
             ELSE IF call.fn = "CBC_ENC" THEN "xor" ELSE "start"
    /\ UNCHANGED <<accelerator, call, iv>>

(* CTR: the counters are put into dest and encrypted there.  The counter is  *)
(* incremented from its last byte on with carries; or without.              *)
Incremented_NoCarry(c) == [c EXCEPT ![LEN] = (@ + 1) % BASE]
Incremented(c) ==
    [i \in 1 .. LEN |-> IF \E j \in i + 1 .. LEN : c[j] # BASE - 1 THEN c[i]
                        ELSE IF c[i] = BASE - 1 THEN 0 ELSE c[i] + 1]

Counters ==
    /\ at = "counters"
    /\ LET c[i \in 1 .. call.n] == IF i = 1 THEN iv ELSE Incremented(c[i - 1])
       IN mem' = [mem EXCEPT ![call.dest[1]] =
                    [i \in DOMAIN @ |-> IF i \in call.dest[2] .. call.dest[2] + call.n - 1
                                          THEN BlockOf(c[i - call.dest[2] + 1]) ELSE @[i]]]
    /\ at' = "start"
    /\ UNCHANGED <<accelerator, call, done, IV, iv>>

XorText ==
    /\ at = "block" /\ call.fn = "CTR"
    /\ mem' = Stored(mem, To, Xor(At(To), At(From)))
    /\ done' = done + 1
    /\ at' = IF done + 1 = call.n THEN "return" ELSE "block"
    /\ UNCHANGED <<accelerator, call, IV, iv>>

DriverStep == XorBefore \/ Start \/ Poll \/ ChainBlock \/ Counters \/ XorText

-----------------------------------------------------------------------------
(* The modes of operation of a text t, by their definitions.                *)
Ecb(k, t) == [i \in 1 .. N |-> Enc(k, t[i])]
Cbc(k, t) == LET c[i \in 0 .. N] == IF i = 0 THEN BlockOf(iv) ELSE Enc(k, Xor(t[i], c[i - 1]))
                 IN [i \in 1 .. N |-> c[i]]
Ctr(k, t) == [i \in 1 .. N |->
    Xor(t[i], Enc(k, {<<"iv", (Value(iv) + i - 1) % Vectors, {}>>}))]
=============================================================================
