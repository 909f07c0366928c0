------------------------- MODULE AesBasebandProofs --------------------------
(***************************************************************************)
(* Proofs about AesBaseband for texts of any length, blocks and bytes of     *)
(* any size and accelerators of any pace.                                    *)
(***************************************************************************)
EXTENDS AesBaseband, SequenceTheorems, WellFoundedInduction, TLAPS

(* Induction over Nat for a set: the library states it for an operator.     *)
LEMMA SetInduction ==
    ASSUME NEW T, 0 \in T, \A n \in Nat : n \in T => n + 1 \in T
    PROVE  \A n \in Nat : n \in T
<1> DEFINE U == Nat \ T
           R == OpToRel(<, Nat)
<1>1. SUFFICES ASSUME U # {} PROVE FALSE
  OBVIOUS
<1>2. IsWellFoundedOn(R, Nat)
  BY NatLessThanWellFounded
<1>3. \A x, y \in Nat : x < y => <<x, y>> \in R
  BY Zenon DEF OpToRel
<1> HIDE DEF R
<1>4. PICK x \in U : \A y \in U : ~ (<<y, x>> \in R)
  BY <1>1, <1>2, WFMin
<1>5. x \in Nat /\ x # 0 /\ x \notin T
  BY <1>4
<1>6. x - 1 \in Nat /\ x - 1 + 1 = x /\ x - 1 < x
  BY <1>5
<1>7. <<x - 1, x>> \in R
  BY <1>3, <1>5, <1>6
<1> QED BY <1>4, <1>5, <1>6, <1>7

-----------------------------------------------------------------------------
(* The recursive functions of Aes, each by its equations.                   *)
IsPowers(p) == p = [i \in 0 .. LEN |-> IF i = 0 THEN 1 ELSE p[i - 1] * BASE]

LEMMA PowersExist == \E p : IsPowers(p)
<1> DEFINE E(n, p) == p = [i \in 0 .. n |-> IF i = 0 THEN 1 ELSE p[i - 1] * BASE]
           T == {n \in Nat : \E p : E(n, p)}
<1>1. 0 \in T
  <2>1. E(0, [i \in 0 .. 0 |-> 1])
    OBVIOUS
  <2> HIDE DEF E
  <2> QED BY <2>1
<1>2. ASSUME NEW n \in Nat, n \in T PROVE n + 1 \in T
  <2>1. PICK p : E(n, p)
    BY <1>2
  <2> DEFINE r == [i \in 0 .. n + 1 |-> IF i = n + 1 THEN p[n] * BASE ELSE p[i]]
  <2>2. \A i \in 0 .. n + 1 : r[i] = IF i = 0 THEN 1 ELSE r[i - 1] * BASE
    <3> TAKE i \in 0 .. n + 1
    <3>1. CASE i = n + 1
      BY <3>1
    <3>2. CASE i \in 0 .. n
      BY <2>1, <3>2
    <3> QED BY <3>1, <3>2
  <2>3. E(n + 1, r)
    <3>1. r = [i \in 0 .. n + 1 |-> r[i]]
      OBVIOUS
    <3> HIDE DEF r
    <3> QED BY <2>2, <3>1
  <2> HIDE DEF E, r
  <2> QED BY <2>3
<1> HIDE DEF T
<1>3. LEN \in T
  BY <1>1, <1>2, SetInduction, SizeAssumption
<1> QED BY <1>3 DEF T, IsPowers

LEMMA VectorsIs == \E p : IsPowers(p) /\ Vectors = p[LEN]
BY PowersExist DEF Vectors, IsPowers

IsValue(c, v) == v = [i \in 0 .. LEN |-> IF i = 0 THEN 0 ELSE v[i - 1] * BASE + c[i]]

LEMMA ValueExists ==
    ASSUME NEW c
    PROVE  \E v : IsValue(c, v)
<1> DEFINE E(n, v) == v = [i \in 0 .. n |-> IF i = 0 THEN 0 ELSE v[i - 1] * BASE + c[i]]
           T == {n \in Nat : \E v : E(n, v)}
<1>1. 0 \in T
  <2>1. E(0, [i \in 0 .. 0 |-> 0])
    OBVIOUS
  <2> HIDE DEF E
  <2> QED BY <2>1
<1>2. ASSUME NEW n \in Nat, n \in T PROVE n + 1 \in T
  <2>1. PICK v : E(n, v)
    BY <1>2
  <2> DEFINE r == [i \in 0 .. n + 1 |-> IF i = n + 1 THEN v[n] * BASE + c[n + 1] ELSE v[i]]
  <2>2. \A i \in 0 .. n + 1 : r[i] = IF i = 0 THEN 0 ELSE r[i - 1] * BASE + c[i]
    <3> TAKE i \in 0 .. n + 1
    <3>1. CASE i = n + 1
      BY <3>1
    <3>2. CASE i \in 0 .. n
      BY <2>1, <3>2
    <3> QED BY <3>1, <3>2
  <2>3. E(n + 1, r)
    <3>1. r = [i \in 0 .. n + 1 |-> r[i]]
      OBVIOUS
    <3> HIDE DEF r
    <3> QED BY <2>2, <3>1
  <2> HIDE DEF E, r
  <2> QED BY <2>3
<1> HIDE DEF T
<1>3. LEN \in T
  BY <1>1, <1>2, SetInduction, SizeAssumption
<1> QED BY <1>3 DEF T, IsValue

LEMMA ValueIs ==
    ASSUME NEW c
    PROVE  \E v : IsValue(c, v) /\ Value(c) = v[LEN]
BY ValueExists DEF Value, IsValue

(* A text's chain under CBC, and the counters of CTR.                       *)
IsChain(k, t, b) ==
    b = [i \in 0 .. N |-> IF i = 0 THEN BlockOf(iv) ELSE Enc(k, Xor(t[i], b[i - 1]))]

LEMMA ChainExists ==
    ASSUME NEW k, NEW t
    PROVE  \E b : IsChain(k, t, b)
<1> DEFINE E(n, b) ==
             b = [i \in 0 .. n |-> IF i = 0 THEN BlockOf(iv) ELSE Enc(k, Xor(t[i], b[i - 1]))]
           T == {n \in Nat : \E b : E(n, b)}
<1>1. 0 \in T
  <2>1. E(0, [i \in 0 .. 0 |-> BlockOf(iv)])
    OBVIOUS
  <2> HIDE DEF E
  <2> QED BY <2>1
<1>2. ASSUME NEW n \in Nat, n \in T PROVE n + 1 \in T
  <2>1. PICK b : E(n, b)
    BY <1>2
  <2> DEFINE r == [i \in 0 .. n + 1 |-> IF i = n + 1 THEN Enc(k, Xor(t[n + 1], b[n])) ELSE b[i]]
  <2>2. \A i \in 0 .. n + 1 : r[i] = IF i = 0 THEN BlockOf(iv) ELSE Enc(k, Xor(t[i], r[i - 1]))
    <3> TAKE i \in 0 .. n + 1
    <3>1. CASE i = n + 1
      BY <3>1
    <3>2. CASE i \in 0 .. n
      BY <2>1, <3>2
    <3> QED BY <3>1, <3>2
  <2>3. E(n + 1, r)
    <3>1. r = [i \in 0 .. n + 1 |-> r[i]]
      OBVIOUS
    <3> HIDE DEF r
    <3> QED BY <2>2, <3>1
  <2> HIDE DEF E, r
  <2> QED BY <2>3
<1> HIDE DEF T
<1>3. N \in T
  BY <1>1, <1>2, SetInduction, SizeAssumption
<1> QED BY <1>3 DEF T, IsChain

LEMMA CbcIs ==
    ASSUME NEW k, NEW t
    PROVE  \E b : IsChain(k, t, b) /\ Cbc(k, t) = [i \in 1 .. N |-> b[i]]
<1>1. \E b : IsChain(k, t, b)
  BY ChainExists
<1>2. PICK b : IsChain(k, t, b) /\ b = CHOOSE c : IsChain(k, t, c)
  BY <1>1
<1>3. Cbc(k, t) = [i \in 1 .. N |-> b[i]]
  BY <1>2 DEF Cbc, IsChain
<1> QED BY <1>2, <1>3

IsCounting(n, f) == f = [i \in 1 .. n |-> IF i = 1 THEN iv ELSE Incremented(f[i - 1])]

LEMMA CountingExists ==
    ASSUME NEW m \in Nat
    PROVE  \E f : IsCounting(m, f)
<1> DEFINE T == {n \in Nat : \E f : IsCounting(n, f)}
<1>1. 0 \in T
  <2>1. IsCounting(0, [i \in 1 .. 0 |-> iv])
    BY DEF IsCounting
  <2> QED BY <2>1
<1>2. ASSUME NEW n \in Nat, n \in T PROVE n + 1 \in T
  <2>1. PICK f : IsCounting(n, f)
    BY <1>2
  <2> DEFINE r == [i \in 1 .. n + 1 |-> IF i = n + 1 /\ n # 0 THEN Incremented(f[n])
                                        ELSE IF i = 1 THEN iv ELSE f[i]]
  <2>2. \A i \in 1 .. n + 1 : r[i] = IF i = 1 THEN iv ELSE Incremented(r[i - 1])
    <3> TAKE i \in 1 .. n + 1
    <3>1. CASE i = n + 1
      BY <2>1, <3>1 DEF IsCounting
    <3>2. CASE i \in 1 .. n
      BY <2>1, <3>2 DEF IsCounting
    <3> QED BY <3>1, <3>2
  <2>3. IsCounting(n + 1, r)
    <3>1. r = [i \in 1 .. n + 1 |-> r[i]]
      OBVIOUS
    <3> HIDE DEF r
    <3> QED BY <2>2, <3>1 DEF IsCounting
  <2> HIDE DEF r
  <2> QED BY <2>3
<1> HIDE DEF T
<1>3. m \in T
  BY <1>1, <1>2, SetInduction
<1> QED BY <1>3 DEF T

-----------------------------------------------------------------------------
(* A vector as a number: it is less than Vectors, and incrementing the bytes *)
(* from the last one on adds one to it, or leads from the last to the first. *)
Top(c, i) == \A j \in i + 1 .. LEN : c[j] = BASE - 1
Successor(x, p) == IF x + 1 = p THEN 0 ELSE x + 1

LEMMA Digit ==
    ASSUME NEW x \in Nat, NEW p \in Nat, x < p, NEW d \in 0 .. BASE - 1
    PROVE  /\ x * BASE + d \in Nat /\ p * BASE \in Nat
           /\ x * BASE + d < p * BASE
           /\ d # BASE - 1 => x * BASE + d + 1 # p * BASE
           /\ d = BASE - 1 =>
                IF x + 1 = p THEN x * BASE + d + 1 = p * BASE
                ELSE x * BASE + d + 1 # p * BASE /\ (x + 1) * BASE = x * BASE + d + 1
<1>1. BASE \in Nat /\ BASE >= 2
  BY SizeAssumption
<1>2. p = x + 1 + (p - x - 1) /\ p - x - 1 \in Nat
  OBVIOUS
<1>3. PICK e \in Nat : e = p - x - 1
  BY <1>2
<1>4. PICK y \in Nat, z \in Nat : y = x * BASE /\ z = e * BASE
  BY <1>1, <1>3
<1>5. p * BASE = y + BASE + z /\ (x + 1) * BASE = y + BASE
  <2>1. p = x + 1 + e
    BY <1>2, <1>3
  <2>2. (x + 1 + e) * BASE = x * BASE + BASE + e * BASE
    BY <1>1, <1>3
  <2>3. (x + 1) * BASE = x * BASE + BASE
    BY <1>1
  <2> QED BY <1>4, <2>1, <2>2, <2>3
<1>6. e # 0 => z > 0
  BY <1>1, <1>3, <1>4
<1>7. x + 1 = p <=> e = 0
  BY <1>2, <1>3
<1>8. e = 0 => z = 0
  BY <1>1, <1>4
<1> QED BY <1>1, <1>4, <1>5, <1>6, <1>7, <1>8

LEMMA Bounded ==
    ASSUME NEW c \in Bytes, NEW p, IsPowers(p), NEW v, IsValue(c, v)
    PROVE  \A i \in 0 .. LEN : p[i] \in Nat /\ v[i] \in Nat /\ v[i] < p[i]
<1> DEFINE T == {i \in Nat : i <= LEN => p[i] \in Nat /\ v[i] \in Nat /\ v[i] < p[i]}
<1>0. LEN \in Nat
  BY SizeAssumption
<1>1. 0 \in T
  <2>1. p[0] = 1 /\ v[0] = 0
    BY <1>0 DEF IsPowers, IsValue
  <2> QED BY <2>1
<1>2. ASSUME NEW n \in Nat, n \in T PROVE n + 1 \in T
  <2> SUFFICES ASSUME n + 1 <= LEN
               PROVE  p[n + 1] \in Nat /\ v[n + 1] \in Nat /\ v[n + 1] < p[n + 1]
    OBVIOUS
  <2>1. p[n] \in Nat /\ v[n] \in Nat /\ v[n] < p[n]
    BY <1>0, <1>2
  <2>2. n + 1 \in 0 .. LEN /\ n + 1 # 0 /\ n + 1 - 1 = n /\ n + 1 \in 1 .. LEN
    BY <1>0
  <2>3. p[n + 1] = p[n] * BASE /\ v[n + 1] = v[n] * BASE + c[n + 1]
    <3>1. n \in 0 .. LEN
      BY <1>0
    <3>2. p[n + 1] = p[n + 1 - 1] * BASE
      BY <2>2, <3>1 DEF IsPowers
    <3>3. v[n + 1] = v[n + 1 - 1] * BASE + c[n + 1]
      BY <2>2, <3>1 DEF IsValue
    <3> QED BY <2>2, <3>2, <3>3
  <2>4. c[n + 1] \in 0 .. BASE - 1
    BY <2>2 DEF Bytes
  <2> QED BY <2>1, <2>3, <2>4, Digit
<1> HIDE DEF T
<1>3. \A n \in Nat : n \in T
  BY <1>1, <1>2, SetInduction
<1> QED BY <1>0, <1>3 DEF T

LEMMA IncrementedBytes ==
    ASSUME NEW c \in Bytes
    PROVE  /\ Incremented(c) \in Bytes
           /\ \A i \in 1 .. LEN :
                Incremented(c)[i] = IF ~Top(c, i) THEN c[i]
                                    ELSE IF c[i] = BASE - 1 THEN 0 ELSE c[i] + 1
<1>1. \A i \in 1 .. LEN : c[i] \in 0 .. BASE - 1
  BY DEF Bytes
<1>2. BASE \in Nat /\ BASE >= 2
  BY SizeAssumption
<1> QED BY <1>1, <1>2 DEF Incremented, Bytes, Top

LEMMA CarriedTo ==
    ASSUME NEW c \in Bytes, NEW p, IsPowers(p), NEW v, IsValue(c, v),
           NEW w, IsValue(Incremented(c), w)
    PROVE  \A i \in 0 .. LEN : w[i] = IF Top(c, i) THEN Successor(v[i], p[i]) ELSE v[i]
<1> DEFINE T == {i \in Nat : i <= LEN => w[i] = IF Top(c, i) THEN Successor(v[i], p[i]) ELSE v[i]}
           d == Incremented(c)
<1>0. LEN \in Nat
  BY SizeAssumption
<1>1. 0 \in T
  <2>1. p[0] = 1 /\ v[0] = 0 /\ w[0] = 0
    BY <1>0 DEF IsPowers, IsValue
  <2> QED BY <2>1 DEF Successor
<1>2. ASSUME NEW n \in Nat, n \in T PROVE n + 1 \in T
  <2> SUFFICES ASSUME n + 1 <= LEN
               PROVE  w[n + 1] = IF Top(c, n + 1) THEN Successor(v[n + 1], p[n + 1]) ELSE v[n + 1]
    OBVIOUS
  <2>1. w[n] = IF Top(c, n) THEN Successor(v[n], p[n]) ELSE v[n]
    BY <1>0, <1>2
  <2>2. n + 1 \in 0 .. LEN /\ n + 1 # 0 /\ n + 1 - 1 = n /\ n + 1 \in 1 .. LEN /\ n \in 0 .. LEN
    BY <1>0
  <2>3. /\ p[n + 1] = p[n] * BASE /\ v[n + 1] = v[n] * BASE + c[n + 1]
        /\ w[n + 1] = w[n] * BASE + d[n + 1]
    BY <2>2 DEF IsPowers, IsValue
  <2>4. c[n + 1] \in 0 .. BASE - 1 /\ p[n] \in Nat /\ v[n] \in Nat /\ v[n] < p[n]
    BY <2>2, Bounded DEF Bytes
  <2>5. d[n + 1] = IF ~Top(c, n + 1) THEN c[n + 1]
                   ELSE IF c[n + 1] = BASE - 1 THEN 0 ELSE c[n + 1] + 1
    BY <2>2, IncrementedBytes
  <2>6. Top(c, n) <=> c[n + 1] = BASE - 1 /\ Top(c, n + 1)
    <3>1. n + 1 .. LEN = {n + 1} \cup (n + 1 + 1 .. LEN)
      BY <1>0
    <3> QED BY <3>1 DEF Top
  <2> HIDE DEF d, T
  <2>7. BASE \in Nat
    BY SizeAssumption
  <2>8. CASE ~Top(c, n + 1)
    BY <2>1, <2>3, <2>5, <2>6, <2>8
  <2>d. /\ v[n] * BASE + c[n + 1] \in Nat
        /\ v[n] * BASE + c[n + 1] < p[n] * BASE
        /\ c[n + 1] # BASE - 1 => v[n] * BASE + c[n + 1] + 1 # p[n] * BASE
        /\ c[n + 1] = BASE - 1 =>
             IF v[n] + 1 = p[n] THEN v[n] * BASE + c[n + 1] + 1 = p[n] * BASE
             ELSE /\ v[n] * BASE + c[n + 1] + 1 # p[n] * BASE
                  /\ (v[n] + 1) * BASE = v[n] * BASE + c[n + 1] + 1
    BY <2>4, Digit
  <2>9. CASE Top(c, n + 1) /\ c[n + 1] # BASE - 1
    <3>1. w[n + 1] = v[n] * BASE + (c[n + 1] + 1)
      BY <2>1, <2>3, <2>5, <2>6, <2>9
    <3>2. PICK y \in Nat : y = v[n] * BASE
      BY <2>4, <2>7
    <3> QED BY <2>3, <2>4, <2>9, <2>d, <3>1, <3>2 DEF Successor
  <2>10. CASE Top(c, n + 1) /\ c[n + 1] = BASE - 1
    <3>1. w[n] = Successor(v[n], p[n]) /\ d[n + 1] = 0 /\ w[n + 1] = w[n] * BASE + 0
      BY <2>1, <2>3, <2>5, <2>6, <2>10
    <3>2. CASE v[n] + 1 = p[n]
      <4>1. w[n + 1] = 0
        BY <2>7, <3>1, <3>2 DEF Successor
      <4> QED BY <2>3, <2>10, <2>d, <3>2, <4>1 DEF Successor
    <3>3. CASE v[n] + 1 # p[n]
      <4>1. w[n + 1] = (v[n] + 1) * BASE
        <5>1. (v[n] + 1) * BASE \in Nat
          BY <2>4, <2>7
        <5> QED BY <3>1, <3>3, <5>1 DEF Successor
      <4> QED BY <2>3, <2>10, <2>d, <3>3, <4>1 DEF Successor
    <3> QED BY <3>2, <3>3
  <2> QED BY <2>8, <2>9, <2>10
<1> HIDE DEF T
<1>3. \A n \in Nat : n \in T
  BY <1>1, <1>2, SetInduction
<1> QED BY <1>0, <1>3 DEF T

LEMMA NextValue ==
    ASSUME NEW c \in Bytes
    PROVE  /\ Value(c) \in Nat /\ Vectors \in Nat /\ Value(c) < Vectors
           /\ Value(Incremented(c)) = Successor(Value(c), Vectors)
<1>1. PICK p : IsPowers(p) /\ Vectors = p[LEN]
  BY VectorsIs
<1>2. PICK v : IsValue(c, v) /\ Value(c) = v[LEN]
  BY ValueIs
<1>3. PICK w : IsValue(Incremented(c), w) /\ Value(Incremented(c)) = w[LEN]
  BY ValueIs
<1>4. LEN \in 0 .. LEN /\ LEN \in Nat
  BY SizeAssumption
<1>5. Top(c, LEN)
  BY <1>4 DEF Top
<1> QED BY <1>1, <1>2, <1>3, <1>4, <1>5, Bounded, CarriedTo

(* The i-th counter is the vector plus i - 1.                               *)
Number(i) == (Value(iv) + i - 1) % Vectors
Counter(i) == {<<"iv", Number(i), {}>>}

LEMMA SuccessorMod ==
    ASSUME NEW p \in Nat, p > 0, NEW a \in Nat
    PROVE  (a + 1) % p = Successor(a % p, p)
<1>1. PICK q, r : q = a \div p /\ r = a % p
  OBVIOUS
<1>2. q \in Int /\ r \in 0 .. p - 1 /\ a = p * q + r
  BY <1>1
<1>3. PICK q2, r2 : q2 = (a + 1) \div p /\ r2 = (a + 1) % p
  OBVIOUS
<1>4. q2 \in Int /\ r2 \in 0 .. p - 1 /\ a + 1 = p * q2 + r2
  BY <1>3
<1>5. PICK x \in Int, y \in Int : x = p * q /\ y = p * q2
  BY <1>2, <1>4
<1>6. q2 <= q => y <= x
  BY <1>2, <1>4, <1>5
<1>7. q2 >= q + 1 => y >= x + p
  <2>1. q2 >= q + 1 => p * q2 >= p * (q + 1)
    BY <1>2, <1>4
  <2>2. p * (q + 1) = p * q + p
    BY <1>2
  <2> QED BY <1>5, <2>1, <2>2
<1>8. q2 = q => y = x
  BY <1>5
<1>9. q2 < q => y + p <= x
  <2>1. q2 + 1 <= q => p * (q2 + 1) <= p * q
    BY <1>2, <1>4
  <2>2. p * (q2 + 1) = p * q2 + p
    BY <1>4
  <2> QED BY <1>2, <1>4, <1>5, <2>1, <2>2
<1>10. q2 >= q + 2 => y >= x + p + p
  <2>1. q2 >= q + 2 => p * q2 >= p * (q + 2)
    BY <1>2, <1>4
  <2>2. p * (q + 2) = p * q + p + p
    BY <1>2
  <2> QED BY <1>5, <2>1, <2>2
<1> QED BY <1>1, <1>2, <1>3, <1>4, <1>5, <1>7, <1>8, <1>9, <1>10 DEF Successor

LEMMA CountersAre ==
    ASSUME iv \in Bytes, NEW n \in Nat, NEW f, IsCounting(n, f)
    PROVE  \A i \in 1 .. n : BlockOf(f[i]) = Counter(i)
<1> DEFINE T == {m \in Nat : m + 1 <= n => /\ f[m + 1] \in Bytes
                                           /\ Value(f[m + 1]) = Number(m + 1)}
<1>1. 0 \in T
  <2>1. n >= 1 => f[1] = iv
    BY DEF IsCounting
  <2>2. Value(iv) \in Nat /\ Vectors \in Nat /\ Value(iv) < Vectors
    BY NextValue
  <2>3. \A a \in Nat, b \in Nat : a < b => (a + 1 - 1) % b = a
    OBVIOUS
  <2>4. Number(1) = Value(iv)
    BY <2>2, <2>3 DEF Number
  <2> QED BY <2>1, <2>4
<1>2. ASSUME NEW m \in Nat, m \in T PROVE m + 1 \in T
  <2> SUFFICES ASSUME m + 1 + 1 <= n
               PROVE  f[m + 1 + 1] \in Bytes /\ Value(f[m + 1 + 1]) = Number(m + 1 + 1)
    OBVIOUS
  <2>1. f[m + 1] \in Bytes /\ Value(f[m + 1]) = Number(m + 1)
    BY <1>2
  <2>2. f[m + 1 + 1] = Incremented(f[m + 1])
    BY DEF IsCounting
  <2>3. Value(iv) \in Nat /\ Vectors \in Nat /\ Value(iv) < Vectors
    BY NextValue
  <2>4. Value(iv) + (m + 1) - 1 = Value(iv) + m /\ Value(iv) + (m + 1 + 1) - 1 = Value(iv) + m + 1
    BY <2>3
  <2>5. Number(m + 1 + 1) = Successor(Number(m + 1), Vectors)
    BY <2>3, <2>4, SuccessorMod DEF Number
  <2> QED BY <2>1, <2>2, <2>5, NextValue, IncrementedBytes
<1> HIDE DEF T
<1>3. \A m \in Nat : m \in T
  BY <1>1, <1>2, SetInduction
<1>4. ASSUME NEW i \in 1 .. n PROVE BlockOf(f[i]) = Counter(i)
  <2>1. i - 1 \in T /\ i - 1 + 1 = i
    BY <1>3
  <2>2. Value(f[i]) = Number(i)
    BY <2>1 DEF T
  <2> QED BY <2>2 DEF BlockOf, Counter
<1> QED BY <1>4

-----------------------------------------------------------------------------
(* The cipher takes back what it did to a block that is not an inverse, and  *)
(* a block that is xored in twice is gone.                                  *)
LEMMA XorFacts ==
    ASSUME NEW x, NEW y
    PROVE  Xor(x, y) = Xor(y, x) /\ Xor(Xor(x, y), y) = x
BY DEF Xor

LEMMA CipherFacts ==
    ASSUME NEW k, NEW x, NEW a \in x, a[1] # "D"
    PROVE  Enc(k, x) = {<<"E", k, x>>} /\ Dec(k, Enc(k, x)) = x
<1>1. ~Inverted("D", k, x)
  BY DEF Inverted
<1>2. Enc(k, x) = {<<"E", k, x>>}
  BY <1>1 DEF Enc, Apply
<1> DEFINE e == <<"E", k, x>>
<1>3. e[1] = "E" /\ e[2] = k /\ e[3] = x
  OBVIOUS
<1> HIDE DEF e
<1>4. Inverted("E", k, {e})
  BY <1>3 DEF Inverted
<1>5. (CHOOSE b \in {e} : TRUE) = e
  OBVIOUS
<1>6. Dec(k, {e}) = x
  BY <1>3, <1>4, <1>5 DEF Dec, Apply
<1> QED BY <1>2, <1>6 DEF e

(* What the headers expect of each mode.                                    *)
LEMMA EcbFacts ==
    ASSUME mode # "cbc", mode # "ctr", NEW k
    PROVE  /\ Reference(k) = [i \in 1 .. N |-> Reference(k)[i]]
           /\ \A i \in 1 .. N : /\ Enc(k, Text[i]) = Reference(k)[i]
                                /\ Dec(k, Reference(k)[i]) = Text[i]
<1>1. Reference(k) = [i \in 1 .. N |-> Enc(k, Text[i])]
  BY DEF Reference, Ecb
<1>2. ASSUME NEW i \in 1 .. N PROVE Dec(k, Enc(k, Text[i])) = Text[i]
  <2>1. PICK a : a = <<"text", i, {}>>
    OBVIOUS
  <2>2. a \in Text[i] /\ a[1] # "D"
    BY <2>1 DEF Text
  <2> QED BY <2>2, CipherFacts
<1> QED BY <1>1, <1>2

Previous(k, j) == IF j = 0 THEN BlockOf(iv) ELSE Reference(k)[j]

LEMMA ChainFacts ==
    ASSUME NEW k, NEW b, IsChain(k, Text, b)
    PROVE  \A i \in 1 .. N : /\ b[i] = Enc(k, Xor(Text[i], b[i - 1]))
                             /\ Dec(k, b[i]) = Xor(Text[i], b[i - 1])
<1> DEFINE Clean(x) == \A a \in x : a[1] # "text"
           T == {i \in Nat : i <= N => Clean(b[i])}
<1>0. N \in Nat
  BY SizeAssumption
<1>a. /\ b[0] = BlockOf(iv)
      /\ \A i \in 1 .. N : b[i] = Enc(k, Xor(Text[i], b[i - 1]))
  <2> DEFINE g(i) == IF i = 0 THEN BlockOf(iv) ELSE Enc(k, Xor(Text[i], b[i - 1]))
  <2>1. b = [i \in 0 .. N |-> g(i)]
    BY DEF IsChain
  <2>2. \A i \in 0 .. N : b[i] = g(i)
    <3> HIDE DEF g
    <3> QED BY <2>1
  <2>3. 0 \in 0 .. N /\ \A i \in 1 .. N : i \in 0 .. N /\ i # 0
    BY <1>0
  <2> QED BY <2>2, <2>3
<1>b. ASSUME NEW i \in 1 .. N, Clean(b[i - 1])
      PROVE  /\ b[i] = {<<"E", k, Xor(Text[i], b[i - 1])>>}
             /\ Dec(k, b[i]) = Xor(Text[i], b[i - 1])
  <2>1. PICK a : a = <<"text", i, {}>>
    OBVIOUS
  <2>2. a[1] = "text" /\ Text[i] = {a}
    BY <2>1 DEF Text
  <2>3. a \in Xor(Text[i], b[i - 1])
    BY <1>b, <2>2 DEF Xor
  <2> QED BY <1>a, <2>2, <2>3, CipherFacts
<1>1. 0 \in T
  <2>1. Clean(BlockOf(iv))
    BY DEF BlockOf
  <2> QED BY <1>a, <2>1
<1>2. ASSUME NEW n \in Nat, n \in T PROVE n + 1 \in T
  <2> SUFFICES ASSUME n + 1 <= N PROVE Clean(b[n + 1])
    OBVIOUS
  <2>1. n + 1 \in 1 .. N /\ n + 1 - 1 = n /\ Clean(b[n])
    BY <1>0, <1>2
  <2>2. b[n + 1] = {<<"E", k, Xor(Text[n + 1], b[n])>>}
    BY <1>b, <2>1
  <2> QED BY <2>2
<1>3. \A n \in Nat : n \in T
  <2> HIDE DEF T
  <2> QED BY <1>1, <1>2, SetInduction
<1>4. ASSUME NEW i \in 1 .. N PROVE Clean(b[i - 1])
  <2>1. i - 1 \in Nat /\ i - 1 <= N
    BY <1>0
  <2> QED BY <1>3, <2>1
<1> QED BY <1>a, <1>b, <1>4

LEMMA CbcFacts ==
    ASSUME mode = "cbc", NEW k
    PROVE  /\ Reference(k) = [i \in 1 .. N |-> Reference(k)[i]]
           /\ \A i \in 1 .. N : /\ Enc(k, Xor(Text[i], Previous(k, i - 1))) = Reference(k)[i]
                                /\ Xor(Dec(k, Reference(k)[i]), Previous(k, i - 1)) = Text[i]
<1>1. PICK b : IsChain(k, Text, b) /\ Cbc(k, Text) = [i \in 1 .. N |-> b[i]]
  BY CbcIs
<1>2. Reference(k) = [i \in 1 .. N |-> b[i]]
  BY <1>1 DEF Reference
<1>3. ASSUME NEW i \in 1 .. N
      PROVE  Previous(k, i - 1) = b[i - 1]
  <2>1. i - 1 = 0 \/ i - 1 \in 1 .. N
    BY SizeAssumption
  <2>2. b[0] = BlockOf(iv)
    <3>1. 0 \in 0 .. N
      BY SizeAssumption
    <3> QED BY <1>1, <3>1, Zenon DEF IsChain
  <2> QED BY <1>2, <2>1, <2>2 DEF Previous
<1>4. ASSUME NEW i \in 1 .. N
      PROVE  /\ Enc(k, Xor(Text[i], b[i - 1])) = b[i]
             /\ Xor(Dec(k, b[i]), b[i - 1]) = Text[i]
  BY <1>1, ChainFacts, XorFacts
<1> QED BY <1>2, <1>3, <1>4

LEMMA CtrFacts ==
    ASSUME mode = "ctr", NEW k
    PROVE  /\ Reference(k) = [i \in 1 .. N |-> Reference(k)[i]]
           /\ \A i \in 1 .. N : /\ Xor(Enc(k, Counter(i)), Text[i]) = Reference(k)[i]
                                /\ Xor(Enc(k, Counter(i)), Reference(k)[i]) = Text[i]
<1>1. Reference(k) = [i \in 1 .. N |-> Xor(Text[i], Enc(k, Counter(i)))]
  BY DEF Reference, Ctr, Counter, Number
<1> QED BY <1>1, XorFacts

LEMMA ReferenceIs ==
    ASSUME NEW k
    PROVE  Reference(k) = [i \in 1 .. N |-> Reference(k)[i]]
BY EcbFacts, CbcFacts, CtrFacts

-----------------------------------------------------------------------------
(* The script of an AES program: four phases, each of some calls and a       *)
(* check.  Phases 0 and 2 encrypt with the first and the second key, phases  *)
(* 1 and 3 decrypt.                                                         *)
Split == mode \in {"ecb-single", "ecb-consecutive"}
CallsOf == IF Split THEN N ELSE 1
SizeOf  == IF Split THEN 1 ELSE N
Offset(s) == IF s = 0 THEN 0 ELSE IF s = 1 THEN CallsOf + 1
            ELSE IF s = 2 THEN 2 * (CallsOf + 1) ELSE 3 * (CallsOf + 1)
Encrypts(s) == s \in {0, 2}
KeyOf(s)  == IF s \in {0, 1} THEN ONE ELSE TWO
FromOf(s) == IF Encrypts(s) THEN "plain" ELSE Expected(KeyOf(s))
GoalOf(s) == IF Encrypts(s) THEN Expected(KeyOf(s)) ELSE "plain"
FnOf(s, q) ==
    IF mode = "ecb-consecutive" /\ q > 1
      THEN IF Encrypts(s) THEN "NO_KEY_ENC" ELSE "NO_KEY_DEC"
      ELSE IF Encrypts(s) THEN Encrypting ELSE Decrypting
CallOf(s, q) == Aes(FnOf(s, q), KeyOf(s), FromOf(s), IF Split THEN q ELSE 1, SizeOf)

LEMMA CallsAre ==
    ASSUME NEW s \in 0 .. 3,
           NEW c, c = Calls(IF Encrypts(s) THEN Encrypting ELSE Decrypting,
                            IF Encrypts(s) THEN "NO_KEY_ENC" ELSE "NO_KEY_DEC",
                            KeyOf(s), FromOf(s))
    PROVE  c = [q \in 1 .. CallsOf |-> CallOf(s, q)]
<1>1. N \in Nat /\ N > 0
  BY SizeAssumption
<1>2. CASE mode = "ecb-single"
  BY <1>2 DEF Calls, CallsOf, CallOf, SizeOf, Split, FnOf, Single
<1>3. CASE mode = "ecb-consecutive"
  <2>1. CallsOf = N /\ SizeOf = 1 /\ Split
    BY <1>3 DEF CallsOf, SizeOf, Split
  <2>2. Encrypting = "ECB_ENC" /\ Decrypting = "ECB_DEC"
    BY <1>3 DEF Encrypting, Decrypting
  <2>3. \A q \in 1 .. N : q = 1 <=> ~(q > 1)
    BY <1>1
  <2> QED BY <1>3, <2>1, <2>2, <2>3 DEF Calls, CallOf, FnOf, Consecutive
<1>4. CASE ~Split
  <2>1. CallsOf = 1 /\ SizeOf = N
    BY <1>4 DEF CallsOf, SizeOf
  <2>2. c = <<CallOf(s, 1)>>
    BY <1>4, <2>1 DEF Calls, CallOf, FnOf, Multiple, Split
  <2> QED BY <2>1, <2>2
<1> QED BY <1>2, <1>3, <1>4 DEF Split

LEMMA Joined ==
    ASSUME NEW m \in Nat, NEW a, a = [i \in 1 .. m |-> a[i]],
           NEW n \in Nat, NEW b, b = [i \in 1 .. n |-> b[i]]
    PROVE  a \o b = [i \in 1 .. m + n |-> IF i <= m THEN a[i] ELSE b[i - m]]
<1> DEFINE S == {a[i] : i \in 1 .. m} \cup {b[i] : i \in 1 .. n}
<1>1. a \in Seq(S) /\ b \in Seq(S)
  <2>1. a \in [1 .. m -> S] /\ b \in [1 .. n -> S]
    OBVIOUS
  <2> HIDE DEF S
  <2> QED BY <2>1, SeqDef
<1>2. Len(a) = m /\ Len(b) = n
  <2>1. DOMAIN a = 1 .. m /\ DOMAIN b = 1 .. n
    BY Zenon
  <2> HIDE DEF S
  <2> QED BY <1>1, <2>1, LenProperties
<1> HIDE DEF S
<1>3. /\ a \o b \in Seq(S) /\ Len(a \o b) = m + n
      /\ \A i \in 1 .. m + n : (a \o b)[i] = IF i <= m THEN a[i] ELSE b[i - m]
  BY <1>1, <1>2, ConcatProperties
<1>4. a \o b = [i \in 1 .. m + n |-> (a \o b)[i]]
  BY <1>3, LenProperties
<1> QED BY <1>3, <1>4

LEMMA LoopIs ==
    ASSUME mode # "tx", NEW s \in {0, 2}
    PROVE  Loop(KeyOf(s)) =
             [i \in 1 .. 2 * (CallsOf + 1) |->
                IF i <= CallsOf THEN CallOf(s, i)
                ELSE IF i = CallsOf + 1 THEN Check(GoalOf(s))
                ELSE IF i <= CallsOf + 1 + CallsOf THEN CallOf(s + 1, i - CallsOf - 1)
                ELSE Check(GoalOf(s + 1))]
<1> DEFINE k == KeyOf(s)
           a == Calls(Encrypting, "NO_KEY_ENC", k, "plain")
           b == Calls(Decrypting, "NO_KEY_DEC", k, Expected(k))
           x == <<Check(Expected(k))>>
           y == <<Check("plain")>>
<1>1. CallsOf \in Nat
  BY SizeAssumption DEF CallsOf
<1>2. /\ s \in 0 .. 3 /\ s + 1 \in 0 .. 3 /\ Encrypts(s) /\ ~Encrypts(s + 1)
      /\ KeyOf(s + 1) = k /\ FromOf(s) = "plain" /\ FromOf(s + 1) = Expected(k)
      /\ GoalOf(s) = Expected(k) /\ GoalOf(s + 1) = "plain"
  BY DEF Encrypts, KeyOf, FromOf, GoalOf
<1>3. a = [i \in 1 .. CallsOf |-> CallOf(s, i)]
  <2>1. a = Calls(IF Encrypts(s) THEN Encrypting ELSE Decrypting,
                  IF Encrypts(s) THEN "NO_KEY_ENC" ELSE "NO_KEY_DEC", KeyOf(s), FromOf(s))
    BY <1>2
  <2> HIDE DEF a, k
  <2> QED BY <1>2, <2>1, CallsAre
<1>4. b = [i \in 1 .. CallsOf |-> CallOf(s + 1, i)]
  <2>1. b = Calls(IF Encrypts(s + 1) THEN Encrypting ELSE Decrypting,
                  IF Encrypts(s + 1) THEN "NO_KEY_ENC" ELSE "NO_KEY_DEC",
                  KeyOf(s + 1), FromOf(s + 1))
    BY <1>2
  <2> HIDE DEF b, k
  <2> QED BY <1>2, <2>1, CallsAre
<1>5. Loop(k) = ((a \o x) \o b) \o y
  BY DEF Loop
<1>6. x = [i \in 1 .. 1 |-> Check(GoalOf(s))] /\ y = [i \in 1 .. 1 |-> Check(GoalOf(s + 1))]
  BY <1>2
<1> HIDE DEF a, b, x, y, k
<1>7. a \o x = [i \in 1 .. CallsOf + 1 |-> IF i <= CallsOf THEN CallOf(s, i) ELSE Check(GoalOf(s))]
  <2>1. a \o x = [i \in 1 .. CallsOf + 1 |-> IF i <= CallsOf THEN a[i] ELSE x[i - CallsOf]]
    BY <1>1, <1>3, <1>6, Joined
  <2>2. \A i \in 1 .. CallsOf + 1 : ~(i <= CallsOf) => i - CallsOf \in 1 .. 1
    BY <1>1
  <2>3. \A i \in 1 .. CallsOf + 1 : i <= CallsOf => i \in 1 .. CallsOf
    BY <1>1
  <2> QED BY <1>3, <1>6, <2>1, <2>2, <2>3
<1>8. (a \o x) \o b = [i \in 1 .. CallsOf + 1 + CallsOf |->
                         IF i <= CallsOf THEN CallOf(s, i)
                         ELSE IF i = CallsOf + 1 THEN Check(GoalOf(s))
                         ELSE CallOf(s + 1, i - CallsOf - 1)]
  <2> DEFINE ax == a \o x
  <2>1. ax = [i \in 1 .. CallsOf + 1 |-> ax[i]] /\ CallsOf + 1 \in Nat
    BY <1>1, <1>7
  <2>2. b = [i \in 1 .. CallsOf |-> b[i]]
    BY <1>4
  <2>3. ax \o b = [i \in 1 .. CallsOf + 1 + CallsOf |->
                     IF i <= CallsOf + 1 THEN ax[i] ELSE b[i - (CallsOf + 1)]]
    <3> HIDE DEF ax
    <3> QED BY <1>1, <2>1, <2>2, Joined
  <2>4. \A i \in 1 .. CallsOf + 1 + CallsOf :
          IF i <= CallsOf + 1
            THEN ax[i] = IF i <= CallsOf THEN CallOf(s, i) ELSE Check(GoalOf(s))
            ELSE i - (CallsOf + 1) \in 1 .. CallsOf /\ i - (CallsOf + 1) = i - CallsOf - 1
    BY <1>1, <1>7
  <2>5. \A i \in 1 .. CallsOf + 1 + CallsOf :
          ~(i <= CallsOf + 1) => b[i - (CallsOf + 1)] = CallOf(s + 1, i - CallsOf - 1)
    BY <1>4, <2>4
  <2>6. \A i \in 1 .. CallsOf + 1 + CallsOf : i <= CallsOf + 1 <=> i <= CallsOf \/ i = CallsOf + 1
    BY <1>1
  <2>7. \A i \in 1 .. CallsOf + 1 + CallsOf : i <= CallsOf => i # CallsOf + 1
    BY <1>1
  <2> HIDE DEF ax
  <2>8. \A i \in 1 .. CallsOf + 1 + CallsOf :
          (IF i <= CallsOf + 1 THEN ax[i] ELSE b[i - (CallsOf + 1)]) =
             IF i <= CallsOf THEN CallOf(s, i)
             ELSE IF i = CallsOf + 1 THEN Check(GoalOf(s))
             ELSE CallOf(s + 1, i - CallsOf - 1)
    BY <2>4, <2>5, <2>6, <2>7
  <2>9. ax \o b = [i \in 1 .. CallsOf + 1 + CallsOf |->
                         IF i <= CallsOf THEN CallOf(s, i)
                         ELSE IF i = CallsOf + 1 THEN Check(GoalOf(s))
                         ELSE CallOf(s + 1, i - CallsOf - 1)]
    BY <2>3, <2>8
  <2> QED BY <2>9 DEF ax
<1>9. Loop(k) = [i \in 1 .. 2 * (CallsOf + 1) |->
                IF i <= CallsOf THEN CallOf(s, i)
                ELSE IF i = CallsOf + 1 THEN Check(GoalOf(s))
                ELSE IF i <= CallsOf + 1 + CallsOf THEN CallOf(s + 1, i - CallsOf - 1)
                ELSE Check(GoalOf(s + 1))]
  <2> DEFINE ab == (a \o x) \o b
             e(i) == IF i <= CallsOf THEN CallOf(s, i)
                     ELSE IF i = CallsOf + 1 THEN Check(GoalOf(s))
                     ELSE CallOf(s + 1, i - CallsOf - 1)
  <2>1. ab = [i \in 1 .. CallsOf + 1 + CallsOf |-> e(i)]
    BY <1>8
  <2>2. ab = [i \in 1 .. CallsOf + 1 + CallsOf |-> ab[i]] /\ CallsOf + 1 + CallsOf \in Nat
    <3> HIDE DEF ab, e
    <3> QED BY <1>1, <2>1
  <2>3. y = [i \in 1 .. 1 |-> y[i]]
    BY <1>6
  <2>4. ab \o y = [i \in 1 .. CallsOf + 1 + CallsOf + 1 |->
                     IF i <= CallsOf + 1 + CallsOf THEN ab[i] ELSE y[i - (CallsOf + 1 + CallsOf)]]
    <3> HIDE DEF ab, e
    <3>1. PICK m \in Nat : m = CallsOf + 1 + CallsOf
      BY <2>2
    <3>2. ab \o y = [i \in 1 .. m + 1 |-> IF i <= m THEN ab[i] ELSE y[i - m]]
      BY <2>2, <2>3, <3>1, Joined
    <3> QED BY <3>1, <3>2
  <2>5. \A i \in 1 .. CallsOf + 1 + CallsOf + 1 :
          /\ i <= CallsOf + 1 + CallsOf => ab[i] = e(i)
          /\ ~(i <= CallsOf + 1 + CallsOf) => y[i - (CallsOf + 1 + CallsOf)] = Check(GoalOf(s + 1))
    <3>1. \A i \in 1 .. CallsOf + 1 + CallsOf + 1 :
          ~(i <= CallsOf + 1 + CallsOf) => i - (CallsOf + 1 + CallsOf) \in 1 .. 1
      BY <1>1
    <3> HIDE DEF ab, e
    <3> QED BY <1>1, <1>6, <2>1, <3>1
  <2>6. CallsOf + 1 + CallsOf + 1 = 2 * (CallsOf + 1)
    BY <1>1
  <2>7. Loop(k) = ab \o y
    BY <1>5
  <2> HIDE DEF ab
  <2>8. ab \o y = [i \in 1 .. CallsOf + 1 + CallsOf + 1 |->
                     IF i <= CallsOf + 1 + CallsOf THEN e(i) ELSE Check(GoalOf(s + 1))]
    <3> HIDE DEF e
    <3> QED BY <2>4, <2>5
  <2>9. \A i \in 1 .. CallsOf + 1 + CallsOf + 1 :
          (i <= CallsOf \/ i = CallsOf + 1) => i <= CallsOf + 1 + CallsOf
    BY <1>1
  <2> QED BY <2>6, <2>7, <2>8, <2>9
<1> QED BY <1>9 DEF k

LEMMA ScriptAt ==
    ASSUME mode # "tx"
    PROVE  /\ Len(Script) = 4 * (CallsOf + 1)
           /\ \A s \in 0 .. 3 :
                /\ \A q \in 1 .. CallsOf : Script[Offset(s) + q] = CallOf(s, q)
                /\ Script[Offset(s) + CallsOf + 1] = Check(GoalOf(s))
<1> DEFINE C == CallsOf
           e(s, i) == IF i <= C THEN CallOf(s, i)
                      ELSE IF i = C + 1 THEN Check(GoalOf(s))
                      ELSE IF i <= C + 1 + C THEN CallOf(s + 1, i - C - 1)
                      ELSE Check(GoalOf(s + 1))
           a == Loop(ONE)
           b == Loop(TWO)
           M == 2 * (C + 1)
<1>1. C \in Nat /\ M \in Nat
  BY SizeAssumption DEF CallsOf
<1>2. a = [i \in 1 .. M |-> e(0, i)]
  <2>1. KeyOf(0) = ONE
    BY DEF KeyOf
  <2> QED BY <2>1, LoopIs
<1>3. b = [i \in 1 .. M |-> e(2, i)]
  <2>1. KeyOf(2) = TWO
    BY DEF KeyOf
  <2> QED BY <2>1, LoopIs
<1>4. Script = a \o b
  BY DEF Script
<1>5. Script = [i \in 1 .. M + M |-> IF i <= M THEN a[i] ELSE b[i - M]]
  <2>1. a = [i \in 1 .. M |-> a[i]]
    <3> HIDE DEF a, e
    <3> QED BY <1>2
  <2>2. b = [i \in 1 .. M |-> b[i]]
    <3> HIDE DEF b, e
    <3> QED BY <1>3
  <2> HIDE DEF a, b, M
  <2> QED BY <1>1, <1>4, <2>1, <2>2, Joined
<1>6. Len(Script) = M + M
  <2> HIDE DEF a, b, M
  <2>1. DOMAIN Script = 1 .. M + M
    BY <1>5
  <2> QED BY <1>1, <1>5, <2>1
<1>7. ASSUME NEW i \in 1 .. M PROVE Script[i] = e(0, i) /\ Script[i + M] = e(2, i)
  <2>1. i \in 1 .. M + M /\ i + M \in 1 .. M + M /\ i <= M /\ ~(i + M <= M)
    BY <1>1
  <2>2. Script[i] = a[i] /\ Script[i + M] = b[i]
    <3> HIDE DEF a, b, M
    <3>1. \A j \in 1 .. M + M : Script[j] = IF j <= M THEN a[j] ELSE b[j - M]
      BY <1>5
    <3>2. Script[i + M] = b[(i + M) - M]
      BY <2>1, <3>1
    <3>3. (i + M) - M = i
      BY <1>1
    <3> QED BY <2>1, <3>1, <3>2, <3>3
  <2>3. a[i] = e(0, i) /\ b[i] = e(2, i)
    <3> HIDE DEF a, b, M, e
    <3> QED BY <1>2, <1>3
  <2> QED BY <2>2, <2>3
<1> HIDE DEF a, b
<1>8. ASSUME NEW q \in 1 .. C
      PROVE  /\ Script[q] = CallOf(0, q) /\ Script[C + 1 + q] = CallOf(1, q)
             /\ Script[M + q] = CallOf(2, q) /\ Script[M + (C + 1) + q] = CallOf(3, q)
  <2>1. q \in 1 .. M /\ C + 1 + q \in 1 .. M /\ q <= C
    BY <1>1
  <2>2. ~(C + 1 + q <= C) /\ C + 1 + q # C + 1 /\ C + 1 + q <= C + 1 + C /\ (C + 1 + q) - C - 1 = q
    BY <1>1
  <2>3. e(0, q) = CallOf(0, q) /\ e(2, q) = CallOf(2, q)
    BY <2>1
  <2>4. e(0, C + 1 + q) = CallOf(0 + 1, q) /\ e(2, C + 1 + q) = CallOf(2 + 1, q)
    BY <2>2
  <2>5. q + M = M + q /\ C + 1 + q + M = M + (C + 1) + q
    BY <1>1
  <2> HIDE DEF e, C, M
  <2> QED BY <1>7, <2>1, <2>3, <2>4, <2>5
<1>9. /\ Script[C + 1] = Check(GoalOf(0)) /\ Script[C + 1 + C + 1] = Check(GoalOf(1))
      /\ Script[M + C + 1] = Check(GoalOf(2)) /\ Script[M + (C + 1) + C + 1] = Check(GoalOf(3))
  <2>1. C + 1 \in 1 .. M /\ C + 1 + C + 1 \in 1 .. M /\ ~(C + 1 <= C)
    BY <1>1
  <2>2. ~(C + 1 + C + 1 <= C) /\ C + 1 + C + 1 # C + 1 /\ ~(C + 1 + C + 1 <= C + 1 + C)
    BY <1>1
  <2>3. e(0, C + 1) = Check(GoalOf(0)) /\ e(2, C + 1) = Check(GoalOf(2))
    BY <2>1
  <2>4. e(0, C + 1 + C + 1) = Check(GoalOf(0 + 1)) /\ e(2, C + 1 + C + 1) = Check(GoalOf(2 + 1))
    BY <2>2
  <2>5. C + 1 + M = M + C + 1 /\ C + 1 + C + 1 + M = M + (C + 1) + C + 1
    BY <1>1
  <2> HIDE DEF e, C, M
  <2> QED BY <1>7, <2>1, <2>3, <2>4, <2>5
<1>10. /\ Offset(0) = 0 /\ Offset(1) = C + 1 /\ Offset(2) = M /\ Offset(3) = M + (C + 1)
       /\ M + M = 4 * (C + 1)
  BY <1>1 DEF Offset
<1>11. \A s \in 0 .. 3 : s = 0 \/ s = 1 \/ s = 2 \/ s = 3
  OBVIOUS
<1>12. \A q \in 1 .. C : 0 + q = q
  BY <1>1
<1> HIDE DEF e, C, M
<1>13. \A s \in 0 .. 3 : \A q \in 1 .. C : Script[Offset(s) + q] = CallOf(s, q)
  BY <1>8, <1>10, <1>11, <1>12
<1>14. 0 + C + 1 = C + 1
  BY <1>1
<1>15. \A s \in 0 .. 3 : Script[Offset(s) + C + 1] = Check(GoalOf(s))
  BY <1>9, <1>10, <1>11, <1>14
<1> QED BY <1>6, <1>10, <1>13, <1>15 DEF C

-----------------------------------------------------------------------------
(* The invariant.  Only the filler array changes, and what it holds is right *)
(* up to where the calls and the accelerator have come.                     *)
Modes == {"ecb-multiple", "ecb-single", "ecb-consecutive", "cbc", "ctr", "tx"}

Kept == /\ iv \in Bytes /\ mode \in Modes
        /\ mem = [plain |-> Text, one |-> Reference(ONE), two |-> Reference(TWO),
                  filler |-> mem.filler, iv |-> [i \in 1 .. 1 |-> BlockOf(iv)]]
        /\ mem.filler = [i \in 1 .. N |-> mem.filler[i]]

(* The first n blocks are those that phase s is to give.                    *)
Good(s, n) == \A i \in 1 .. n : mem.filler[i] = mem[GoalOf(s)][i]

(* Inside a call of each kind.  An ECB call starts at some block and hands   *)
(* all of its blocks to the accelerator.                                    *)
EcbAt(s) ==
    /\ key = KeyOf(s)
    /\ \/ at = "start" /\ left = 0 /\ Good(s, call.src[2] - 1)
       \/ /\ at = "poll" /\ left \in 0 .. call.n /\ decrypt = ~Encrypts(s)
          /\ src = <<FromOf(s), call.src[2] + (call.n - left)>>
          /\ dest = <<"filler", call.src[2] + (call.n - left)>>
          /\ Good(s, call.src[2] - 1 + (call.n - left))

(* CBC goes block by block, with the ciphertext before it to chain with.     *)
CbcAt(s) ==
    /\ key = KeyOf(s) /\ done \in 0 .. N - 1 /\ Good(s, done)
    /\ IV = IF done = 0 THEN <<"iv", 1>>
            ELSE <<IF Encrypts(s) THEN "filler" ELSE FromOf(s), done>>

Mixed(s) == mem.filler[done + 1] = Xor(Text[done + 1], Previous(KeyOf(s), done))

CbcEncAt(s) ==
    /\ CbcAt(s)
    /\ \/ at = "xor" /\ left = 0
       \/ at = "start" /\ left = 0 /\ Mixed(s)
       \/ /\ at = "poll" /\ left = 1 /\ ~decrypt /\ Mixed(s)
          /\ src = <<"filler", done + 1>> /\ dest = <<"filler", done + 1>>
       \/ at \in {"poll", "block"} /\ left = 0 /\ Good(s, done + 1)

CbcDecAt(s) ==
    /\ CbcAt(s)
    /\ \/ at = "start" /\ left = 0
       \/ /\ at = "poll" /\ left = 1 /\ decrypt
          /\ src = <<FromOf(s), done + 1>> /\ dest = <<"filler", done + 1>>
       \/ /\ at \in {"poll", "block"} /\ left = 0
          /\ mem.filler[done + 1] = Dec(KeyOf(s), mem[FromOf(s)][done + 1])

(* CTR encrypts the counters in place and mixes the text in afterwards.      *)
Stream(s, i) == Enc(KeyOf(s), Counter(i))

CtrAt(s) ==
    \/ at = "counters" /\ left = 0 /\ done = 0
    \/ at = "start" /\ left = 0 /\ done = 0 /\ \A i \in 1 .. N : mem.filler[i] = Counter(i)
    \/ /\ at = "poll" /\ left \in 0 .. N /\ done = 0 /\ key = KeyOf(s) /\ ~decrypt
       /\ src = <<"filler", 1 + (N - left)>> /\ dest = <<"filler", 1 + (N - left)>>
       /\ \A i \in 1 .. N : mem.filler[i] = IF i <= N - left THEN Stream(s, i) ELSE Counter(i)
    \/ /\ at = "block" /\ left = 0 /\ done \in 0 .. N - 1 /\ key = KeyOf(s) /\ Good(s, done)
       /\ \A i \in done + 1 .. N : mem.filler[i] = Stream(s, i)

(* Where main is: before the call or check after q calls of phase s, inside  *)
(* the q-th call, or at the end.                                            *)
Upto(q) == IF Split \/ q = 0 THEN q ELSE N

Between(s, q) == /\ pc = Offset(s) + q + 1
                 /\ at = "return" /\ left = 0
                 /\ Good(s, Upto(q))
                 /\ q > 0 => key = KeyOf(s)

Within(s, q) == /\ pc = Offset(s) + q + 1
                /\ at # "return" /\ call = CallOf(s, q)
                /\ IF mode = "cbc" THEN IF Encrypts(s) THEN CbcEncAt(s) ELSE CbcDecAt(s)
                   ELSE IF mode = "ctr" THEN CtrAt(s) ELSE EcbAt(s)

Ended == pc = 4 * (CallsOf + 1) + 1 /\ at = "return" /\ left = 0

Testing == \/ \E s \in 0 .. 3, q \in 0 .. CallsOf : Between(s, q)
           \/ \E s \in 0 .. 3, q \in 1 .. CallsOf : Within(s, q)
           \/ Ended

(* These programs leave the interrupts and the baseband alone.              *)
Silent == ~connected /\ handler = "no" /\ radio = "idle" /\ ~done_status

(* The program that sends: the ciphertext, then the packet, then the command *)
(* that makes the baseband load it.                                         *)
TxCall == Aes("ECB_ENC", ONE, "plain", 1, 1)

Ciphering == /\ call = TxCall /\ key = ONE
             /\ \/ at = "start" /\ left = 0
                \/ /\ at = "poll" /\ left = 1 /\ ~decrypt
                   /\ src = <<"plain", 1>> /\ dest = <<"filler", 1>>
                \/ at = "poll" /\ left = 0 /\ mem.filler[1] = mem.one[1]

Whole == <<"header", mem.one[1]>>

(* The parts of Sending, which a step changes one at a time.                 *)
Prepared == \/ at = "return" /\ left = 0 /\ (pc >= 4 => mem.filler[1] = mem.one[1])
            \/ pc = 4 /\ Ciphering
Commanded == /\ pc >= 6 => payload = Whole
             /\ additional_data = IF pc >= 8 THEN "payload" ELSE "none"
             /\ radio \in IF pc >= 9 THEN {"payload", "sending", "sent", "failed"} ELSE {"idle"}
             /\ radio \in {"sending", "sent", "failed"} => air = Whole
Reported == (10 \in pending \/ (handler # "no" /\ irqSource = 10) \/ done_status) => radio = "sent"

Sending == pc \in 1 .. 14 /\ Prepared /\ Commanded /\ Reported

IInv == Kept /\ IF mode = "tx" THEN Sending ELSE Silent /\ Testing

-----------------------------------------------------------------------------
(* What depends on the program and the initial vector alone stays.          *)
ChainFrom(x, k) ==
    CHOOSE c : c = [i \in 0 .. N |-> IF i = 0 THEN x ELSE Enc(k, Xor(Text[i], c[i - 1]))]

FromIV == \A k, x : x = BlockOf(iv) => Cbc(k, Text) = [i \in 1 .. N |-> ChainFrom(x, k)[i]]

LEMMA CbcFrom == FromIV
<1>1. \A k : Cbc(k, Text) = [i \in 1 .. N |-> ChainFrom(BlockOf(iv), k)[i]]
  BY Zenon DEF Cbc, ChainFrom
<1> QED BY <1>1 DEF FromIV

LEMMA CbcFromNext == FromIV'
BY CbcFrom, PTL

LEMMA Lasting ==
    ASSUME UNCHANGED <<iv, mode>>
    PROVE  /\ \A k : Reference(k)' = Reference(k)
           /\ \A k, j : Previous(k, j)' = Previous(k, j)
           /\ \A i : Counter(i)' = Counter(i)
           /\ BlockOf(iv)' = BlockOf(iv)
           /\ CallsOf' = CallsOf /\ SizeOf' = SizeOf /\ Script' = Script
           /\ \A q : Upto(q)' = Upto(q)
           /\ \A s : Offset(s)' = Offset(s)
           /\ \A s, q : CallOf(s, q)' = CallOf(s, q)
<1>1. iv' = iv /\ mode' = mode
  OBVIOUS
<1>2. BlockOf(iv)' = BlockOf(iv) /\ Value(iv)' = Value(iv)
  BY <1>1 DEF BlockOf, Value
<1>3. \A i : Counter(i)' = Counter(i)
  BY <1>2 DEF Counter, Number
<1>4. \A k : Cbc(k, Text)' = Cbc(k, Text)
  <2> TAKE k
  <2>1. PICK x : x = BlockOf(iv) /\ x = BlockOf(iv)'
    BY <1>2
  <2>2. Cbc(k, Text) = [i \in 1 .. N |-> ChainFrom(x, k)[i]]
    BY <2>1, CbcFrom DEF FromIV
  <2>3. Cbc(k, Text)' = [i \in 1 .. N |-> ChainFrom(x, k)[i]]
    BY <2>1, CbcFromNext DEF FromIV
  <2> QED BY <2>2, <2>3
<1>5. \A k : Ctr(k, Text)' = Ctr(k, Text)
  BY <1>2, Zenon DEF Ctr
<1>6. \A k : Reference(k)' = Reference(k)
  BY <1>1, <1>4, <1>5, Zenon DEF Reference
<1>7. \A k, j : Previous(k, j)' = Previous(k, j)
  BY <1>2, <1>6, Zenon DEF Previous
<1>8. CallsOf' = CallsOf /\ SizeOf' = SizeOf /\ Split' = Split
  BY <1>1 DEF CallsOf, SizeOf, Split
<1>9. \A q : Upto(q)' = Upto(q)
  BY <1>8 DEF Upto
<1>10. \A s : Offset(s)' = Offset(s)
  BY <1>8 DEF Offset
<1>11. \A s, q : CallOf(s, q)' = CallOf(s, q)
  BY <1>1, <1>8 DEF CallOf, FnOf, Encrypting, Decrypting
<1>12. Script' = Script
  BY <1>1, Zenon DEF Script, Loop, Calls, Encrypting, Decrypting
<1> QED BY <1>2, <1>3, <1>6, <1>7, <1>8, <1>9, <1>10, <1>11, <1>12

(* The arrays of the programs, and that all but filler stay.                *)
ArrayFacts ==
    /\ mem["plain"] = Text /\ mem["one"] = Reference(ONE) /\ mem["two"] = Reference(TWO)
    /\ mem["iv"][1] = BlockOf(iv)
    /\ \A s \in 0 .. 3 :
         /\ mem[FromOf(s)] = IF Encrypts(s) THEN Text ELSE Reference(KeyOf(s))
         /\ mem[GoalOf(s)] = IF Encrypts(s) THEN Reference(KeyOf(s)) ELSE Text

LEMMA Arrays == Kept => ArrayFacts
<1> SUFFICES ASSUME Kept PROVE ArrayFacts
  OBVIOUS
<1>1. /\ mem["plain"] = Text /\ mem["one"] = Reference(ONE) /\ mem["two"] = Reference(TWO)
      /\ mem["iv"] = [i \in 1 .. 1 |-> BlockOf(iv)]
  BY DEF Kept
<1>2. \A k \in {ONE, TWO} : mem[Expected(k)] = Reference(k)
  BY <1>1 DEF Expected, ONE, TWO
<1>3. ASSUME NEW s \in 0 .. 3
      PROVE  /\ mem[FromOf(s)] = IF Encrypts(s) THEN Text ELSE Reference(KeyOf(s))
             /\ mem[GoalOf(s)] = IF Encrypts(s) THEN Reference(KeyOf(s)) ELSE Text
  <2>1. KeyOf(s) \in {ONE, TWO}
    BY DEF KeyOf
  <2> QED BY <1>1, <1>2, <2>1 DEF FromOf, GoalOf
<1> QED BY <1>1, <1>3 DEF ArrayFacts

LEMMA ArraysNext == Kept' => ArrayFacts'
BY Arrays, PTL

LEMMA ArraysStay ==
    ASSUME Kept, Kept', UNCHANGED <<iv, mode>>, NEW s \in 0 .. 3
    PROVE  mem'[FromOf(s)] = mem[FromOf(s)] /\ mem'[GoalOf(s)] = mem[GoalOf(s)]
<1>1. Reference(KeyOf(s))' = Reference(KeyOf(s))
  BY Lasting
<1> QED BY <1>1, Arrays, ArraysNext DEF ArrayFacts

LEMMA GoodStays ==
    ASSUME Kept, Kept', UNCHANGED <<iv, mode>>, NEW s \in 0 .. 3, NEW n, Good(s, n),
           \A i \in 1 .. n : mem'.filler[i] = mem.filler[i]
    PROVE  Good(s, n)'
BY ArraysStay DEF Good

LEMMA StoreFiller ==
    ASSUME Kept, UNCHANGED <<iv, mode>>, NEW j \in 1 .. N, NEW x,
           mem' = Stored(mem, <<"filler", j>>, x)
    PROVE  /\ Kept'
           /\ mem'.filler[j] = x
           /\ \A i \in 1 .. N : i # j => mem'.filler[i] = mem.filler[i]
<1> DEFINE f == [mem.filler EXCEPT ![j] = x]
           r == [plain |-> Text, one |-> Reference(ONE), two |-> Reference(TWO),
                 filler |-> mem.filler, iv |-> [i \in 1 .. 1 |-> BlockOf(iv)]]
<1>1. mem = r
  BY DEF Kept
<1>2. mem' = [mem EXCEPT !["filler"] = f]
  BY DEF Stored
<1>3. mem' = [plain |-> Text, one |-> Reference(ONE), two |-> Reference(TWO),
              filler |-> f, iv |-> [i \in 1 .. 1 |-> BlockOf(iv)]]
  <2> HIDE DEF f
  <2> QED BY <1>1, <1>2
<1>4. mem'.filler = f
  BY <1>3
<1>5. /\ f = [i \in 1 .. N |-> f[i]] /\ f[j] = x
      /\ \A i \in 1 .. N : i # j => f[i] = mem.filler[i]
  BY DEF Kept
<1>6. Kept'
  <2>1. iv' \in Bytes /\ mode' \in Modes
    BY DEF Kept
  <2>2. /\ Reference(ONE)' = Reference(ONE) /\ Reference(TWO)' = Reference(TWO)
        /\ BlockOf(iv)' = BlockOf(iv)
    BY Lasting
  <2>3. mem' = [plain |-> Text, one |-> Reference(ONE)', two |-> Reference(TWO)',
              filler |-> mem'.filler, iv |-> [i \in 1 .. 1 |-> BlockOf(iv)']]
    <3> HIDE DEF f
    <3> QED BY <1>3, <1>4, <2>2
  <2>4. mem'.filler = [i \in 1 .. N |-> mem'.filler[i]]
    <3> HIDE DEF f
    <3> QED BY <1>4, <1>5
  <2> QED BY <2>1, <2>3, <2>4 DEF Kept
<1> HIDE DEF f
<1> QED BY <1>4, <1>5, <1>6

LEMMA KeepAll ==
    ASSUME Kept, UNCHANGED <<mem, iv, mode>>
    PROVE  Kept'
BY Lasting DEF Kept

-----------------------------------------------------------------------------
(* The calls of the programs, one by one.                                   *)
IsCall(s, q, c) ==
    /\ c.op = "aes" /\ c.key = KeyOf(s) /\ c.n = SizeOf
    /\ c.src = <<FromOf(s), c.src[2]>> /\ c.dest = <<"filler", c.src[2]>>
    /\ c.src[2] \in 1 .. N /\ SizeOf \in 1 .. N
    /\ c.src[2] - 1 = Upto(q - 1) /\ c.src[2] - 1 + SizeOf = Upto(q)
    /\ Upto(q) \in 1 .. N
    /\ mode = "cbc" => c.fn = IF Encrypts(s) THEN "CBC_ENC" ELSE "CBC_DEC"
    /\ mode = "ctr" => c.fn = "CTR"
    /\ mode \in {"cbc", "ctr"} => c.src[2] = 1 /\ SizeOf = N /\ ~NoKey(c)
    /\ mode \notin {"cbc", "ctr"} =>
         /\ ~Chained(c.fn) /\ c.fn # "CTR" /\ (Decrypts(c.fn) <=> ~Encrypts(s))
         /\ NoKey(c) => q > 1

LEMMA CallFacts ==
    ASSUME mode \in Modes, mode # "tx", NEW s \in 0 .. 3, NEW q \in 1 .. CallsOf
    PROVE  IsCall(s, q, CallOf(s, q))
<1>c. PICK c : c = CallOf(s, q)
  OBVIOUS
<1> DEFINE b == IF Split THEN q ELSE 1
<1>1. /\ c.op = "aes" /\ c.key = KeyOf(s) /\ c.n = SizeOf /\ c.fn = FnOf(s, q)
      /\ c.src = <<FromOf(s), b>> /\ c.dest = <<"filler", b>>
  BY <1>c DEF CallOf, Aes
<1>2. c.src[2] = b
  BY <1>1
<1>3. N \in Nat /\ N >= 1 /\ q \in Int
  BY SizeAssumption DEF CallsOf
<1>4. b \in 1 .. N /\ SizeOf \in 1 .. N
  BY <1>3 DEF CallsOf, SizeOf
<1>5. /\ b - 1 = Upto(q - 1) /\ b - 1 + SizeOf = Upto(q) /\ Upto(q) \in 1 .. N
  BY <1>3 DEF CallsOf, SizeOf, Upto
<1>6. mode \in {"cbc", "ctr"} => ~Split
  BY DEF Split
<1>7. /\ mode = "cbc" => c.fn = IF Encrypts(s) THEN "CBC_ENC" ELSE "CBC_DEC"
      /\ mode = "ctr" => c.fn = "CTR"
  BY <1>1 DEF FnOf, Encrypting, Decrypting
<1>8. mode \notin {"cbc", "ctr"} =>
         /\ c.fn \in IF Encrypts(s) THEN {"ECB_ENC", "NO_KEY_ENC"} ELSE {"ECB_DEC", "NO_KEY_DEC"}
         /\ c.fn \in {"NO_KEY_ENC", "NO_KEY_DEC"} => q > 1
  BY <1>1 DEF FnOf, Encrypting, Decrypting
<1> HIDE DEF b
<1>9. mode \in {"cbc", "ctr"} => b = 1 /\ SizeOf = N /\ ~NoKey(c)
  BY <1>6, <1>7 DEF b, SizeOf, NoKey
<1>10. mode \notin {"cbc", "ctr"} =>
                /\ ~Chained(c.fn) /\ c.fn # "CTR" /\ (Decrypts(c.fn) <=> ~Encrypts(s))
                /\ NoKey(c) => q > 1
  BY <1>8 DEF Chained, Decrypts, NoKey
<1> QED BY <1>c, <1>1, <1>2, <1>4, <1>5, <1>7, <1>9, <1>10 DEF IsCall

(* Where main can be when it is between two operations, and what is next.    *)
LEMMA NextOperation ==
    ASSUME Kept, mode # "tx", Testing, at = "return", pc <= Len(Script)
    PROVE  \E s \in 0 .. 3, q \in 0 .. CallsOf :
             /\ Between(s, q)
             /\ Script[pc] = IF q < CallsOf THEN CallOf(s, q + 1) ELSE Check(GoalOf(s))
<1>1. CallsOf \in Nat
  BY SizeAssumption DEF CallsOf
<1>2. ~Ended
  BY <1>1, ScriptAt DEF Ended
<1>3. PICK s \in 0 .. 3, q \in 0 .. CallsOf : Between(s, q)
  BY <1>2 DEF Testing, Within
<1>4. Offset(s) \in Nat
  BY <1>1 DEF Offset
<1>5. CASE q < CallsOf
  <2>1. q + 1 \in 1 .. CallsOf /\ pc = Offset(s) + (q + 1)
    BY <1>1, <1>3, <1>4, <1>5 DEF Between
  <2> QED BY <1>3, <1>5, <2>1, ScriptAt
<1>6. CASE q = CallsOf
  <2>1. pc = Offset(s) + CallsOf + 1 /\ ~(q < CallsOf)
    BY <1>1, <1>3, <1>6 DEF Between
  <2> QED BY <1>3, <2>1, ScriptAt
<1> QED BY <1>1, <1>5, <1>6

LEMMA CheckStep ==
    ASSUME Kept, mode # "tx", Testing, CheckBytes
    PROVE  Kept' /\ Testing'
<1>1. /\ at = "return" /\ pc <= Len(Script) /\ Script[pc].op = "check" /\ pc' = pc + 1
      /\ UNCHANGED <<mode, mem, key, left, at, iv>>
  BY DEF CheckBytes, Main, Reaches, aesVars, accelerator, driver
<1>2. Kept'
  BY <1>1, KeepAll
<1>3. PICK s \in 0 .. 3, q \in 0 .. CallsOf :
             /\ Between(s, q)
             /\ Script[pc] = IF q < CallsOf THEN CallOf(s, q + 1) ELSE Check(GoalOf(s))
  BY <1>1, NextOperation
<1>4. CallsOf \in Nat
  BY SizeAssumption DEF CallsOf
<1>5. q = CallsOf
  <2>1. ASSUME q < CallsOf PROVE Script[pc].op = "aes"
    <3>1. PICK r \in 1 .. CallsOf : r = q + 1
      BY <1>4, <2>1
    <3>2. IsCall(s, r, CallOf(s, r))
      BY CallFacts DEF Kept
    <3> QED BY <1>3, <2>1, <3>1, <3>2 DEF IsCall
  <2> QED BY <1>1, <1>4, <2>1
<1>6. CallsOf' = CallsOf /\ \A r : Offset(r)' = Offset(r)
  BY <1>1, Lasting
<1>7. CASE s = 3
  <2>1. pc' = 4 * (CallsOf + 1) + 1
    BY <1>1, <1>3, <1>4, <1>5, <1>7 DEF Between, Offset
  <2>2. Ended'
    BY <1>1, <1>3, <1>6, <2>1 DEF Ended, Between
  <2> QED BY <1>2, <2>2 DEF Testing
<1>8. CASE s # 3
  <2>1. s + 1 \in 0 .. 3 /\ pc' = Offset(s + 1) + 0 + 1
    BY <1>1, <1>3, <1>4, <1>5, <1>8 DEF Between, Offset
  <2>2. Good(s + 1, Upto(0))'
    BY DEF Good, Upto
  <2>3. Between(s + 1, 0)'
    BY <1>1, <1>3, <1>6, <2>1, <2>2 DEF Between
  <2>4. 0 \in 0 .. CallsOf'
    BY <1>4, <1>6
  <2> QED BY <1>2, <2>1, <2>3, <2>4 DEF Testing
<1> QED BY <1>7, <1>8

LEMMA CallStep ==
    ASSUME Kept, mode # "tx", Testing, CallAes
    PROVE  Kept' /\ Testing'
<1>1. /\ at = "return" /\ pc <= Len(Script) /\ Script[pc].op = "aes" /\ pc' = pc + 1
      /\ UNCHANGED <<mode, mem, left, iv>> /\ Call(Script[pc])
  BY DEF CallAes, Main, Reaches, Call
<1>2. Kept'
  BY <1>1, KeepAll
<1>3. PICK s \in 0 .. 3, q \in 0 .. CallsOf :
             /\ Between(s, q)
             /\ Script[pc] = IF q < CallsOf THEN CallOf(s, q + 1) ELSE Check(GoalOf(s))
  BY <1>1, NextOperation
<1>4. CallsOf \in Nat
  BY SizeAssumption DEF CallsOf
<1>5. q < CallsOf /\ q + 1 \in 1 .. CallsOf
  <2>1. Check(GoalOf(s)).op # "aes"
    BY DEF Check
  <2> QED BY <1>1, <1>3, <1>4, <2>1
<1>6. PICK r \in 1 .. CallsOf : r = q + 1 /\ r - 1 = q
  BY <1>5
<1>c. PICK c : c = CallOf(s, r)
  OBVIOUS
<1>7. Call(c)
  BY <1>1, <1>3, <1>5, <1>6, <1>c
<1>8. IsCall(s, r, c)
  BY <1>c, CallFacts DEF Kept
<1>9. left = 0 /\ (r > 1 => key = KeyOf(s)) /\ Good(s, c.src[2] - 1)
  BY <1>3, <1>4, <1>6, <1>8 DEF Between, IsCall
<1>10. /\ call' = c /\ done' = 0 /\ IV' = <<"iv", 1>> /\ left' = 0
       /\ at' = IF c.fn = "CBC_ENC" THEN "xor" ELSE IF c.fn = "CTR" THEN "counters" ELSE "start"
       /\ c.fn # "CTR" => key' = KeyOf(s)
  BY <1>4, <1>7, <1>8, <1>9 DEF Call, KeySetup, IsCall
<1>11. \A n : Good(s, n) => Good(s, n)'
  BY <1>1, <1>2, GoodStays
<1>12. N - 1 \in Nat /\ 0 \in 0 .. N - 1
  BY SizeAssumption
<1>13. ASSUME mode = "cbc" PROVE IF Encrypts(s) THEN CbcEncAt(s)' ELSE CbcDecAt(s)'
  <2>1. CbcAt(s)'
    <3>1. c.src[2] - 1 = 0
      BY <1>8, <1>13 DEF IsCall
    <3> QED BY <1>8, <1>9, <1>10, <1>11, <1>12, <1>13, <3>1 DEF CbcAt, IsCall
  <2> QED BY <1>8, <1>10, <1>13, <2>1 DEF CbcEncAt, CbcDecAt, IsCall
<1>14. ASSUME mode = "ctr" PROVE CtrAt(s)'
  BY <1>8, <1>10, <1>14 DEF CtrAt, IsCall
<1>15. ASSUME mode \notin {"cbc", "ctr"} PROVE EcbAt(s)'
  <2>1. c.fn # "CBC_ENC"
    BY <1>8, <1>15 DEF Chained, IsCall
  <2> QED BY <1>8, <1>9, <1>10, <1>11, <1>15, <2>1 DEF EcbAt, IsCall
<1>16. /\ CallsOf' = CallsOf /\ Offset(s)' = Offset(s)
       /\ CallOf(s, r)' = CallOf(s, r)
  BY <1>1, Lasting
<1>17. pc' = Offset(s) + r + 1
  <2>1. Offset(s) \in Nat
    BY <1>4 DEF Offset
  <2> QED BY <1>1, <1>3, <1>4, <1>6, <2>1 DEF Between
<1>18. at' # "return"
  BY <1>10
<1>19. Within(s, r)'
  BY <1>1, <1>c, <1>10, <1>13, <1>14, <1>15, <1>16, <1>17, <1>18 DEF Within
<1> QED BY <1>2, <1>5, <1>16, <1>19 DEF Testing

-----------------------------------------------------------------------------
(* The steps inside a call: each leads on inside it, or back to main with    *)
(* its blocks right.                                                        *)
Inside(s) == IF mode = "cbc" THEN IF Encrypts(s) THEN CbcEncAt(s) ELSE CbcDecAt(s)
             ELSE IF mode = "ctr" THEN CtrAt(s) ELSE EcbAt(s)
Back(s, n) == at = "return" /\ left = 0 /\ key = KeyOf(s) /\ Good(s, n)
Same == UNCHANGED <<iv, mode, pc, call>>

LEMMA StepWithin ==
    ASSUME mode # "tx", NEW s \in 0 .. 3, NEW q \in 1 .. CallsOf, Within(s, q), Same,
           (at # "return" /\ Inside(s))' \/ Back(s, Upto(q))'
    PROVE  Testing'
<1>1. /\ CallsOf' = CallsOf /\ Offset(s)' = Offset(s) /\ CallOf(s, q)' = CallOf(s, q)
      /\ Upto(q)' = Upto(q)
  BY Lasting DEF Same
<1>2. q \in 0 .. CallsOf
  BY SizeAssumption DEF CallsOf
<1>3. CASE (at # "return" /\ Inside(s))'
  <2>1. Within(s, q)'
    BY <1>1, <1>3 DEF Within, Inside, Same
  <2> QED BY <1>1, <2>1 DEF Testing
<1>4. CASE Back(s, Upto(q))'
  <2>1. Between(s, q)'
    BY <1>1, <1>4 DEF Between, Back, Within, Same
  <2> QED BY <1>1, <1>2, <2>1 DEF Testing
<1> QED BY <1>3, <1>4

LEMMA EcbWork ==
    ASSUME Kept, mode \notin {"cbc", "ctr", "tx"}, NEW s \in 0 .. 3, NEW q \in 1 .. CallsOf,
           Within(s, q), Work, Same
    PROVE  Kept' /\ (at # "return" /\ Inside(s))'
<1>1. IsCall(s, q, call) /\ EcbAt(s)
  BY CallFacts DEF Kept, Within
<1>2. PICK b \in 1 .. N, n \in 1 .. N : b = call.src[2] /\ n = call.n /\ b - 1 + n <= N
  <2>1. /\ call.src[2] \in 1 .. N /\ call.n \in 1 .. N
        /\ call.src[2] - 1 + call.n = Upto(q) /\ Upto(q) \in 1 .. N
    BY <1>1 DEF IsCall
  <2> QED BY <2>1
<1>3. /\ left \in 1 .. n /\ at = "poll" /\ key = KeyOf(s) /\ decrypt = ~Encrypts(s)
      /\ src = <<FromOf(s), b + (n - left)>> /\ dest = <<"filler", b + (n - left)>>
      /\ Good(s, b - 1 + (n - left))
  BY <1>1, <1>2 DEF EcbAt, Work
<1>4. N \in Nat
  BY SizeAssumption
<1>5. PICK j \in 1 .. N : j = b + (n - left) /\ j - 1 = b - 1 + (n - left)
  BY <1>2, <1>3, <1>4
<1>6. PICK x : x = IF decrypt THEN Dec(key, At(src)) ELSE Enc(key, At(src))
  OBVIOUS
<1>7. mem' = Stored(mem, <<"filler", j>>, x)
  BY <1>3, <1>5, <1>6 DEF Work
<1>8. /\ Kept' /\ mem'.filler[j] = x
      /\ \A i \in 1 .. N : i # j => mem'.filler[i] = mem.filler[i]
  BY <1>7, StoreFiller DEF Same
<1>9. x = mem[GoalOf(s)][j]
  <2>1. At(src) = mem[FromOf(s)][j]
    BY <1>3, <1>5 DEF At
  <2>2. /\ mem[FromOf(s)] = IF Encrypts(s) THEN Text ELSE Reference(KeyOf(s))
        /\ mem[GoalOf(s)] = IF Encrypts(s) THEN Reference(KeyOf(s)) ELSE Text
    BY Arrays DEF ArrayFacts
  <2>3. /\ Enc(KeyOf(s), Text[j]) = Reference(KeyOf(s))[j]
        /\ Dec(KeyOf(s), Reference(KeyOf(s))[j]) = Text[j]
    BY EcbFacts
  <2> QED BY <1>3, <1>6, <2>1, <2>2, <2>3
<1>10. Good(s, j)'
  <2>1. mem'[GoalOf(s)] = mem[GoalOf(s)]
    BY <1>8, ArraysStay DEF Same
  <2>2. \A i \in 1 .. j : i = j \/ (i \in 1 .. j - 1 /\ i \in 1 .. N)
    BY <1>4
  <2> QED BY <1>3, <1>5, <1>8, <1>9, <2>1, <2>2 DEF Good
<1>11. /\ left' = left - 1 /\ at' = "poll" /\ key' = key /\ decrypt' = decrypt
       /\ src' = <<FromOf(s), b + (n - left) + 1>> /\ dest' = <<"filler", b + (n - left) + 1>>
  BY <1>3 DEF Work, Plus, driver
<1>12. /\ b + (n - left) + 1 = b + (n - left') /\ b - 1 + (n - left') = j
       /\ left' \in 0 .. n
  BY <1>2, <1>3, <1>4, <1>5, <1>11
<1>13. EcbAt(s)'
  BY <1>2, <1>3, <1>10, <1>11, <1>12 DEF EcbAt, Same
<1> QED BY <1>8, <1>11, <1>13 DEF Inside, Same

LEMMA EcbStep ==
    ASSUME Kept, mode \notin {"cbc", "ctr", "tx"}, NEW s \in 0 .. 3, NEW q \in 1 .. CallsOf,
           Within(s, q), DriverStep, Same
    PROVE  Kept' /\ ((at # "return" /\ Inside(s))' \/ Back(s, Upto(q))')
<1>1. IsCall(s, q, call) /\ EcbAt(s)
  BY CallFacts DEF Kept, Within
<1>2. ~Chained(call.fn) /\ call.fn # "CTR" /\ (Decrypts(call.fn) <=> ~Encrypts(s))
  BY <1>1 DEF IsCall
<1>3. at \in {"start", "poll"} /\ key = KeyOf(s)
  BY <1>1 DEF EcbAt
<1>4. PICK b \in 1 .. N, n \in 1 .. N : b = call.src[2] /\ n = call.n /\ b - 1 + n = Upto(q)
  BY <1>1 DEF IsCall
<1>n. N \in Nat
  BY SizeAssumption
<1>5. CASE Start
  <2>1. left = 0 /\ Good(s, b - 1)
    BY <1>1, <1>4, <1>5 DEF EcbAt, Start
  <2>2. /\ src' = call.src /\ dest' = call.dest /\ left' = n /\ decrypt' = Decrypts(call.fn)
        /\ key' = key /\ at' = "poll" /\ mem' = mem
    BY <1>2, <1>4, <1>5, <2>1 DEF Start, Load, Chained
  <2>3. Kept'
    BY <2>2, KeepAll DEF Same
  <2>4. Good(s, b - 1)'
    BY <2>1, <2>2, <2>3, GoodStays DEF Same
  <2>5. call.src = <<FromOf(s), b>> /\ call.dest = <<"filler", b>>
    BY <1>1, <1>4 DEF IsCall
  <2>6. n - left' = 0 /\ b + 0 = b /\ b - 1 + 0 = b - 1 /\ left' \in 0 .. n
    BY <1>n, <2>2
  <2>7. EcbAt(s)'
    <3>1. /\ src' = <<FromOf(s), b + (n - left')>> /\ dest' = <<"filler", b + (n - left')>>
          /\ decrypt' = ~Encrypts(s) /\ key' = KeyOf(s)
      BY <1>2, <1>3, <2>2, <2>5, <2>6 DEF Decrypts
    <3>2. PICK m : m = b - 1 + (n - left') /\ m = b - 1
      BY <2>6
    <3>3. Good(s, m)'
      BY <2>4, <3>2
    <3> QED BY <1>4, <2>2, <2>6, <3>1, <3>2, <3>3 DEF EcbAt, Same
  <2> QED BY <2>2, <2>3, <2>7 DEF Inside, Same
<1>6. CASE Poll
  <2>1. /\ left = 0 /\ at' = "return" /\ mem' = mem /\ key' = key /\ left' = left
        /\ Good(s, b - 1 + n)
    <3>1. left = 0 /\ at = "poll"
      BY <1>6 DEF Poll, PollEnds
    <3>2. n - left = n
      BY <1>n, <3>1
    <3> QED BY <1>1, <1>2, <1>4, <1>6, <3>1, <3>2 DEF EcbAt, Poll, accelerator
  <2>2. Kept'
    BY <2>1, KeepAll DEF Same
  <2>3. Good(s, b - 1 + n)'
    BY <2>1, <2>2, GoodStays DEF Same
  <2>4. Upto(q)' = Upto(q)
    BY Lasting DEF Same
  <2> QED BY <1>3, <1>4, <2>1, <2>2, <2>3, <2>4 DEF Back
<1> QED BY <1>2, <1>3, <1>5, <1>6 DEF DriverStep, XorBefore, ChainBlock, Counters, XorText

(* CBC.                                                                     *)
LEMMA CbcCall ==
    ASSUME Kept, mode = "cbc", NEW s \in 0 .. 3, NEW q \in 1 .. CallsOf, Within(s, q)
    PROVE  /\ call.fn = IF Encrypts(s) THEN "CBC_ENC" ELSE "CBC_DEC"
           /\ call.n = N /\ Upto(q) = N /\ CbcAt(s)
           /\ \E d \in 1 .. N :
                /\ d = done + 1 /\ d - 1 = done
                /\ From = <<FromOf(s), d>> /\ To = <<"filler", d>>
<1>1. IsCall(s, q, call) /\ CbcAt(s)
  BY CallFacts DEF Kept, Within, CbcEncAt, CbcDecAt
<1>2. N \in Nat
  BY SizeAssumption
<1>3. PICK d \in 1 .. N : d = done + 1 /\ d - 1 = done /\ d = 1 + done
  BY <1>1, <1>2 DEF CbcAt
<1>4. call.src = <<FromOf(s), 1>> /\ call.dest = <<"filler", 1>> /\ call.n = N
  BY <1>1 DEF IsCall
<1>5. From = <<FromOf(s), d>> /\ To = <<"filler", d>>
  BY <1>3, <1>4 DEF From, To, Plus
<1>6. Upto(q) = N
  <2>1. 1 - 1 + N = Upto(q)
    BY <1>1 DEF IsCall
  <2> QED BY <1>2, <2>1
<1> QED BY <1>1, <1>3, <1>4, <1>5, <1>6 DEF IsCall

LEMMA PreviousIs ==
    ASSUME Kept, mode = "cbc", NEW s \in 0 .. 3, CbcAt(s)
    PROVE  At(IV) = Previous(KeyOf(s), done)
<1>1. CASE done = 0
  BY <1>1, Arrays DEF ArrayFacts, CbcAt, At, Previous
<1>2. CASE done # 0
  <2>1. done \in 1 .. done /\ IV = <<IF Encrypts(s) THEN "filler" ELSE FromOf(s), done>>
    BY <1>2, SizeAssumption DEF CbcAt
  <2>2. /\ mem[FromOf(s)] = IF Encrypts(s) THEN Text ELSE Reference(KeyOf(s))
        /\ mem[GoalOf(s)] = IF Encrypts(s) THEN Reference(KeyOf(s)) ELSE Text
    BY Arrays DEF ArrayFacts
  <2>3. mem["filler"][done] = mem[GoalOf(s)][done]
    BY <2>1 DEF CbcAt, Good
  <2> QED BY <1>2, <2>1, <2>2, <2>3 DEF At, Previous
<1> QED BY <1>1, <1>2

(* Where one more block is done, the ones before it are still right.        *)
LEMMA StoreNext ==
    ASSUME Kept, UNCHANGED <<iv, mode>>, NEW s \in 0 .. 3, NEW d \in 1 .. N, NEW x,
           Good(s, d - 1), mem' = Stored(mem, <<"filler", d>>, x)
    PROVE  /\ Kept' /\ mem'.filler[d] = x /\ Good(s, d - 1)'
           /\ x = mem[GoalOf(s)][d] => Good(s, d)'
           /\ mem'[FromOf(s)] = mem[FromOf(s)]
<1>1. /\ Kept' /\ mem'.filler[d] = x
      /\ \A i \in 1 .. N : i # d => mem'.filler[i] = mem.filler[i]
  BY StoreFiller
<1>2. N \in Nat
  BY SizeAssumption
<1>3. \A i \in 1 .. d - 1 : i \in 1 .. N /\ i # d
  BY <1>2
<1>4. Good(s, d - 1)'
  BY <1>1, <1>3, GoodStays
<1>5. \A i \in 1 .. d : i = d \/ i \in 1 .. d - 1
  BY <1>2
<1>6. mem'[FromOf(s)] = mem[FromOf(s)] /\ mem'[GoalOf(s)] = mem[GoalOf(s)]
  BY <1>1, ArraysStay
<1> QED BY <1>1, <1>4, <1>5, <1>6 DEF Good

LEMMA CbcWork ==
    ASSUME Kept, mode = "cbc", NEW s \in 0 .. 3, NEW q \in 1 .. CallsOf,
           Within(s, q), Work, Same
    PROVE  Kept' /\ (at # "return" /\ Inside(s))'
<1>1. CbcAt(s) /\ IF Encrypts(s) THEN CbcEncAt(s) ELSE CbcDecAt(s)
  BY CbcCall DEF Within
<1>2. PICK d \in 1 .. N : d = done + 1 /\ d - 1 = done
  BY CbcCall
<1>3. /\ left = 1 /\ at = "poll" /\ key = KeyOf(s) /\ Good(s, d - 1)
      /\ decrypt <=> ~Encrypts(s)
      /\ src = <<IF Encrypts(s) THEN "filler" ELSE FromOf(s), d>> /\ dest = <<"filler", d>>
      /\ Encrypts(s) => mem.filler[d] = Xor(Text[d], Previous(KeyOf(s), done))
  BY <1>1, <1>2 DEF CbcEncAt, CbcDecAt, CbcAt, Mixed, Work
<1>4. PICK x : x = IF decrypt THEN Dec(key, At(src)) ELSE Enc(key, At(src))
  OBVIOUS
<1>5. /\ mem' = Stored(mem, <<"filler", d>>, x)
      /\ left' = 0 /\ UNCHANGED <<at, key, done, IV>>
  BY <1>3, <1>4 DEF Work, driver
<1>6. /\ Kept' /\ mem'.filler[d] = x /\ Good(s, d - 1)'
      /\ x = mem[GoalOf(s)][d] => Good(s, d)'
      /\ mem'[FromOf(s)] = mem[FromOf(s)]
  BY <1>3, <1>5, StoreNext DEF Same
<1>7. CbcAt(s)'
  <2>1. Good(s, done)'
    BY <1>2, <1>5, <1>6
  <2> QED BY <1>1, <1>5, <2>1 DEF CbcAt
<1>8. ASSUME Encrypts(s) PROVE CbcEncAt(s)'
  <2>1. x = Enc(KeyOf(s), Xor(Text[d], Previous(KeyOf(s), done)))
    BY <1>3, <1>4, <1>8 DEF At
  <2>2. x = mem[GoalOf(s)][d]
    <3>1. x = Reference(KeyOf(s))[d]
      BY <1>2, <2>1, CbcFacts
    <3> QED BY <1>8, <3>1, Arrays DEF ArrayFacts
  <2>3. Good(s, done + 1)'
    BY <1>2, <1>5, <1>6, <2>2
  <2> QED BY <1>3, <1>5, <1>7, <2>3 DEF CbcEncAt
<1>9. ASSUME ~Encrypts(s) PROVE CbcDecAt(s)'
  <2>1. x = Dec(KeyOf(s), mem[FromOf(s)][d])
    BY <1>3, <1>4, <1>9 DEF At
  <2>2. mem'.filler[done + 1] = Dec(KeyOf(s), mem'[FromOf(s)][done + 1])
    BY <1>2, <1>6, <2>1
  <2> QED BY <1>3, <1>5, <1>7, <2>2 DEF CbcDecAt
<1> QED BY <1>3, <1>5, <1>6, <1>8, <1>9 DEF Inside, Same

LEMMA CbcStart ==
    ASSUME Kept, mode = "cbc", NEW s \in 0 .. 3, NEW q \in 1 .. CallsOf,
           Within(s, q), XorBefore \/ Start \/ Poll, Same
    PROVE  Kept' /\ (at # "return" /\ Inside(s))'
<1>1. /\ CbcAt(s) /\ IF Encrypts(s) THEN CbcEncAt(s) ELSE CbcDecAt(s)
      /\ call.fn = IF Encrypts(s) THEN "CBC_ENC" ELSE "CBC_DEC"
  BY CbcCall DEF Within
<1>2. PICK d \in 1 .. N : /\ d = done + 1 /\ d - 1 = done
                          /\ From = <<FromOf(s), d>> /\ To = <<"filler", d>>
  BY CbcCall
<1>3. ASSUME UNCHANGED <<mem, key, done, IV>>
      PROVE  Kept' /\ CbcAt(s)' /\ (\A n : Good(s, n) => Good(s, n)')
             /\ mem'[FromOf(s)] = mem[FromOf(s)] /\ Mixed(s)' = Mixed(s)
  <2>1. Kept'
    BY <1>3, KeepAll DEF Same
  <2>2. \A n : Good(s, n) => Good(s, n)'
    BY <1>3, <2>1, GoodStays DEF Same
  <2>3. CbcAt(s)'
    BY <1>1, <1>3, <2>2 DEF CbcAt
  <2>4. Previous(KeyOf(s), done)' = Previous(KeyOf(s), done)
    BY <1>3, Lasting DEF Same
  <2>5. Mixed(s)' = Mixed(s)
    BY <1>3, <2>4 DEF Mixed
  <2> QED BY <1>3, <2>1, <2>2, <2>3, <2>5
<1>4. CASE XorBefore
  <2>1. at = "xor" /\ Encrypts(s) /\ left = 0 /\ Good(s, d - 1)
    BY <1>1, <1>2, <1>4 DEF XorBefore, CbcEncAt, CbcDecAt, CbcAt
  <2>2. PICK x : x = Xor(At(From), At(IV))
    OBVIOUS
  <2>3. /\ mem' = Stored(mem, <<"filler", d>>, x)
        /\ at' = "start" /\ UNCHANGED <<key, done, IV, left>>
    BY <1>2, <1>4, <2>2 DEF XorBefore, accelerator
  <2>4. Kept' /\ mem'.filler[d] = x /\ Good(s, d - 1)'
    BY <2>1, <2>3, StoreNext DEF Same
  <2>5. CbcAt(s)'
    <3>1. Good(s, done)'
      BY <1>2, <2>3, <2>4
    <3> QED BY <1>1, <2>3, <3>1 DEF CbcAt
  <2>6. x = Xor(Text[d], Previous(KeyOf(s), done))
    <3>1. At(IV) = Previous(KeyOf(s), done)
      BY <1>1, PreviousIs
    <3>2. At(From) = Text[d]
      BY <1>2, <2>1, Arrays DEF ArrayFacts, At
    <3> QED BY <2>2, <3>1, <3>2
  <2>7. Mixed(s)'
    <3>1. Previous(KeyOf(s), done)' = Previous(KeyOf(s), done)
      BY <2>3, Lasting DEF Same
    <3> QED BY <1>2, <2>3, <2>4, <2>6, <3>1 DEF Mixed
  <2>8. CbcEncAt(s)'
    BY <2>1, <2>3, <2>5, <2>7 DEF CbcEncAt
  <2> QED BY <2>1, <2>3, <2>4, <2>8 DEF Inside, Same
<1>5. CASE Start
  <2>1. at = "start" /\ left = 0 /\ (Encrypts(s) => Mixed(s))
    BY <1>1, <1>5 DEF Start, CbcEncAt, CbcDecAt
  <2>2. /\ UNCHANGED <<mem, key, done, IV>> /\ at' = "poll" /\ left' = 1
        /\ src' = <<IF Encrypts(s) THEN "filler" ELSE FromOf(s), d>> /\ dest' = <<"filler", d>>
        /\ decrypt' = ~Encrypts(s)
    <3>1. /\ UNCHANGED <<mem, key, done, IV>> /\ at' = "poll"
          /\ IF Encrypts(s) THEN Load(To, To, 1, FALSE) ELSE Load(From, To, 1, TRUE)
      BY <1>1, <1>5 DEF Start, Chained
    <3> QED BY <1>2, <2>1, <3>1 DEF Load
  <2>3. CASE Encrypts(s)
    <3>1. CbcEncAt(s)'
      BY <1>2, <1>3, <2>1, <2>2, <2>3 DEF CbcEncAt
    <3> QED BY <1>3, <2>2, <2>3, <3>1 DEF Inside, Same
  <2>4. CASE ~Encrypts(s)
    <3>1. CbcDecAt(s)'
      BY <1>2, <1>3, <2>1, <2>2, <2>4 DEF CbcDecAt
    <3> QED BY <1>3, <2>2, <2>4, <3>1 DEF Inside, Same
  <2> QED BY <2>3, <2>4
<1>6. CASE Poll
  <2>1. /\ at = "poll" /\ left = 0 /\ at' = "block" /\ left' = 0
        /\ UNCHANGED <<mem, key, done, IV>>
    BY <1>1, <1>6 DEF Poll, PollEnds, Chained, accelerator
  <2>2. CASE Encrypts(s)
    <3>1. Good(s, done + 1)
      BY <1>1, <2>1, <2>2 DEF CbcEncAt
    <3>2. Good(s, done + 1)'
      BY <1>3, <2>1, <3>1
    <3>3. CbcEncAt(s)'
      BY <1>3, <2>1, <3>2 DEF CbcEncAt
    <3> QED BY <1>3, <2>1, <2>2, <3>3 DEF Inside, Same
  <2>3. CASE ~Encrypts(s)
    <3>1. CbcDecAt(s)'
      BY <1>1, <1>3, <2>1, <2>3 DEF CbcDecAt
    <3> QED BY <1>3, <2>1, <2>3, <3>1 DEF Inside, Same
  <2> QED BY <2>2, <2>3
<1> QED BY <1>4, <1>5, <1>6

LEMMA CbcBlock ==
    ASSUME Kept, mode = "cbc", NEW s \in 0 .. 3, NEW q \in 1 .. CallsOf,
           Within(s, q), ChainBlock, Same
    PROVE  Kept' /\ ((at # "return" /\ Inside(s))' \/ Back(s, Upto(q))')
<1>1. /\ CbcAt(s) /\ IF Encrypts(s) THEN CbcEncAt(s) ELSE CbcDecAt(s)
      /\ call.fn = IF Encrypts(s) THEN "CBC_ENC" ELSE "CBC_DEC"
      /\ call.n = N /\ Upto(q) = N
  BY CbcCall DEF Within
<1>2. PICK d \in 1 .. N : /\ d = done + 1 /\ d - 1 = done
                          /\ From = <<FromOf(s), d>> /\ To = <<"filler", d>>
  BY CbcCall
<1>3. /\ at = "block" /\ left = 0 /\ key = KeyOf(s)
      /\ left' = 0 /\ key' = key /\ done' = d
      /\ at' = IF d = N THEN "return" ELSE IF Encrypts(s) THEN "xor" ELSE "start"
      /\ IV' = <<IF Encrypts(s) THEN "filler" ELSE FromOf(s), d>>
  BY <1>1, <1>2 DEF ChainBlock, CbcEncAt, CbcDecAt, CbcAt, NextIV, accelerator
<1>4. Kept' /\ Good(s, d)'
  <2>1. CASE Encrypts(s)
    <3>1. mem' = mem /\ Good(s, d)
      BY <1>1, <1>2, <1>3, <2>1 DEF ChainBlock, CbcEncAt
    <3>2. Kept'
      BY <3>1, KeepAll DEF Same
    <3> QED BY <3>1, <3>2, GoodStays DEF Same
  <2>2. CASE ~Encrypts(s)
    <3>1. PICK x : x = Xor(At(To), At(IV))
      OBVIOUS
    <3>2. mem' = Stored(mem, <<"filler", d>>, x)
      BY <1>1, <1>2, <2>2, <3>1 DEF ChainBlock
    <3>3. Good(s, d - 1)
      BY <1>1, <1>2 DEF CbcAt
    <3>4. x = mem[GoalOf(s)][d]
      <4>1. At(To) = Dec(KeyOf(s), mem[FromOf(s)][d])
        BY <1>1, <1>2, <1>3, <2>2 DEF CbcDecAt, At
      <4>2. At(IV) = Previous(KeyOf(s), d - 1)
        BY <1>1, <1>2, PreviousIs
      <4>3. mem[FromOf(s)] = Reference(KeyOf(s)) /\ mem[GoalOf(s)] = Text
        BY <2>2, Arrays DEF ArrayFacts
      <4> QED BY <3>1, <4>1, <4>2, <4>3, CbcFacts
    <3> QED BY <3>2, <3>3, <3>4, StoreNext DEF Same
  <2> QED BY <2>1, <2>2
<1>5. CASE d = N
  <2>1. Back(s, N)'
    BY <1>3, <1>4, <1>5 DEF Back
  <2>2. Upto(q)' = Upto(q)
    BY Lasting DEF Same
  <2> QED BY <1>1, <1>4, <2>1, <2>2 DEF Back
<1>6. CASE d # N
  <2>1. d \in 0 .. N - 1 /\ d # 0
    BY <1>6, SizeAssumption
  <2>2. CbcAt(s)'
    BY <1>3, <1>4, <2>1 DEF CbcAt
  <2>3. CASE Encrypts(s)
    <3>1. CbcEncAt(s)'
      BY <1>3, <1>6, <2>2, <2>3 DEF CbcEncAt
    <3> QED BY <1>3, <1>4, <1>6, <2>3, <3>1 DEF Inside, Same
  <2>4. CASE ~Encrypts(s)
    <3>1. CbcDecAt(s)'
      BY <1>3, <1>6, <2>2, <2>4 DEF CbcDecAt
    <3> QED BY <1>3, <1>4, <1>6, <2>4, <3>1 DEF Inside, Same
  <2> QED BY <2>3, <2>4
<1> QED BY <1>5, <1>6

LEMMA CbcStep ==
    ASSUME Kept, mode = "cbc", NEW s \in 0 .. 3, NEW q \in 1 .. CallsOf,
           Within(s, q), DriverStep, Same
    PROVE  Kept' /\ ((at # "return" /\ Inside(s))' \/ Back(s, Upto(q))')
<1>1. call.fn # "CTR" /\ at # "counters"
  BY CbcCall DEF Within, CbcEncAt, CbcDecAt
<1> QED BY <1>1, CbcStart, CbcBlock DEF DriverStep, Counters, XorText

(* CTR.                                                                     *)
LEMMA ReplaceFiller ==
    ASSUME Kept, UNCHANGED <<iv, mode>>, NEW f, mem' = [mem EXCEPT !["filler"] = f]
    PROVE  f = [i \in 1 .. N |-> f[i]] => Kept' /\ mem'.filler = f
<1>1. PICK g, a, b, v : mem = [plain |-> Text, one |-> a, two |-> b, filler |-> g, iv |-> v]
                        /\ a = Reference(ONE) /\ b = Reference(TWO)
                        /\ v = [i \in 1 .. 1 |-> BlockOf(iv)]
  BY Zenon DEF Kept
<1>2. mem' = [plain |-> Text, one |-> a, two |-> b, filler |-> f, iv |-> v]
  BY <1>1
<1>3. mem'.filler = f
  BY <1>2
<1>4. iv' \in Bytes /\ mode' \in Modes
  BY DEF Kept
<1>5. /\ Reference(ONE)' = Reference(ONE) /\ Reference(TWO)' = Reference(TWO)
      /\ BlockOf(iv)' = BlockOf(iv)
  BY Lasting
<1>6. mem' = [plain |-> Text, one |-> Reference(ONE)', two |-> Reference(TWO)',
              filler |-> mem'.filler, iv |-> [i \in 1 .. 1 |-> BlockOf(iv)']]
  BY <1>1, <1>2, <1>3, <1>5
<1> QED BY <1>3, <1>4, <1>6 DEF Kept

LEMMA CtrCall ==
    ASSUME Kept, mode = "ctr", NEW s \in 0 .. 3, NEW q \in 1 .. CallsOf, Within(s, q)
    PROVE  /\ call.fn = "CTR" /\ call.n = N /\ call.key = KeyOf(s) /\ ~NoKey(call)
           /\ call.src = <<FromOf(s), 1>> /\ call.dest = <<"filler", 1>>
           /\ Upto(q) = N /\ CtrAt(s)
<1>1. IsCall(s, q, call) /\ CtrAt(s)
  BY CallFacts DEF Kept, Within
<1>2. Upto(q) = N
  <2>1. 1 - 1 + N = Upto(q) /\ N \in Nat
    BY <1>1, SizeAssumption DEF IsCall
  <2> QED BY <2>1
<1> QED BY <1>1, <1>2 DEF IsCall

LEMMA CtrStays ==
    ASSUME UNCHANGED <<iv, mode>>, NEW s
    PROVE  \A i : Stream(s, i)' = Stream(s, i) /\ Counter(i)' = Counter(i)
BY Lasting DEF Stream

LEMMA CtrWork ==
    ASSUME Kept, mode = "ctr", NEW s \in 0 .. 3, NEW q \in 1 .. CallsOf,
           Within(s, q), Work, Same
    PROVE  Kept' /\ (at # "return" /\ Inside(s))'
<1>1. N \in Nat
  BY SizeAssumption
<1>2. /\ left \in 1 .. N /\ at = "poll" /\ done = 0 /\ key = KeyOf(s) /\ ~decrypt
      /\ src = <<"filler", 1 + (N - left)>> /\ dest = <<"filler", 1 + (N - left)>>
      /\ \A i \in 1 .. N : mem.filler[i] = IF i <= N - left THEN Stream(s, i) ELSE Counter(i)
  BY CtrCall DEF CtrAt, Work
<1>3. PICK d \in 1 .. N : d = 1 + (N - left) /\ d + 1 = 1 + (N - (left - 1)) /\ N - (left - 1) = d
  BY <1>1, <1>2
<1>4. ~(d <= N - left)
  BY <1>1, <1>2, <1>3
<1>5. mem' = Stored(mem, <<"filler", d>>, Stream(s, d))
  <2>1. At(src) = Counter(d)
    BY <1>2, <1>3, <1>4 DEF At
  <2> QED BY <1>2, <1>3, <2>1 DEF Work, Stream
<1>6. /\ Kept' /\ mem'.filler[d] = Stream(s, d)
      /\ \A i \in 1 .. N : i # d => mem'.filler[i] = mem.filler[i]
  BY <1>5, StoreFiller DEF Same
<1>7. /\ left' = left - 1 /\ at' = "poll" /\ done' = 0 /\ key' = KeyOf(s) /\ ~decrypt'
      /\ src' = <<"filler", d + 1>> /\ dest' = <<"filler", d + 1>>
  BY <1>2, <1>3 DEF Work, Plus, driver
<1>8. left' \in 0 .. N /\ N - left' = d /\ d + 1 = 1 + (N - left')
  BY <1>1, <1>2, <1>3, <1>7
<1>9. ASSUME NEW i \in 1 .. N
      PROVE  mem'.filler[i] = IF i <= d THEN Stream(s, i) ELSE Counter(i)
  <2>1. i # d => (i <= d <=> i <= N - left)
    BY <1>1, <1>2, <1>3
  <2>2. i = d => i <= d
    BY <1>1
  <2> QED BY <1>2, <1>6, <2>1, <2>2
<1>10. CtrAt(s)'
  <2>1. \A i \in 1 .. N : mem'.filler[i] = IF i <= N - left' THEN Stream(s, i)' ELSE Counter(i)'
    BY <1>8, <1>9, CtrStays DEF Same
  <2> QED BY <1>7, <1>8, <2>1 DEF CtrAt
<1> QED BY <1>6, <1>7, <1>10 DEF Inside, Same

LEMMA CtrCounters ==
    ASSUME Kept, mode = "ctr", NEW s \in 0 .. 3, NEW q \in 1 .. CallsOf,
           Within(s, q), Counters, Same
    PROVE  Kept' /\ (at # "return" /\ Inside(s))'
<1>1. N \in Nat
  BY SizeAssumption
<1>2. /\ call.n = N /\ call.dest = <<"filler", 1>>
      /\ at = "counters" /\ left = 0 /\ done = 0
  BY CtrCall DEF CtrAt, Counters
<1>3. \E f : IsCounting(call.n, f)
  BY <1>1, <1>2, CountingExists
<1>4. PICK f : IsCounting(call.n, f) /\ f = CHOOSE c : IsCounting(call.n, c)
  BY <1>3
<1>5. PICK g : g = [i \in 1 .. N |-> BlockOf(f[i])]
  OBVIOUS
<1>6. mem' = [mem EXCEPT !["filler"] = g]
  <2> DEFINE Filled(h) ==
        [mem EXCEPT ![call.dest[1]] =
           [i \in DOMAIN @ |-> IF i \in call.dest[2] .. call.dest[2] + call.n - 1
                                 THEN BlockOf(h[i - call.dest[2] + 1]) ELSE @[i]]]
  <2>1. mem' = Filled(f)
    <3>1. mem' = Filled(CHOOSE c : IsCounting(call.n, c))
      BY Zenon DEF Counters, IsCounting
    <3> HIDE DEF Filled
    <3> QED BY <1>4, <3>1
  <2>2. DOMAIN mem["filler"] = 1 .. N
    BY DEF Kept
  <2>3. \A i \in 1 .. N : i \in 1 .. 1 + N - 1 /\ i - 1 + 1 = i
    BY <1>1
  <2>4. [i \in DOMAIN mem["filler"] |->
           IF i \in 1 .. 1 + N - 1 THEN BlockOf(f[i - 1 + 1]) ELSE mem["filler"][i]] = g
    BY <1>5, <2>2, <2>3
  <2>5. call.dest[1] = "filler" /\ call.dest[2] = 1
    BY <1>2
  <2>6. mem' = [mem EXCEPT !["filler"] =
                  [i \in DOMAIN @ |-> IF i \in 1 .. 1 + N - 1 THEN BlockOf(f[i - 1 + 1]) ELSE @[i]]]
    BY <1>2, <2>1, <2>5
  <2> QED BY <2>4, <2>6
<1>7. Kept' /\ mem'.filler = g
  <2>1. g = [i \in 1 .. N |-> g[i]]
    BY <1>5
  <2> QED BY <1>6, <2>1, ReplaceFiller DEF Same
<1>8. \A i \in 1 .. N : mem'.filler[i] = Counter(i)
  <2>1. \A i \in 1 .. N : BlockOf(f[i]) = Counter(i)
    BY <1>1, <1>2, <1>4, CountersAre DEF Kept
  <2> QED BY <1>5, <1>7, <2>1
<1>9. at' = "start" /\ left' = 0 /\ done' = 0
  BY <1>2 DEF Counters, accelerator
<1>10. CtrAt(s)'
  <2>1. \A i \in 1 .. N : mem'.filler[i] = Counter(i)'
    BY <1>8, CtrStays DEF Same
  <2> QED BY <1>9, <2>1 DEF CtrAt
<1> QED BY <1>7, <1>9, <1>10 DEF Inside, Same

LEMMA CtrStart ==
    ASSUME Kept, mode = "ctr", NEW s \in 0 .. 3, NEW q \in 1 .. CallsOf,
           Within(s, q), Start \/ Poll, Same
    PROVE  Kept' /\ (at # "return" /\ Inside(s))'
<1>1. N \in Nat /\ 0 \in 0 .. N - 1 /\ N \in 0 .. N
  BY SizeAssumption
<1>2. /\ call.fn = "CTR" /\ call.n = N /\ call.key = KeyOf(s) /\ ~NoKey(call)
      /\ call.src = <<FromOf(s), 1>> /\ call.dest = <<"filler", 1>> /\ CtrAt(s)
  BY CtrCall
<1>3. mem' = mem /\ done' = done
  BY DEF Start, Poll
<1>4. Kept'
  BY <1>3, KeepAll DEF Same
<1>5. CASE Start
  <2>1. at = "start" /\ left = 0 /\ done = 0 /\ \A i \in 1 .. N : mem.filler[i] = Counter(i)
    BY <1>2, <1>5 DEF CtrAt, Start
  <2>2. /\ at' = "poll" /\ left' = N /\ ~decrypt' /\ key' = KeyOf(s) /\ done' = 0
        /\ src' = <<"filler", 1>> /\ dest' = <<"filler", 1>>
    <3>1. Load(call.dest, call.dest, call.n, FALSE) /\ KeySetup(call) /\ at' = "poll"
      BY <1>2, <1>5 DEF Start, Chained
    <3> QED BY <1>2, <1>3, <2>1, <3>1 DEF Load, KeySetup
  <2>3. 1 + (N - left') = 1 /\ left' \in 0 .. N /\ \A i \in 1 .. N : ~(i <= N - left')
    BY <1>1, <2>2
  <2>4. \A i \in 1 .. N : mem'.filler[i] = Counter(i)'
    BY <1>3, <2>1, CtrStays DEF Same
  <2>5. CtrAt(s)'
    BY <2>2, <2>3, <2>4 DEF CtrAt
  <2> QED BY <1>4, <2>2, <2>5 DEF Inside, Same
<1>6. CASE Poll
  <2>1. at = "poll" /\ left = 0 /\ at' = "block" /\ left' = 0 /\ key' = key
    BY <1>2, <1>6 DEF Poll, PollEnds, accelerator
  <2>2. /\ done = 0 /\ key = KeyOf(s)
        /\ \A i \in 1 .. N : mem.filler[i] = IF i <= N - left THEN Stream(s, i) ELSE Counter(i)
    BY <1>2, <2>1 DEF CtrAt
  <2>3. \A i \in 1 .. N : i <= N - left
    BY <1>1, <2>1
  <2>4. \A i \in 1 .. N : mem'.filler[i] = Stream(s, i)'
    BY <1>3, <2>2, <2>3, CtrStays DEF Same
  <2>5. 0 + 1 = 1 /\ Good(s, 0)'
    BY DEF Good
  <2>6. CtrAt(s)'
    BY <1>1, <1>3, <2>1, <2>2, <2>4, <2>5 DEF CtrAt
  <2> QED BY <1>4, <2>1, <2>6 DEF Inside, Same
<1> QED BY <1>5, <1>6

LEMMA CtrBlock ==
    ASSUME Kept, mode = "ctr", NEW s \in 0 .. 3, NEW q \in 1 .. CallsOf,
           Within(s, q), XorText, Same
    PROVE  Kept' /\ ((at # "return" /\ Inside(s))' \/ Back(s, Upto(q))')
<1>1. N \in Nat /\ N - 1 \in Nat
  BY SizeAssumption
<1>2. /\ call.n = N /\ Upto(q) = N
      /\ call.src = <<FromOf(s), 1>> /\ call.dest = <<"filler", 1>> /\ CtrAt(s)
  BY CtrCall
<1>3. /\ left = 0 /\ done \in 0 .. N - 1 /\ key = KeyOf(s) /\ Good(s, done)
      /\ \A i \in done + 1 .. N : mem.filler[i] = Stream(s, i)
  BY <1>2 DEF CtrAt, XorText
<1>4. PICK d \in 1 .. N : d = done + 1 /\ d - 1 = done /\ d = 1 + done
  BY <1>1, <1>3
<1>5. From = <<FromOf(s), d>> /\ To = <<"filler", d>>
  BY <1>2, <1>4 DEF From, To, Plus
<1>6. PICK x : x = Xor(At(To), At(From))
  OBVIOUS
<1>7. /\ mem' = Stored(mem, <<"filler", d>>, x) /\ done' = d
      /\ at' = (IF d = N THEN "return" ELSE "block") /\ left' = 0 /\ key' = KeyOf(s)
  BY <1>2, <1>3, <1>4, <1>5, <1>6 DEF XorText, accelerator
<1>8. x = mem[GoalOf(s)][d]
  <2>1. /\ mem[FromOf(s)] = IF Encrypts(s) THEN Text ELSE Reference(KeyOf(s))
        /\ mem[GoalOf(s)] = IF Encrypts(s) THEN Reference(KeyOf(s)) ELSE Text
    BY Arrays DEF ArrayFacts
  <2>2. d \in done + 1 .. N
    BY <1>1, <1>4
  <2>3. At(To) = Enc(KeyOf(s), Counter(d)) /\ At(From) = mem[FromOf(s)][d]
    BY <1>3, <1>5, <2>2 DEF At, Stream
  <2> QED BY <1>6, <2>1, <2>3, CtrFacts
<1>9. Good(s, d - 1)
  BY <1>3, <1>4
<1>10. Kept' /\ Good(s, d)'
  BY <1>7, <1>8, <1>9, StoreNext DEF Same
<1>11. \A i \in d + 1 .. N : mem'.filler[i] = Stream(s, i)
  <2>1. \A i \in 1 .. N : i # d => mem'.filler[i] = mem.filler[i]
    BY <1>7, StoreFiller DEF Same
  <2>2. \A i \in d + 1 .. N : i \in 1 .. N /\ i # d /\ i \in done + 1 .. N
    BY <1>1, <1>4
  <2> QED BY <1>3, <2>1, <2>2
<1>12. CASE d = N
  <2>1. Back(s, N)'
    BY <1>7, <1>10, <1>12 DEF Back
  <2>2. Upto(q)' = Upto(q)
    BY Lasting DEF Same
  <2> QED BY <1>2, <1>10, <2>1, <2>2 DEF Back
<1>13. CASE d # N
  <2>1. d \in 0 .. N - 1
    BY <1>1, <1>13
  <2>2. \A i \in done' + 1 .. N : mem'.filler[i] = Stream(s, i)'
    BY <1>7, <1>11, CtrStays DEF Same
  <2>3. CtrAt(s)'
    BY <1>7, <1>10, <1>13, <2>1, <2>2 DEF CtrAt
  <2> QED BY <1>7, <1>10, <1>13, <2>3 DEF Inside, Same
<1> QED BY <1>12, <1>13

LEMMA CtrStep ==
    ASSUME Kept, mode = "ctr", NEW s \in 0 .. 3, NEW q \in 1 .. CallsOf,
           Within(s, q), DriverStep, Same
    PROVE  Kept' /\ ((at # "return" /\ Inside(s))' \/ Back(s, Upto(q))')
<1>1. call.fn = "CTR" /\ at # "xor"
  BY CtrCall DEF CtrAt
<1>2. ~Chained(call.fn)
  BY <1>1 DEF Chained
<1> QED BY <1>1, <1>2, CtrCounters, CtrStart, CtrBlock DEF DriverStep, XorBefore, ChainBlock

(* Every step of a program that does not send.                              *)
LEMMA InCall ==
    ASSUME Kept, mode # "tx", Testing, at # "return" \/ left # 0
    PROVE  \E s \in 0 .. 3, q \in 1 .. CallsOf : Within(s, q)
BY DEF Testing, Between, Ended

LEMMA TestingStep ==
    ASSUME Kept, mode # "tx", Testing, Same, DriverStep \/ Work
    PROVE  Kept' /\ Testing'
<1>1. at # "return" \/ left # 0
  <2>1. N \in Nat
    BY SizeAssumption
  <2>2. CASE Work
    <3>1. left # 0
      BY <2>2 DEF Work
    <3> QED BY <3>1
  <2>3. CASE DriverStep
    BY <2>3 DEF DriverStep, XorBefore, Start, Poll, ChainBlock, Counters, XorText
  <2> QED BY <2>2, <2>3
<1>2. PICK s \in 0 .. 3, q \in 1 .. CallsOf : Within(s, q)
  BY <1>1, InCall
<1>3. Kept' /\ ((at # "return" /\ Inside(s))' \/ Back(s, Upto(q))')
  <2>1. CASE mode = "cbc"
    BY <1>2, <2>1, CbcWork, CbcStep
  <2>2. CASE mode = "ctr"
    BY <1>2, <2>2, CtrWork, CtrStep
  <2>3. CASE mode \notin {"cbc", "ctr", "tx"}
    BY <1>2, <2>3, EcbWork, EcbStep
  <2> QED BY <2>1, <2>2, <2>3
<1> QED BY <1>2, <1>3, StepWithin

(* Steps that the programs do not see: those of the console, and none.       *)
Unmoved == UNCHANGED <<aesVars, program, plic, trap, baseband>>

LEMMA TestStutter ==
    ASSUME Kept, mode # "tx", Silent, Testing, Unmoved
    PROVE  IInv'
<1>1. UNCHANGED <<mode, iv, mem, pc, at, left, key, src, dest, decrypt, call, done, IV>>
  BY DEF Unmoved, aesVars, accelerator, driver, program
<1>2. Kept'
  BY <1>1, KeepAll
<1>3. Silent'
  BY DEF Unmoved, Silent, program, plic, trap, baseband
<1>4. /\ \A s \in 0 .. 3 : \A n : Good(s, n) => Good(s, n)'
      /\ \A s \in 0 .. 3 : mem'[FromOf(s)] = mem[FromOf(s)]
  BY <1>1 DEF Good
<1>5. /\ CallsOf' = CallsOf /\ \A q : Upto(q)' = Upto(q) /\ \A s : Offset(s)' = Offset(s)
      /\ \A s, q : CallOf(s, q)' = CallOf(s, q)
      /\ \A k, j : Previous(k, j)' = Previous(k, j)
      /\ \A s, i : Stream(s, i)' = Stream(s, i) /\ Counter(i)' = Counter(i)
  BY <1>1, Lasting, CtrStays
<1>6. Testing'
  <2>1. ASSUME NEW s \in 0 .. 3, NEW q \in 0 .. CallsOf, Between(s, q) PROVE Testing'
    <3>1. Between(s, q)'
      BY <1>1, <1>4, <1>5, <2>1 DEF Between
    <3> QED BY <1>5, <3>1 DEF Testing
  <2>2. ASSUME NEW s \in 0 .. 3, NEW q \in 1 .. CallsOf, Within(s, q) PROVE Testing'
    <3>1. mode = "cbc" => Mixed(s)' = Mixed(s) /\ (CbcAt(s) => CbcAt(s)')
      BY <1>1, <1>4, <1>5 DEF Mixed, CbcAt
    <3>2. mode = "cbc" => IF Encrypts(s) THEN CbcEncAt(s)' ELSE CbcDecAt(s)'
      BY <1>1, <1>4, <2>2, <3>1 DEF Within, CbcEncAt, CbcDecAt
    <3>3. mode = "ctr" => CtrAt(s)'
      BY <1>1, <1>4, <1>5, <2>2 DEF Within, CtrAt
    <3>4. mode \notin {"cbc", "ctr"} => EcbAt(s)'
      BY <1>1, <1>4, <2>2 DEF Within, EcbAt
    <3>5. Within(s, q)'
      BY <1>1, <1>5, <2>2, <3>2, <3>3, <3>4 DEF Within
    <3> QED BY <1>5, <3>5 DEF Testing
  <2>3. Ended => Testing'
    BY <1>1, <1>5 DEF Ended, Testing
  <2> QED BY <2>1, <2>2, <2>3 DEF Testing
<1> QED BY <1>1, <1>2, <1>3, <1>6 DEF IInv

LEMMA TestNext ==
    ASSUME Kept, mode # "tx", Silent, Testing, Next
    PROVE  IInv'
<1>1. mode' = mode
  BY DEF Next, Hart, CallAes, CheckBytes, Connect, CreatePacket, BleSend, Star, Wait, Main,
         PrintLine, InPrint, InDriver, Handler, Claim, HandlerPrint, Handle, Complete, Accelerate,
         Baseband, Host, program
<1>2. SUFFICES Kept' /\ Silent' /\ Testing'
  BY <1>1 DEF IInv
<1>3. ASSUME NEW op, Reaches(op) PROVE op \in {"aes", "check"}
  <2>1. at = "return" /\ pc <= Len(Script) /\ Script[pc].op = op
    BY <1>3 DEF Reaches
  <2>2. PICK s \in 0 .. 3, q \in 0 .. CallsOf :
          Script[pc] = IF q < CallsOf THEN CallOf(s, q + 1) ELSE Check(GoalOf(s))
    BY <2>1, NextOperation
  <2> QED BY <2>1, <2>2 DEF CallOf, Aes, Check
<1>4. CASE CallAes
  <2>1. Silent'
    BY <1>4 DEF CallAes, Main, Silent, trap, baseband
  <2> QED BY <1>4, <2>1, CallStep
<1>5. CASE CheckBytes
  <2>1. Silent'
    BY <1>5 DEF CheckBytes, Main, Silent, trap, baseband
  <2> QED BY <1>5, <2>1, CheckStep
<1>6. ~Connect /\ ~CreatePacket /\ ~BleSend /\ ~Star /\ ~Wait /\ ~PrintLine
  BY <1>3 DEF Connect, CreatePacket, BleSend, Star, Wait, PrintLine, Main
<1>7. CASE InDriver
  <2>1. Silent'
    BY <1>7 DEF InDriver, Silent, program, plic, trap, baseband
  <2>2. Same /\ DriverStep
    BY <1>7 DEF InDriver, DriverStep, XorBefore, Start, Poll, ChainBlock, Counters, XorText,
                Same, program
  <2> QED BY <2>1, <2>2, TestingStep
<1>8. ~Handler /\ ~Baseband
  BY DEF Handler, Claim, HandlerPrint, Handle, Complete, Baseband, Silent
<1>9. CASE Accelerate
  <2>1. Silent'
    BY <1>9 DEF Accelerate, Silent, program, plic, trap, baseband
  <2>2. Same /\ Work
    BY <1>9 DEF Accelerate, Work, Same, program, driver
  <2> QED BY <2>1, <2>2, TestingStep
<1>10. CASE InPrint \/ Host
  <2>1. Unmoved
    BY <1>10 DEF InPrint, Host, Unmoved
  <2>2. IInv'
    BY <2>1, TestStutter
  <2> QED BY <1>1, <2>2 DEF IInv
<1> QED BY <1>4, <1>5, <1>6, <1>7, <1>8, <1>9, <1>10 DEF Next, Hart

-----------------------------------------------------------------------------
(* Every step of the program that sends.                                    *)
LEMMA TxScript ==
    ASSUME mode = "tx"
    PROVE  /\ Len(Script) = 13
           /\ Script[1] = Do("connect") /\ Script[2].op = "print" /\ Script[3] = TxCall
           /\ Script[4].op = "print" /\ Script[5] = Do("packet") /\ Script[6].op = "print"
           /\ Script[7] = Do("address") /\ Script[8] = Do("send") /\ Script[9] = Do("wait")
           /\ Script[10].op = "print" /\ Script[11].op = "print"
           /\ Script[12] = Check("payload") /\ Script[13].op = "print"
BY DEF Script, TxCall, Line

LEMMA TxReaches ==
    ASSUME mode = "tx", Sending, NEW op, Reaches(op)
    PROVE  /\ at = "return" /\ left = 0 /\ handler = "no"
           /\ pc >= 4 => mem.filler[1] = mem.one[1]
           /\ \/ pc = 1 /\ op = "connect"
              \/ pc = 3 /\ op = "aes" /\ Script[pc] = TxCall
              \/ pc = 5 /\ op = "packet"
              \/ pc = 7 /\ op = "address"
              \/ pc = 8 /\ op = "send"
              \/ pc = 9 /\ op = "wait"
              \/ pc = 12 /\ op = "check" /\ Script[pc] = Check("payload")
              \/ pc \in {2, 4, 6, 10, 11, 13} /\ op = "print"
<1>1. at = "return" /\ handler = "no" /\ pc <= 13 /\ Script[pc].op = op
  BY TxScript DEF Reaches
<1>2. left = 0 /\ (pc >= 4 => mem.filler[1] = mem.one[1])
  BY <1>1 DEF Sending, Prepared, Ciphering
<1>3. pc \in 1 .. 13
  BY <1>1 DEF Sending
<1>4. pc \in {1, 3, 5} \/ pc \in {7, 8, 9} \/ pc = 12 \/ pc \in {2, 4, 6, 10, 11, 13}
  BY <1>3
<1>5. /\ Do("connect").op = "connect" /\ TxCall.op = "aes" /\ Do("packet").op = "packet"
      /\ Do("address").op = "address" /\ Do("send").op = "send" /\ Do("wait").op = "wait"
      /\ Check("payload").op = "check"
  BY DEF Do, TxCall, Aes, Check
<1> QED BY <1>1, <1>2, <1>4, <1>5, TxScript

LEMMA TxMain ==
    ASSUME NEW op, Main(op)
    PROVE  Reaches(op) /\ pc' = pc + 1 /\ UNCHANGED <<mode, pending, handler, irqSource>>
BY DEF Main, trap

(* What is expected of the first block lasts, for all that is done to the    *)
(* filler.                                                                  *)
LEMMA WholeStays ==
    ASSUME Kept, Kept', UNCHANGED <<iv, mode>>
    PROVE  mem'.one[1] = mem.one[1] /\ Whole' = Whole
<1>1. mem'.one = mem.one
  BY Lasting, Arrays, ArraysNext DEF ArrayFacts
<1> QED BY <1>1 DEF Whole

LEMMA TxDriver ==
    ASSUME Kept, mode = "tx", Sending, Same, Work \/ DriverStep
    PROVE  Kept' /\ Prepared'
<1>1. pc = 4 /\ Ciphering
  <2>1. CASE Work
    <3>1. left # 0
      BY <2>1 DEF Work
    <3> QED BY <3>1 DEF Sending, Prepared
  <2>2. CASE DriverStep
    <3>1. at # "return"
      BY <2>2 DEF DriverStep, XorBefore, Start, Poll, ChainBlock, Counters, XorText
    <3> QED BY <3>1 DEF Sending, Prepared
  <2> QED BY <2>1, <2>2
<1>2. /\ call.fn = "ECB_ENC" /\ call.n = 1 /\ call.src = <<"plain", 1>>
      /\ call.dest = <<"filler", 1>> /\ key = ONE
  BY <1>1 DEF Ciphering, TxCall, Aes
<1>3. ~Chained(call.fn) /\ call.fn # "CTR" /\ ~Decrypts(call.fn)
  BY <1>2 DEF Chained, Decrypts
<1>4. 1 \in 1 .. N
  BY SizeAssumption
<1>5. CASE Work
  <2>1. at = "poll" /\ left = 1 /\ ~decrypt /\ src = <<"plain", 1>> /\ dest = <<"filler", 1>>
    BY <1>1, <1>5 DEF Ciphering, Work
  <2>2. mem' = Stored(mem, <<"filler", 1>>, Enc(ONE, mem["plain"][1]))
    BY <1>2, <1>5, <2>1 DEF Work, At
  <2>3. Kept' /\ mem'.filler[1] = Enc(ONE, mem["plain"][1])
    BY <1>4, <2>2, StoreFiller DEF Same
  <2>4. Enc(ONE, mem["plain"][1]) = mem.one[1]
    BY <1>4, Arrays, EcbFacts DEF ArrayFacts
  <2>5. mem'.filler[1] = mem'.one[1]
    BY <2>3, <2>4, WholeStays DEF Same
  <2>6. left' = 0 /\ at' = "poll" /\ key' = key
    BY <1>5, <2>1 DEF Work, driver
  <2>7. Ciphering'
    BY <1>1, <1>2, <2>5, <2>6 DEF Ciphering, Same
  <2> QED BY <1>1, <2>3, <2>7 DEF Prepared, Same
<1>6. CASE Start
  <2>1. at = "start" /\ left = 0
    BY <1>1, <1>6 DEF Ciphering, Start
  <2>2. /\ src' = <<"plain", 1>> /\ dest' = <<"filler", 1>> /\ left' = 1 /\ ~decrypt'
        /\ key' = key /\ at' = "poll" /\ mem' = mem
    BY <1>2, <1>3, <1>6, <2>1 DEF Start, Load
  <2>3. Kept'
    BY <2>2, KeepAll DEF Same
  <2>4. Ciphering'
    BY <1>1, <1>2, <2>2 DEF Ciphering, Same
  <2> QED BY <1>1, <2>3, <2>4 DEF Prepared, Same
<1>7. CASE Poll
  <2>1. /\ left' = 0 /\ at' = "return" /\ mem' = mem /\ mem.filler[1] = mem.one[1]
    BY <1>1, <1>2, <1>3, <1>7 DEF Ciphering, Poll, PollEnds, accelerator
  <2>2. Kept'
    BY <2>1, KeepAll DEF Same
  <2> QED BY <2>1, <2>2 DEF Prepared
<1> QED
  BY <1>1, <1>3, <1>5, <1>6, <1>7
  DEF DriverStep, XorBefore, ChainBlock, Counters, XorText, Ciphering

LEMMA PreparedStays ==
    ASSUME Prepared, UNCHANGED <<mem, left, at, key, src, dest, decrypt, call, pc>>
    PROVE  Prepared'
BY DEF Prepared, Ciphering, TxCall

LEMMA TxStutter ==
    ASSUME Kept, mode = "tx", Sending, Unmoved
    PROVE  IInv'
<1>1. UNCHANGED <<mode, iv, mem, pc, at, left, key, src, dest, decrypt, call, done_status, payload,
                  pending, handler, irqSource, additional_data, radio, air>>
  BY DEF Unmoved, aesVars, accelerator, driver, program, plic, trap, baseband
<1>2. Kept'
  BY <1>1, KeepAll
<1>3. Prepared'
  BY <1>1, PreparedStays DEF Sending
<1>4. Whole' = Whole
  BY <1>1 DEF Whole
<1>5. (pc \in 1 .. 14 /\ Commanded /\ Reported)'
  BY <1>1, <1>4 DEF Sending, Commanded, Reported
<1> QED BY <1>1, <1>2, <1>3, <1>5 DEF IInv, Sending

LEMMA TxNext ==
    ASSUME Kept, mode = "tx", Sending, Next
    PROVE  IInv'
<1>1. pc \in 1 .. 14 /\ Prepared /\ Commanded /\ Reported
  BY DEF Sending
<1>2. mode' = mode
  BY DEF Next, Hart, CallAes, CheckBytes, Connect, CreatePacket, BleSend, Star, Wait, Main,
         PrintLine, InPrint, InDriver, Handler, Claim, HandlerPrint, Handle, Complete, Accelerate,
         Baseband, Host, program
<1>3. SUFFICES Kept' /\ (pc \in 1 .. 14 /\ Prepared /\ Commanded /\ Reported)'
  BY <1>2 DEF IInv, Sending
<1>a. ASSUME UNCHANGED aesVars
      PROVE  Kept' /\ mem' = mem /\ Whole' = Whole
             /\ UNCHANGED <<left, at, key, src, dest, decrypt, call>>
  <2>1. UNCHANGED <<mem, iv, left, at, key, src, dest, decrypt, call>>
    BY <1>a DEF aesVars, accelerator, driver
  <2>2. Kept'
    BY <1>2, <2>1, KeepAll
  <2> QED BY <1>2, <2>1, <2>2 DEF Whole
<1>4. CASE CallAes
  <2>1. Main("aes") /\ Call(Script[pc]) /\ UNCHANGED <<done_status, payload, baseband>>
    BY <1>4 DEF CallAes
  <2>2. pc = 3 /\ pc' = 4 /\ Script[pc] = TxCall /\ left = 0
        /\ UNCHANGED <<pending, handler, irqSource>>
    BY <2>1, TxMain, TxReaches
  <2>3. /\ call' = TxCall /\ at' = "start" /\ key' = ONE /\ left' = 0 /\ UNCHANGED <<mem, iv>>
    BY <2>1, <2>2 DEF Call, TxCall, Aes, KeySetup, NoKey
  <2>4. Kept'
    BY <1>2, <2>3, KeepAll
  <2>5. Prepared'
    BY <2>2, <2>3 DEF Prepared, Ciphering, TxCall
  <2>6. UNCHANGED <<additional_data, radio, air, done_status>>
    BY <2>1 DEF baseband
  <2> QED BY <1>1, <2>2, <2>4, <2>5, <2>6 DEF Commanded, Reported
<1>5. CASE CheckBytes
  <2>1. Main("check") /\ UNCHANGED aesVars /\ UNCHANGED <<done_status, payload, baseband>>
    BY <1>5 DEF CheckBytes
  <2>2. pc = 12 /\ pc' = 13 /\ at = "return" /\ left = 0 /\ UNCHANGED <<pending, handler, irqSource>>
    BY <2>1, TxMain, TxReaches
  <2>3. UNCHANGED <<additional_data, radio, air, done_status>>
    BY <2>1 DEF baseband
  <2> QED BY <1>1, <1>a, <2>1, <2>2, <2>3 DEF Prepared, Commanded, Reported
<1>6. CASE Connect
  <2>1. Main("connect") /\ UNCHANGED aesVars /\ UNCHANGED <<done_status, payload, baseband>>
    BY <1>6 DEF Connect
  <2>2. pc = 1 /\ pc' = 2 /\ at = "return" /\ left = 0 /\ UNCHANGED <<pending, handler, irqSource>>
    BY <2>1, TxMain, TxReaches
  <2>3. UNCHANGED <<additional_data, radio, air, done_status>>
    BY <2>1 DEF baseband
  <2> QED BY <1>1, <1>a, <2>1, <2>2, <2>3 DEF Prepared, Commanded, Reported
<1>7. CASE CreatePacket
  <2>1. /\ Main("packet") /\ UNCHANGED aesVars /\ UNCHANGED <<done_status, baseband>>
        /\ payload' = <<"header", mem.filler[1]>>
    BY <1>7 DEF CreatePacket
  <2>2. /\ pc = 5 /\ pc' = 6 /\ at = "return" /\ left = 0 /\ mem.filler[1] = mem.one[1]
        /\ UNCHANGED <<pending, handler, irqSource>>
    BY <2>1, TxMain, TxReaches
  <2>3. UNCHANGED <<additional_data, radio, air, done_status>>
    BY <2>1 DEF baseband
  <2>4. payload' = Whole'
    BY <1>a, <2>1, <2>2 DEF Whole
  <2> QED BY <1>1, <1>a, <2>1, <2>2, <2>3, <2>4 DEF Prepared, Commanded, Reported
<1>8. CASE BleSend
  <2>1. PICK op \in {"address", "send"} :
          /\ Main(op) /\ UNCHANGED aesVars /\ UNCHANGED <<done_status, payload, air>>
          /\ IF op = "address" THEN additional_data' = "payload" /\ UNCHANGED radio
             ELSE radio' = additional_data /\ UNCHANGED additional_data
    BY <1>8 DEF BleSend, First
  <2>2. /\ at = "return" /\ left = 0 /\ pc' = pc + 1 /\ UNCHANGED <<pending, handler, irqSource>>
        /\ (pc = 7 /\ op = "address") \/ (pc = 8 /\ op = "send")
    BY <2>1, TxMain, TxReaches
  <2>3. Prepared'
    BY <1>1, <1>a, <2>1, <2>2 DEF Prepared
  <2>4. CASE pc = 7 /\ op = "address"
    BY <1>1, <1>a, <2>1, <2>2, <2>3, <2>4 DEF Commanded, Reported
  <2>5. CASE pc = 8 /\ op = "send"
    BY <1>1, <1>a, <2>1, <2>2, <2>3, <2>5 DEF Commanded, Reported
  <2> QED BY <2>2, <2>4, <2>5
<1>9. CASE Wait
  <2>1. Main("wait") /\ UNCHANGED aesVars /\ UNCHANGED <<done_status, payload, baseband>>
    BY <1>9 DEF Wait
  <2>2. pc = 9 /\ pc' = 10 /\ at = "return" /\ left = 0 /\ UNCHANGED <<pending, handler, irqSource>>
    BY <2>1, TxMain, TxReaches
  <2>3. UNCHANGED <<additional_data, radio, air, done_status>>
    BY <2>1 DEF baseband
  <2> QED BY <1>1, <1>a, <2>1, <2>2, <2>3 DEF Prepared, Commanded, Reported
<1>p. CASE PrintLine
  <2>1. /\ Reaches("print") /\ pc' = pc + 1 /\ UNCHANGED aesVars
        /\ UNCHANGED <<done_status, payload, pending, handler, irqSource, additional_data, radio, air>>
    BY <1>p DEF PrintLine, plic, trap, baseband
  <2>2. pc \in {2, 4, 6, 10, 11, 13} /\ at = "return" /\ left = 0
        /\ (pc >= 4 => mem.filler[1] = mem.one[1])
    BY <2>1, TxReaches
  <2>3. Prepared'
    BY <1>a, <2>1, <2>2 DEF Prepared
  <2>4. (pc \in 1 .. 14)' /\ (pc >= 6 <=> pc' >= 6) /\ (pc >= 8 <=> pc' >= 8)
        /\ (pc >= 9 <=> pc' >= 9)
    BY <2>1, <2>2
  <2> QED BY <1>1, <1>a, <2>1, <2>2, <2>3, <2>4 DEF Commanded, Reported
<1>s. CASE Star \/ InPrint \/ HandlerPrint \/ Host
  <2>1. Unmoved
    BY <1>s DEF Star, InPrint, HandlerPrint, Host, Unmoved
  <2>2. IInv'
    BY <2>1, TxStutter
  <2> QED BY <1>2, <2>2 DEF IInv, Sending
<1>10. CASE InDriver \/ Accelerate
  <2>1. /\ Same /\ (Work \/ DriverStep)
        /\ UNCHANGED <<pc, done_status, payload, pending, handler, irqSource,
                       additional_data, radio, air>>
    BY <1>10
    DEF InDriver, Accelerate, DriverStep, XorBefore, Start, Poll, ChainBlock, Counters, XorText,
        Work, driver, Same, program, plic, trap, baseband
  <2>2. Kept' /\ Prepared'
    BY <2>1, TxDriver
  <2>3. Whole' = Whole
    BY <2>1, <2>2, WholeStays DEF Same
  <2> QED BY <1>1, <2>1, <2>2, <2>3 DEF Commanded, Reported
<1>11. CASE Baseband
  <2>1. /\ UNCHANGED aesVars
        /\ UNCHANGED <<pc, done_status, payload, handler, irqSource, additional_data>>
    BY <1>11 DEF Baseband, program, trap
  <2>2. Prepared'
    BY <1>1, <1>a, <2>1, PreparedStays
  <2>3. CASE radio \in {"payload", "none"} /\ radio' = "sending"
    <3>1. radio = "payload" /\ pc >= 9 /\ air' = payload /\ pending' = pending
      BY <1>1, <1>11, <2>3 DEF Baseband, Commanded
    <3>2. pc >= 6
      BY <1>1, <3>1
    <3>3. air' = Whole
      BY <1>1, <3>1, <3>2 DEF Commanded
    <3>4. ~(10 \in pending \/ (handler # "no" /\ irqSource = 10) \/ done_status)
      BY <1>1, <3>1 DEF Reported
    <3> QED BY <1>1, <1>a, <2>1, <2>2, <2>3, <3>1, <3>3, <3>4 DEF Commanded, Reported
  <2>4. CASE radio = "sending" /\ air' = air
    <3>1. PICK irq \in {9, 10} :
            pending' = pending \cup {irq} /\ radio' = IF irq = 9 THEN "failed" ELSE "sent"
      BY <1>11, <2>4 DEF Baseband
    <3>2. ~(10 \in pending \/ (handler # "no" /\ irqSource = 10) \/ done_status)
      BY <1>1, <2>4 DEF Reported
    <3>3. pc >= 9
      BY <1>1, <2>4 DEF Commanded
    <3>4. radio' \in {"failed", "sent"} /\ (10 \in pending' => radio' = "sent")
      BY <3>1, <3>2
    <3> QED BY <1>1, <1>a, <2>1, <2>2, <2>4, <3>2, <3>3, <3>4 DEF Commanded, Reported
  <2> QED BY <1>11, <2>3, <2>4 DEF Baseband
<1>12. CASE Claim \/ Handle \/ Complete
  <2>1. UNCHANGED aesVars /\ UNCHANGED <<pc, payload, additional_data, radio, air>>
    BY <1>12 DEF Claim, Handle, Complete, program, baseband
  <2>2. Prepared' /\ Commanded'
    BY <1>1, <1>a, <2>1, PreparedStays DEF Commanded
  <2>3. Reported'
    <3>1. CASE Claim
      BY <1>1, <2>1, <3>1 DEF Claim, Reported, program
    <3>2. CASE Handle
      BY <1>1, <2>1, <3>2 DEF Handle, Finished, Reported, plic
    <3>3. CASE Complete
      BY <1>1, <2>1, <3>3 DEF Complete, Reported, program
    <3> QED BY <1>12, <3>1, <3>2, <3>3
  <2> QED BY <1>1, <1>a, <2>1, <2>2, <2>3
<1> QED BY <1>4, <1>5, <1>6, <1>7, <1>8, <1>9, <1>p, <1>s, <1>10, <1>11, <1>12
        DEF Next, Hart, Handler

-----------------------------------------------------------------------------
LEMMA InitInvariant == Init => IInv
<1> SUFFICES ASSUME Init PROVE IInv
  OBVIOUS
<1>1. iv \in Bytes /\ mode \in Modes /\ at = "return" /\ left = 0 /\ pc = 1
  BY DEF Init, AesInit, Modes
<1>2. Kept
  <2>1. /\ mem.filler = Blank
        /\ mem = [plain |-> Text, one |-> Reference(ONE), two |-> Reference(TWO),
                  filler |-> Blank, iv |-> [i \in 1 .. 1 |-> BlockOf(iv)]]
    BY DEF Init
  <2>2. Blank = [i \in 1 .. N |-> Blank[i]]
    BY DEF Blank
  <2> QED BY <1>1, <2>1, <2>2 DEF Kept
<1>3. Silent
  BY DEF Init, Silent
<1>4. Testing
  <2>1. 0 \in 0 .. CallsOf
    BY SizeAssumption DEF CallsOf
  <2>2. Offset(0) + 0 + 1 = 1
    BY DEF Offset
  <2>3. Good(0, Upto(0))
    BY DEF Good, Upto
  <2>4. Between(0, 0)
    BY <1>1, <2>2, <2>3 DEF Between
  <2> QED BY <2>1, <2>4 DEF Testing
<1>5. Sending
  BY <1>1 DEF Init, Sending, Prepared, Commanded, Reported
<1> QED BY <1>2, <1>3, <1>4, <1>5 DEF IInv

LEMMA NextInvariant == IInv /\ [Next]_vars => IInv'
<1>1. UNCHANGED vars => Unmoved
  BY DEF vars, Unmoved
<1> QED BY <1>1, TestNext, TestStutter, TxNext, TxStutter DEF IInv

(* What the programs are doing, and what memory holds, whenever they do it:  *)
(* the invariant of every function of aes.h and of both devices.            *)
THEOREM ProgramsInvariant == Spec => []IInv
BY InitInvariant, NextInvariant, PTL DEF Spec

(* Where main comes to a check, all of the calls before it are done.         *)
LEMMA CheckFacts == IInv => ChecksPass
<1> SUFFICES ASSUME IInv, at = "return", pc <= Len(Script), Script[pc].op = "check"
             PROVE  Passes(Script[pc].array)
  BY DEF ChecksPass
<1>1. CASE mode = "tx"
  <2>1. pc \in 1 .. 13 /\ Kept /\ Commanded
    <3>1. Kept /\ Sending /\ pc <= 13
      BY <1>1, TxScript DEF IInv
    <3> QED BY <3>1 DEF Sending
  <2>2. pc \in {1, 3, 5} \/ pc \in {7, 8, 9} \/ pc = 12 \/ pc \in {2, 4, 6, 10, 11, 13}
    BY <2>1
  <2>3. pc = 12 /\ Script[pc] = Check("payload")
    BY <1>1, <2>2, TxScript DEF Do, TxCall, Aes
  <2>4. Script[pc].array = "payload" /\ payload = Whole
    BY <2>1, <2>3 DEF Check, Commanded
  <2> QED BY <2>4 DEF Passes, Whole
<1>2. CASE mode # "tx"
  <2>1. Kept /\ Testing
    BY <1>2 DEF IInv
  <2>2. PICK s \in 0 .. 3, q \in 0 .. CallsOf :
             /\ Between(s, q)
             /\ Script[pc] = IF q < CallsOf THEN CallOf(s, q + 1) ELSE Check(GoalOf(s))
    BY <1>2, <2>1, NextOperation
  <2>3. CallsOf \in Nat /\ N \in Nat /\ CallsOf > 0
    BY SizeAssumption DEF CallsOf
  <2>4. ~(q < CallsOf) /\ q = CallsOf
    BY <2>2, <2>3 DEF CallOf, Aes
  <2>5. Script[pc].array = GoalOf(s) /\ GoalOf(s) # "payload"
    BY <2>2, <2>4 DEF Check, GoalOf, Expected
  <2>6. Upto(CallsOf) = N
    BY DEF Upto, CallsOf
  <2>7. \A i \in 1 .. N : mem.filler[i] = mem[GoalOf(s)][i]
    BY <2>2, <2>4, <2>6 DEF Between, Good
  <2>8. mem.filler = [i \in 1 .. N |-> mem.filler[i]]
    BY <2>1 DEF Kept
  <2>9. mem[GoalOf(s)] = [i \in 1 .. N |-> mem[GoalOf(s)][i]]
    <3>1. mem[GoalOf(s)] = IF Encrypts(s) THEN Reference(KeyOf(s)) ELSE Text
      BY <2>1, Arrays DEF ArrayFacts
    <3>2. Text = [i \in 1 .. N |-> Text[i]]
      BY DEF Text
    <3>3. Reference(KeyOf(s)) = [i \in 1 .. N |-> Reference(KeyOf(s))[i]]
      BY ReferenceIs
    <3>4. CASE Encrypts(s)
      BY <3>1, <3>3, <3>4, Zenon
    <3>5. CASE ~Encrypts(s)
      BY <3>1, <3>2, <3>5, Zenon
    <3> QED BY <3>4, <3>5
  <2>10. [i \in 1 .. N |-> mem.filler[i]] = [i \in 1 .. N |-> mem[GoalOf(s)][i]]
    BY <2>7
  <2> QED BY <2>5, <2>8, <2>9, <2>10 DEF Passes
<1> QED BY <1>1, <1>2

(* Every check of every program passes: for every size of text, width of a   *)
(* byte and of a block, and initial vector, ECB in one call or in several,   *)
(* CBC chained through the ciphertext and CTR by way of the counters give    *)
(* the ciphertext of their definitions, and take it back to the text.        *)
THEOREM ChecksCorrect == Spec => []ChecksPass
BY ProgramsInvariant, CheckFacts, PTL

(* The program that sends says that it is done only when the packet with the *)
(* whole ciphertext was sent, whenever the interrupt comes and is handled.   *)
THEOREM DoneCorrect == Spec => []DoneMeansSent
<1>1. IInv => DoneMeansSent
  BY DEF IInv, Silent, Sending, Commanded, Reported, Whole, DoneMeansSent
<1> QED BY <1>1, ProgramsInvariant, PTL
=============================================================================
