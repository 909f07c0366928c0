---------------------------- MODULE MemIfProofs -----------------------------
(***************************************************************************)
(* Proofs about MemIf for words and chunks of any size, any memory and any  *)
(* calls: the words on their way always make whole commands for bytes that  *)
(* the host owns, and cutting, merging and the transport together are the   *)
(* memory that memif.h promises.                                            *)
(***************************************************************************)
EXTENDS MemIf, SequenceTheorems, WellFoundedInduction, TLAPS

(* Induction over Nat for a set: the library states it for an operator.     *)
LEMMA SetInduction ==
    ASSUME NEW T, 0 \in T, \A n \in Nat : n \in T => n + 1 \in T
    PROVE  \A n \in Nat : n \in T
<1> DEFINE U == Nat \ T
           R == OpToRel(<, Nat)
<1>1. SUFFICES ASSUME U # {} PROVE FALSE
  OBVIOUS
<1>2. IsWellFoundedOn(R, Nat)
  BY NatLessThanWellFounded
<1>3. \A x, y \in Nat : x < y => <<x, y>> \in R
  BY Zenon DEF OpToRel
<1> HIDE DEF R
<1>4. PICK x \in U : \A y \in U : ~ (<<y, x>> \in R)
  BY <1>1, <1>2, WFMin
<1>5. x \in Nat /\ x # 0 /\ x \notin T
  BY <1>4
<1>6. x - 1 \in Nat /\ x - 1 + 1 = x /\ x - 1 < x
  BY <1>5
<1>7. <<x - 1, x>> \in R
  BY <1>3, <1>5, <1>6
<1> QED BY <1>4, <1>5, <1>6, <1>7

(* Division by the width of a word.                                         *)
Quo(a) == a \div ALIGN
Rem(a) == a % ALIGN
Aligned(a) == Rem(a) = 0

LEMMA Division ==
    ASSUME NEW a \in Nat
    PROVE  /\ Rem(a) \in Nat /\ Rem(a) < ALIGN /\ Quo(a) \in Nat
           /\ a = Quo(a) * ALIGN + Rem(a)
<1>1. ALIGN \in Int /\ ALIGN > 0
  BY AlignAssumption
<1>2. PICK q, r : q = Quo(a) /\ r = Rem(a)
  OBVIOUS
<1>3. q \in Nat /\ r \in 0 .. ALIGN - 1 /\ a = ALIGN * q + r
  BY <1>1, <1>2 DEF Quo, Rem
<1>4. ALIGN * q = q * ALIGN
  BY <1>1, <1>3
<1> QED BY <1>1, <1>2, <1>3, <1>4

LEMMA Scaled ==
    ASSUME NEW p \in Nat, NEW q \in Nat, p < q
    PROVE  p * ALIGN + ALIGN <= q * ALIGN /\ p * ALIGN \in Nat /\ q * ALIGN \in Nat
<1>1. q = p + 1 + (q - p - 1) /\ q - p - 1 \in Nat
  OBVIOUS
<1>2. (q - p - 1) * ALIGN \in Nat
  BY <1>1, AlignAssumption
<1>3. q * ALIGN = p * ALIGN + ALIGN + (q - p - 1) * ALIGN
  BY <1>1, AlignAssumption
<1>4. p * ALIGN \in Nat /\ ALIGN \in Nat
  BY AlignAssumption
<1> QED BY <1>2, <1>3, <1>4

LEMMA Quotient ==
    ASSUME NEW q \in Nat, NEW r \in Nat, r < ALIGN, NEW a \in Nat, a = q * ALIGN + r
    PROVE  Rem(a) = r /\ Quo(a) = q
<1> DEFINE p == Quo(a)
           m == Rem(a)
<1>1. p \in Nat /\ m \in Nat /\ m < ALIGN /\ a = p * ALIGN + m
  BY Division
<1>2. ALIGN \in Nat /\ p * ALIGN \in Nat /\ q * ALIGN \in Nat
  BY <1>1, AlignAssumption
<1> HIDE DEF p, m
<1>3. ~(p < q) /\ ~(q < p)
  BY <1>1, <1>2, Scaled
<1>4. p = q /\ m = r
  BY <1>1, <1>2, <1>3
<1> QED BY <1>4 DEF p, m

LEMMA Multiples ==
    ASSUME NEW a \in Nat, NEW b \in Nat, Aligned(a), Aligned(b)
    PROVE  /\ Aligned(a + b)
           /\ b <= a => Aligned(a - b)
           /\ b < a => b + ALIGN <= a
<1>1. PICK p \in Nat, q \in Nat : a = p * ALIGN /\ b = q * ALIGN
  <2>1. \A n \in Nat : Aligned(n) => Quo(n) \in Nat /\ n = Quo(n) * ALIGN
    <3> TAKE n \in Nat
    <3>1. PICK q \in Nat : q = Quo(n)
      BY Division
    <3>2. q * ALIGN \in Nat
      BY AlignAssumption
    <3> QED BY <3>1, <3>2, Division DEF Aligned
  <2> QED BY <2>1
<1>2. a + b = (p + q) * ALIGN + 0
  BY <1>1, AlignAssumption
<1>3. Aligned(a + b)
  <2>1. p + q \in Nat /\ a + b \in Nat /\ 0 < ALIGN
    BY AlignAssumption
  <2> QED BY <1>2, <2>1, Quotient DEF Aligned
<1>4. p < q => a < b
  BY <1>1, Scaled, AlignAssumption
<1>5. ASSUME b < a PROVE b + ALIGN <= a
  <2>1. q < p
    BY <1>1, <1>4, <1>5
  <2> QED BY <1>1, <2>1, Scaled
<1>6. ASSUME b <= a PROVE Aligned(a - b)
  <2>1. q <= p
    BY <1>1, <1>4, <1>6
  <2>2. a - b = (p - q) * ALIGN + 0 /\ p - q \in Nat /\ a - b \in Nat
    BY <1>1, <1>6, <2>1, AlignAssumption
  <2>3. 0 < ALIGN
    BY AlignAssumption
  <2> QED BY <2>2, <2>3, Quotient DEF Aligned
<1> QED BY <1>3, <1>5, <1>6

-----------------------------------------------------------------------------
(* The words on their way.                                                  *)
Values   == {0} \cup {Mark(b) : b \in Byte}
Machines == [st : {"cmd", "read", "write"}, at : Nat, left : Nat, mem : [Byte -> Values]]
Commands == [op : {SAI_CMD_READ, SAI_CMD_WRITE}, at : Nat, len : Nat]

Span(a, n) == a .. a + n * ALIGN - 1
Owned(a, n, put) == \A b \in Span(a, n) : b \in Byte /\ (put => b \notin TargetByte)

Safe(s) == s \in Machines /\ (s.st # "cmd" => Owned(s.at, s.left + 1, s.st = "write"))
Fits(s, w) == IF s.st = "cmd" THEN w \in Commands /\ Owned(w.at, w.len + 1, w.op # SAI_CMD_READ)
                              ELSE s.st = "write" /\ w \in Word

Course(f) == /\ f = [k \in 0 .. Len(in_data) |-> f[k]]
             /\ f[0] = chip
             /\ \A k \in 0 .. Len(in_data) : Safe(f[k])
             /\ \A k \in 1 .. Len(in_data) :
                  Fits(f[k - 1], in_data[k]) /\ f[k] = TakeWord(f[k - 1], in_data[k])
Linked == in_data \in Seq(Word \cup Commands) /\ \E f : Course(f)

LEMMA SpanStep ==
    ASSUME NEW a \in Nat, NEW n \in Nat
    PROVE  /\ \A j \in Lane : a + j \in Span(a, n + 1)
           /\ \A b \in Span(a + ALIGN, n) : b \in Span(a, n + 1)
           /\ \A b \in Int : b - a \in Lane => b \in Span(a, n + 1)
           /\ Span(a, 1) = a .. a + ALIGN - 1
<1>1. ALIGN \in Nat /\ ALIGN > 0 /\ n * ALIGN \in Nat /\ (n + 1) * ALIGN = n * ALIGN + ALIGN
  BY AlignAssumption
<1> QED BY <1>1 DEF Span, Lane

LEMMA AdvancedSafe ==
    ASSUME NEW s, Safe(s), s.st # "cmd"
    PROVE  /\ Advanced(s).mem = s.mem
           /\ Advanced(s) = [st |-> IF s.left = 0 THEN "cmd" ELSE s.st,
                             at |-> IF s.left = 0 THEN 0 ELSE s.at + ALIGN,
                             left |-> IF s.left = 0 THEN 0 ELSE s.left - 1, mem |-> s.mem]
           /\ Safe(Advanced(s))
<1>1. s \in Machines /\ Owned(s.at, s.left + 1, s.st = "write")
  BY DEF Safe
<1>2. Advanced(s) = [st |-> IF s.left = 0 THEN "cmd" ELSE s.st,
                     at |-> IF s.left = 0 THEN 0 ELSE s.at + ALIGN,
                     left |-> IF s.left = 0 THEN 0 ELSE s.left - 1, mem |-> s.mem]
  BY <1>1 DEF Advanced, Machines
<1>3. Advanced(s) \in Machines
  BY <1>1, <1>2, AlignAssumption DEF Machines
<1>4. ASSUME s.left # 0 PROVE Owned(s.at + ALIGN, s.left, s.st = "write")
  <2>1. s.left \in Nat /\ s.at \in Nat
    BY <1>1 DEF Machines
  <2> QED BY <1>1, <2>1, SpanStep DEF Owned
<1>5. Safe(Advanced(s))
  <2>1. CASE s.left = 0
    BY <1>2, <1>3, <2>1 DEF Safe
  <2>2. CASE s.left # 0
    <3>1. s.left - 1 + 1 = s.left
      BY <1>1 DEF Machines
    <3> QED BY <1>2, <1>3, <1>4, <2>2, <3>1 DEF Safe
  <2> QED BY <2>1, <2>2
<1> QED BY <1>2, <1>5

LEMMA TakeCommand ==
    ASSUME NEW s \in Machines, NEW w, s.st = "cmd"
    PROVE  TakeWord(s, w) = [st |-> IF w.op = SAI_CMD_READ THEN "read" ELSE "write",
                             at |-> w.at, left |-> w.len, mem |-> s.mem]
BY DEF TakeWord, Machines

LEMMA TakeSafe ==
    ASSUME NEW s, NEW w, Safe(s), Fits(s, w)
    PROVE  Safe(TakeWord(s, w))
<1>1. CASE s.st = "cmd"
  <2>1. TakeWord(s, w) = [st |-> IF w.op = SAI_CMD_READ THEN "read" ELSE "write",
                          at |-> w.at, left |-> w.len, mem |-> s.mem]
    BY <1>1, TakeCommand DEF Safe
  <2>2. w \in Commands /\ Owned(w.at, w.len + 1, w.op # SAI_CMD_READ)
    BY <1>1 DEF Fits
  <2>3. TakeWord(s, w) \in Machines
    BY <2>1, <2>2 DEF Machines, Commands, Safe
  <2> QED BY <2>1, <2>2, <2>3 DEF Safe
<1>2. CASE s.st # "cmd"
  <2> DEFINE m == [b \in Byte |-> IF b - s.at \in Lane THEN w[b - s.at] ELSE s.mem[b]]
             c == Advanced(s)
  <2>1. Safe(c) /\ c \in Machines
    BY <1>2, AdvancedSafe DEF Safe
  <2>2. TakeWord(s, w) = [c EXCEPT !.mem = m]
    BY <1>2 DEF TakeWord
  <2>3. m \in [Byte -> Values]
    <3>1. s.mem \in [Byte -> Values] /\ w \in [Lane -> Values]
      BY <1>2 DEF Safe, Machines, Fits, Word, Values
    <3> QED BY <3>1
  <2> HIDE DEF m, c
  <2> QED BY <2>1, <2>2, <2>3 DEF Safe, Machines
<1> QED BY <1>1, <1>2

(* The target's own store commutes with the words to come.                  *)
LEMMA TakeStore ==
    ASSUME NEW s, NEW w, Safe(s), Fits(s, w), NEW b \in TargetByte, NEW v \in Values
    PROVE  /\ Safe([s EXCEPT !.mem[b] = v])
           /\ Fits([s EXCEPT !.mem[b] = v], w)
           /\ TakeWord([s EXCEPT !.mem[b] = v], w) = [TakeWord(s, w) EXCEPT !.mem[b] = v]
<1> DEFINE t == [s EXCEPT !.mem[b] = v]
<1>1. /\ t \in Machines /\ t.st = s.st /\ t.at = s.at /\ t.left = s.left
      /\ t.mem = [s.mem EXCEPT ![b] = v] /\ s \in Machines
  BY DEF Safe, Machines
<1>2. Safe(t) /\ Fits(t, w)
  BY <1>1 DEF Safe, Fits
<1> HIDE DEF t
<1>3. ASSUME s.st = "cmd"
      PROVE  TakeWord(t, w) = [TakeWord(s, w) EXCEPT !.mem[b] = v]
  <2>1. TakeWord(s, w) = [st |-> IF w.op = SAI_CMD_READ THEN "read" ELSE "write",
                          at |-> w.at, left |-> w.len, mem |-> s.mem]
    BY <1>1, <1>3 DEF TakeWord, Machines
  <2>2. TakeWord(t, w) = [st |-> IF w.op = SAI_CMD_READ THEN "read" ELSE "write",
                          at |-> w.at, left |-> w.len, mem |-> t.mem]
    BY <1>1, <1>3 DEF TakeWord, Machines
  <2> QED BY <1>1, <2>1, <2>2
<1>4. ASSUME s.st # "cmd"
      PROVE  TakeWord(t, w) = [TakeWord(s, w) EXCEPT !.mem[b] = v]
  <2> DEFINE m == [o \in Byte |-> IF o - s.at \in Lane THEN w[o - s.at] ELSE s.mem[o]]
             n == [o \in Byte |-> IF o - s.at \in Lane THEN w[o - s.at] ELSE t.mem[o]]
  <2>1. ~(b - s.at \in Lane)
    <3>1. s.st = "write" /\ s.at \in Nat /\ s.left \in Nat /\ b \in Int
      BY <1>1, <1>4, ByteAssumption DEF Fits, Machines
    <3> QED BY <1>4, <3>1, SpanStep DEF Safe, Owned
  <2>2. n = [m EXCEPT ![b] = v]
    BY <1>1, <2>1, ByteAssumption DEF Machines
  <2>3. Advanced(t) = [Advanced(s) EXCEPT !.mem[b] = v] /\ Advanced(s) \in Machines
    <3>1. Safe(Advanced(s)) /\ Safe(Advanced(t))
      BY <1>1, <1>2, <1>4, AdvancedSafe
    <3>2. Advanced(t) = [st |-> IF s.left = 0 THEN "cmd" ELSE s.st,
                         at |-> IF s.left = 0 THEN 0 ELSE s.at + ALIGN,
                         left |-> IF s.left = 0 THEN 0 ELSE s.left - 1, mem |-> t.mem]
      BY <1>1, <1>2, <1>4, AdvancedSafe
    <3>3. Advanced(s) = [st |-> IF s.left = 0 THEN "cmd" ELSE s.st,
                         at |-> IF s.left = 0 THEN 0 ELSE s.at + ALIGN,
                         left |-> IF s.left = 0 THEN 0 ELSE s.left - 1, mem |-> s.mem]
      BY <1>4, AdvancedSafe
    <3> QED BY <1>1, <3>1, <3>2, <3>3 DEF Safe
  <2>4. TakeWord(s, w) = [Advanced(s) EXCEPT !.mem = m]
    BY <1>4 DEF TakeWord
  <2>5. TakeWord(t, w) = [Advanced(t) EXCEPT !.mem = n]
    BY <1>1, <1>4 DEF TakeWord
  <2> HIDE DEF m, n
  <2> DEFINE c == Advanced(s)
  <2>6. TakeWord(s, w) = [st |-> c.st, at |-> c.at, left |-> c.left, mem |-> m]
    BY <2>3, <2>4 DEF Machines
  <2>7. TakeWord(t, w) = [st |-> c.st, at |-> c.at, left |-> c.left, mem |-> n]
    BY <2>3, <2>5 DEF Machines
  <2> HIDE DEF c
  <2> QED BY <2>2, <2>6, <2>7
<1> QED BY <1>2, <1>3, <1>4 DEF t

(* Where the course of the words on their way ends.                         *)
Ending == in_data \in Seq(Word \cup Commands) =>
            \A f : Course(f) => Settled = f[Len(in_data)] /\ Safe(Settled)

LEMMA CourseEnd == Ending
<1> SUFFICES ASSUME in_data \in Seq(Word \cup Commands), NEW f, Course(f)
             PROVE  Settled = f[Len(in_data)]
  <2>1. ASSUME NEW f, Course(f), in_data \in Seq(Word \cup Commands) PROVE Safe(f[Len(in_data)])
    <3>1. Len(in_data) \in 0 .. Len(in_data)
      BY <2>1
    <3> QED BY <2>1, <3>1 DEF Course
  <2> QED BY <2>1 DEF Ending
<1>1. Len(in_data) \in Nat
  OBVIOUS
<1>2. CASE chip.st = "read"
  <2>1. Len(in_data) # 0 => Fits(f[0], in_data[1]) /\ f[0] = chip
    BY <1>1 DEF Course
  <2>2. Len(in_data) = 0
    BY <1>1, <1>2, <2>1 DEF Fits
  <2> QED BY <1>2, <2>2 DEF Settled, Course
<1>3. CASE chip.st # "read"
  <2> DEFINE n == Len(in_data)
             D(g) == [k \in 0 .. n |-> IF k = 0 THEN {chip}
                                        ELSE {TakeWord(c, in_data[k]) : c \in g[k - 1]}]
             g == CHOOSE g : g = D(g)
             h == [k \in 0 .. n |-> {f[k]}]
  <2>1. h = D(h)
    <3>1. ASSUME NEW k \in 0 .. n
          PROVE h[k] = IF k = 0 THEN {chip} ELSE {TakeWord(c, in_data[k]) : c \in h[k - 1]}
      <4>1. CASE k = 0
        BY <4>1 DEF Course
      <4>2. CASE k # 0
        <5>1. k \in 1 .. n /\ k - 1 \in 0 .. n
          BY <1>1, <4>2
        <5>2. f[k] = TakeWord(f[k - 1], in_data[k])
          BY <5>1 DEF Course
        <5> QED BY <4>2, <5>1, <5>2
      <4> QED BY <4>1, <4>2
    <3> QED BY <3>1
  <2>2. g = D(g)
    BY <2>1
  <2>3. Settled = CHOOSE c \in g[n] : TRUE
    BY <1>3 DEF Settled
  <2> HIDE DEF g, h
  <2> DEFINE T == {k \in Nat : k <= n => g[k] = h[k]}
  <2>4. 0 \in T
    BY <1>1, <2>1, <2>2
  <2>5. ASSUME NEW k \in Nat, k \in T PROVE k + 1 \in T
    <3>1. ASSUME k + 1 <= n PROVE g[k + 1] = h[k + 1]
      <4>1. k \in 0 .. n /\ k + 1 \in 0 .. n /\ k + 1 # 0 /\ k + 1 - 1 = k
        BY <1>1, <3>1
      <4>2. g[k + 1] = {TakeWord(c, in_data[k + 1]) : c \in g[k]}
        BY <2>2, <4>1
      <4>3. h[k + 1] = {TakeWord(c, in_data[k + 1]) : c \in h[k]}
        BY <2>1, <4>1
      <4>4. g[k] = h[k]
        BY <2>5, <4>1
      <4> QED BY <4>2, <4>3, <4>4
    <3> QED BY <3>1
  <2> HIDE DEF T
  <2>6. n \in T
    BY <1>1, <2>4, <2>5, SetInduction
  <2>7. g[n] = {f[n]}
    BY <1>1, <2>6 DEF T, h
  <2> QED BY <2>3, <2>7
<1> QED BY <1>2, <1>3

(* What the steps of the transport do to where the course ends.             *)
LEMMA SafeChips == ASSUME Linked PROVE Safe(chip) /\ Safe(Settled)
<1>1. PICK f : Course(f)
  BY DEF Linked
<1>2. 0 \in 0 .. Len(in_data)
  BY DEF Linked
<1> QED BY <1>1, <1>2, CourseEnd DEF Linked, Course, Ending

LEMMA CourseTo ==
    ASSUME NEW f, (Course(f))', in_data' \in Seq(Word \cup Commands)
    PROVE  Linked' /\ Settled' = f[Len(in_data')]
<1>1. Ending'
  BY CourseEnd, PTL
<1> QED BY <1>1 DEF Linked, Ending

LEMMA TookWord ==
    ASSUME Linked, TickIn
    PROVE  Linked' /\ Settled' = Settled
<1>1. PICK f : Course(f)
  BY DEF Linked
<1>0. PICK n, h : n = Len(in_data) /\ h = [k \in 0 .. n - 1 |-> f[k + 1]]
  OBVIOUS
<1>2. n \in Nat \ {0} /\ in_data' = Tail(in_data) /\ Len(in_data') = n - 1
      /\ in_data' \in Seq(Word \cup Commands) /\ \A k \in 1 .. n - 1 : in_data'[k] = in_data[k + 1]
  BY <1>0 DEF Linked, TickIn
<1>8. chip' = TakeWord(chip, in_data[1])
  BY DEF Linked, TickIn
<1>3. (Course(h))'
  <2>1. h[0] = chip'
    <3>1. 0 \in 0 .. n - 1 /\ 1 \in 1 .. n /\ 0 + 1 = 1 /\ 1 - 1 = 0
      BY <1>2
    <3>2. f[0] = chip /\ f[1] = TakeWord(f[1 - 1], in_data[1])
      BY <1>0, <1>1, <3>1 DEF Course
    <3>3. f[1 - 1] = f[0] /\ h[0] = f[1]
      <4>1. h[0] = f[0 + 1]
        BY <1>0, <3>1
      <4> QED BY <4>1
    <3>5. h[0] = TakeWord(chip, in_data[1])
      BY <3>2, <3>3
    <3> QED BY <1>8, <3>5
  <2>2. ASSUME NEW k \in 0 .. n - 1 PROVE Safe(h[k])
    BY <1>0, <1>1, <1>2 DEF Course
  <2>3. ASSUME NEW k \in 1 .. n - 1
        PROVE  Fits(h[k - 1], in_data'[k]) /\ h[k] = TakeWord(h[k - 1], in_data'[k])
    <3>1. k + 1 \in 1 .. n /\ h[k - 1] = f[k] /\ h[k] = f[k + 1] /\ k + 1 - 1 = k
      BY <1>0, <1>2
    <3>2. Fits(f[k + 1 - 1], in_data[k + 1]) /\ f[k + 1] = TakeWord(f[k + 1 - 1], in_data[k + 1])
      <4>1. \A m \in 1 .. n : Fits(f[m - 1], in_data[m]) /\ f[m] = TakeWord(f[m - 1], in_data[m])
        BY <1>0, <1>1 DEF Course
      <4> QED BY <3>1, <4>1
    <3> QED BY <1>2, <3>1, <3>2
  <2>4. h = [k \in 0 .. n - 1 |-> h[k]]
    BY <1>0
  <2> QED BY <1>2, <2>1, <2>2, <2>3, <2>4 DEF Course
<1>4. Settled' = h[n - 1] /\ Linked'
  BY <1>2, <1>3, CourseTo
<1>5. Settled = f[n]
  BY <1>0, <1>1, CourseEnd DEF Linked, Ending
<1>6. h[n - 1] = f[n]
  BY <1>0, <1>2
<1> QED BY <1>4, <1>5, <1>6

(* The target's store reaches the end.                                      *)
LEMMA StoredAtEnd ==
    ASSUME Linked, NEW b \in TargetByte, NEW v \in Values, Store(b, v)
    PROVE  Linked' /\ Settled' = [Settled EXCEPT !.mem[b] = v]
<1>1. PICK f : Course(f)
  BY DEF Linked
<1>2. PICK n, h : n = Len(in_data) /\ h = [k \in 0 .. n |-> [f[k] EXCEPT !.mem[b] = v]]
  OBVIOUS
<1>3. n \in Nat /\ in_data' = in_data /\ Len(in_data') = n /\ in_data \in Seq(Word \cup Commands)
      /\ chip' = [chip EXCEPT !.mem[b] = v]
  BY <1>2 DEF Linked, Store
<1>4. (\A k \in 0 .. n : Safe(f[k]) /\ h[k] = [f[k] EXCEPT !.mem[b] = v]) /\ f[0] = chip
  BY <1>1, <1>2 DEF Course
<1>5. \A k \in 1 .. n : Fits(f[k - 1], in_data[k]) /\ f[k] = TakeWord(f[k - 1], in_data[k])
  BY <1>1, <1>2 DEF Course
<1>6. ASSUME NEW k \in 1 .. n
      PROVE  Fits(h[k - 1], in_data'[k]) /\ h[k] = TakeWord(h[k - 1], in_data'[k])
  <2>1. k - 1 \in 0 .. n /\ k \in 0 .. n
    BY <1>3
  <2>2. Fits([f[k - 1] EXCEPT !.mem[b] = v], in_data[k])
        /\ TakeWord([f[k - 1] EXCEPT !.mem[b] = v], in_data[k])
             = [TakeWord(f[k - 1], in_data[k]) EXCEPT !.mem[b] = v]
    BY <1>4, <1>5, <2>1, TakeStore
  <2> QED BY <1>3, <1>4, <1>5, <2>1, <2>2
<1>7. ASSUME NEW k \in 0 .. n PROVE Safe(h[k])
  <2>1. Safe([f[k] EXCEPT !.mem[b] = v])
    BY <1>4 DEF Safe, Machines
  <2> QED BY <1>4, <2>1
<1>8. (Course(h))'
  <2>1. h = [k \in 0 .. n |-> h[k]] /\ h[0] = chip'
    BY <1>2, <1>3, <1>4
  <2> QED BY <1>3, <1>6, <1>7, <2>1 DEF Course
<1>9. Settled' = h[n] /\ Linked'
  BY <1>3, <1>8, CourseTo
<1>10. Settled = f[n] /\ n \in 0 .. n
  BY <1>1, <1>2, <1>3, CourseEnd DEF Ending
<1> QED BY <1>4, <1>9, <1>10

(* Nothing is on its way while the target gives words.                      *)
LEMMA GivesWord ==
    ASSUME Linked, TickOut
    PROVE  /\ Linked' /\ Settled = chip /\ Settled' = Advanced(chip)
           /\ Safe(chip) /\ chip.st = "read" /\ in_data = <<>>
<1>1. PICK f : Course(f)
  BY DEF Linked
<1>2. Len(in_data) \in Nat /\ chip.st = "read" /\ chip' = Advanced(chip) /\ in_data' = in_data
  BY DEF Linked, TickOut
<1>3. Len(in_data) # 0 => Fits(f[1 - 1], in_data[1]) /\ f[0] = chip
  <2>1. Len(in_data) # 0 => 1 \in 1 .. Len(in_data)
    BY <1>2
  <2> QED BY <1>1, <2>1 DEF Course
<1>4. in_data = <<>> /\ Len(in_data) = 0
  BY <1>2, <1>3 DEF Fits, Linked
<1>5. Settled = chip
  BY <1>2 DEF Settled
<1>6. Safe(chip) /\ Safe(Advanced(chip))
  BY <1>2, SafeChips, AdvancedSafe
<1>7. PICK h : h = [k \in 0 .. 0 |-> Advanced(chip)]
  OBVIOUS
<1>8. (Course(h))'
  BY <1>2, <1>4, <1>6, <1>7 DEF Course
<1>9. Linked' /\ Settled' = h[0]
  BY <1>2, <1>4, <1>8, CourseTo DEF Linked
<1> QED BY <1>2, <1>4, <1>5, <1>6, <1>7, <1>9

(* The host sends more words.                                               *)
LEMMA CourseOn ==
    ASSUME Linked, chip' = chip, NEW ws \in Seq(Word \cup Commands), in_data' = in_data \o ws,
           NEW g, g[0] = Settled, \A k \in 1 .. Len(ws) : Safe(g[k]),
           \A k \in 1 .. Len(ws) : Fits(g[k - 1], ws[k]) /\ g[k] = TakeWord(g[k - 1], ws[k])
    PROVE  Linked' /\ Settled' = g[Len(ws)]
<1>1. PICK f : Course(f)
  BY DEF Linked
<1>2. PICK n, m, h : n = Len(in_data) /\ m = Len(ws)
                     /\ h = [k \in 0 .. n + m |-> IF k <= n THEN f[k] ELSE g[k - n]]
  OBVIOUS
<1>3. /\ n \in Nat /\ m \in Nat /\ Len(in_data') = n + m /\ in_data' \in Seq(Word \cup Commands)
      /\ \A k \in 1 .. n : in_data'[k] = in_data[k]
      /\ \A k \in 1 .. m : in_data'[n + k] = ws[k]
  BY <1>2 DEF Linked
<1>4. f[n] = g[0] /\ f[0] = chip /\ \A k \in 0 .. n : Safe(f[k])
  BY <1>1, <1>2, CourseEnd DEF Ending, Linked, Course
<1>5. \A k \in 1 .. n : Fits(f[k - 1], in_data[k]) /\ f[k] = TakeWord(f[k - 1], in_data[k])
  BY <1>1, <1>2 DEF Course
<1>6. (\A k \in 0 .. n : h[k] = f[k]) /\ (\A k \in 0 .. m : h[n + k] = g[k])
  <2>1. ASSUME NEW k \in 0 .. m PROVE h[n + k] = g[k]
    <3>1. n + k \in 0 .. n + m /\ n + k - n = k /\ (n + k <= n => k = 0 /\ n + k = n)
      BY <1>3
    <3> QED BY <1>2, <1>4, <3>1
  <2> QED BY <1>2, <1>3, <2>1
<1>7. ASSUME NEW k \in 1 .. n + m
      PROVE  Fits(h[k - 1], in_data'[k]) /\ h[k] = TakeWord(h[k - 1], in_data'[k])
  <2>1. CASE k <= n
    BY <1>3, <1>5, <1>6, <2>1
  <2>2. CASE k > n
    <3>1. k - n \in 1 .. m /\ k - n - 1 \in 0 .. m /\ n + (k - n) = k /\ n + (k - n - 1) = k - 1
          /\ k - n \in 0 .. m
      BY <1>3, <2>2
    <3>2. h[k] = g[k - n] /\ h[k - 1] = g[k - n - 1] /\ in_data'[k] = ws[k - n]
      BY <1>3, <1>6, <3>1
    <3> QED BY <1>2, <3>1, <3>2
  <2> QED BY <1>3, <2>1, <2>2
<1>8. ASSUME NEW k \in 0 .. n + m PROVE Safe(h[k])
  <2>1. CASE k <= n
    BY <1>3, <1>4, <1>6, <2>1
  <2>2. CASE k > n
    <3>1. k - n \in 1 .. m /\ n + (k - n) = k /\ k - n \in 0 .. m
      BY <1>3, <2>2
    <3>2. h[k] = g[k - n]
      BY <1>6, <3>1
    <3> QED BY <1>2, <3>1, <3>2
  <2> QED BY <1>3, <2>1, <2>2
<1>9. (Course(h))'
  <2>1. h = [k \in 0 .. n + m |-> h[k]] /\ h[0] = chip'
    BY <1>2, <1>3, <1>4
  <2> QED BY <1>3, <1>7, <1>8, <2>1 DEF Course
<1>10. Settled' = h[n + m] /\ Linked'
  BY <1>3, <1>9, CourseTo
<1> QED BY <1>2, <1>3, <1>6, <1>10

LEMMA SentRead ==
    ASSUME Linked, Settled.st = "cmd", chip' = chip, NEW a \in Nat, NEW n \in Nat \ {0},
           in_data' = in_data \o ReadCommand(a, n), Owned(a, n, FALSE)
    PROVE  /\ Linked'
           /\ Settled' = [st |-> "read", at |-> a, left |-> n - 1, mem |-> Settled.mem]
<1>1. PICK s, w, t : s = Settled /\ w = Command(SAI_CMD_READ, a, n)
                     /\ t = [st |-> "read", at |-> a, left |-> n - 1, mem |-> s.mem]
  OBVIOUS
<1>2. Safe(s) /\ s \in Machines
  BY <1>1, SafeChips DEF Safe
<1>3. w \in Commands /\ w.op = SAI_CMD_READ /\ w.at = a /\ w.len = n - 1 /\ w.len + 1 = n
  BY <1>1 DEF Command, Commands, PushLen
<1>4. Fits(s, w)
  BY <1>1, <1>3 DEF Fits
<1>5. TakeWord(s, w) = t
  <2>1. s.st = "cmd" /\ t = [st |-> "read", at |-> a, left |-> n - 1, mem |-> s.mem]
    BY <1>1
  <2> QED BY <1>2, <1>3, <2>1, TakeCommand
<1>6. Safe(t)
  BY <1>2, <1>4, <1>5, TakeSafe
<1>7. PICK g : g = [k \in 0 .. 1 |-> IF k = 0 THEN s ELSE t]
  OBVIOUS
<1>8. PICK ws : ws = <<w>>
  OBVIOUS
<1>9. ws \in Seq(Word \cup Commands) /\ Len(ws) = 1 /\ ws[1] = w /\ in_data' = in_data \o ws
  BY <1>1, <1>3, <1>8 DEF ReadCommand
<1>10. /\ \A k \in 1 .. Len(ws) : Safe(g[k])
       /\ \A k \in 1 .. Len(ws) : Fits(g[k - 1], ws[k]) /\ g[k] = TakeWord(g[k - 1], ws[k])
  BY <1>4, <1>5, <1>6, <1>7, <1>9
<1>11. g[0] = Settled /\ g[1] = t
  BY <1>1, <1>7
<1> QED BY <1>1, <1>9, <1>10, <1>11, CourseOn

(* The memory once the words have been written from a on.                   *)
Written(mem, a, words, n) ==
    [b \in Byte |-> IF b \in Span(a, n) THEN words[Quo(b - a) + 1][Rem(b - a)] ELSE mem[b]]

LEMMA WordWritten ==
    ASSUME NEW a \in Nat, NEW k \in Nat, NEW mem, NEW words
    PROVE  Written(mem, a, words, k + 1)
             = [b \in Byte |-> IF b - (a + k * ALIGN) \in Lane
                                  THEN words[k + 1][b - (a + k * ALIGN)]
                                  ELSE Written(mem, a, words, k)[b]]
<1> DEFINE at == a + k * ALIGN
<1>1. ALIGN \in Nat /\ ALIGN > 0 /\ k * ALIGN \in Nat /\ (k + 1) * ALIGN = k * ALIGN + ALIGN
  BY AlignAssumption
<1>2. ASSUME NEW b \in Byte
      PROVE  (IF b \in Span(a, k + 1) THEN words[Quo(b - a) + 1][Rem(b - a)] ELSE mem[b])
               = IF b - at \in Lane THEN words[k + 1][b - at]
                 ELSE IF b \in Span(a, k) THEN words[Quo(b - a) + 1][Rem(b - a)] ELSE mem[b]
  <2>1. b \in Nat
    BY ByteAssumption
  <2>2. CASE b - at \in Lane
    <3>1. b - a \in Nat /\ b - at \in Nat /\ b - at < ALIGN /\ b - a = k * ALIGN + (b - at)
      BY <1>1, <2>1, <2>2 DEF Lane
    <3>2. Rem(b - a) = b - at /\ Quo(b - a) = k
      <4> HIDE DEF at
      <4> QED BY <3>1, Quotient
    <3>3. b \in Span(a, k + 1)
      BY <1>1, <2>1, <3>1 DEF Span
    <3> QED BY <2>2, <3>2, <3>3
  <2>3. CASE ~(b - at \in Lane)
    <3>1. b \in Span(a, k + 1) <=> b \in Span(a, k)
      BY <1>1, <2>1, <2>3 DEF Span, Lane
    <3> QED BY <2>3, <3>1
  <2> QED BY <2>2, <2>3
<1>3. \A b \in Byte : Written(mem, a, words, k)[b]
                        = IF b \in Span(a, k) THEN words[Quo(b - a) + 1][Rem(b - a)] ELSE mem[b]
  BY DEF Written
<1> QED BY <1>2, <1>3 DEF Written

LEMMA SentWords ==
    ASSUME Linked, Settled.st = "cmd", chip' = chip, NEW a \in Nat, NEW words \in Seq(Word),
           Len(words) # 0, Owned(a, Len(words), TRUE), in_data' = in_data \o WriteCommand(a, words)
    PROVE  /\ Linked'
           /\ Settled' = [st |-> "cmd", at |-> 0, left |-> 0,
                          mem |-> Written(Settled.mem, a, words, Len(words))]
<1>1. PICK s, w, n : s = Settled /\ w = Command(SAI_CMD_WRITE, a, n) /\ n = Len(words)
  OBVIOUS
<1>2. Safe(s) /\ s \in Machines /\ n \in Nat \ {0} /\ s.st = "cmd" /\ Owned(a, n, TRUE)
  <2>1. Len(words) \in Nat
    OBVIOUS
  <2>2. Safe(s) /\ s \in Machines
    BY <1>1, SafeChips DEF Safe
  <2> QED BY <1>1, <2>1, <2>2
<1>3. w \in Commands /\ w.op # SAI_CMD_READ /\ w.at = a /\ w.len = n - 1 /\ w.len + 1 = n
  BY <1>1, <1>2 DEF Command, Commands, PushLen, SAI_CMD_READ, SAI_CMD_WRITE
<1>4. PICK ws : ws = <<w>> \o words
  OBVIOUS
<1>5. /\ ws \in Seq(Word \cup Commands) /\ Len(ws) = n + 1 /\ in_data' = in_data \o ws
      /\ ws[1] = w /\ \A k \in 1 .. n : ws[k + 1] = words[k] /\ words[k] \in Word
  BY <1>1, <1>2, <1>3, <1>4 DEF WriteCommand
<1> DEFINE M(k) == Written(s.mem, a, words, k)
           G(k) == [st |-> IF k = n THEN "cmd" ELSE "write", at |-> IF k = n THEN 0 ELSE a + k * ALIGN,
                    left |-> IF k = n THEN 0 ELSE n - k - 1, mem |-> M(k)]
<1>6. M(0) = s.mem
  <2>1. Span(a, 0) = {}
    BY AlignAssumption DEF Span
  <2> QED BY <1>2, <2>1 DEF Written, Machines
<1>7. Fits(s, w) /\ TakeWord(s, w) = G(0)
  <2>1. Fits(s, w)
    BY <1>2, <1>3 DEF Fits
  <2>2. TakeWord(s, w) = [st |-> "write", at |-> a, left |-> n - 1, mem |-> s.mem]
    BY <1>2, <1>3, TakeCommand
  <2>3. a + 0 * ALIGN = a /\ n - 0 - 1 = n - 1
    BY <1>2, AlignAssumption
  <2> QED BY <1>2, <1>6, <2>1, <2>2, <2>3
<1>8. ASSUME NEW k \in 0 .. n - 1, Safe(G(k))
      PROVE  Fits(G(k), words[k + 1]) /\ TakeWord(G(k), words[k + 1]) = G(k + 1)
  <2>1. /\ k \in Nat /\ k # n /\ k + 1 \in 1 .. n /\ (n - k - 1 = 0 <=> k + 1 = n)
        /\ a + k * ALIGN \in Nat /\ a + (k + 1) * ALIGN = a + k * ALIGN + ALIGN
        /\ n - (k + 1) - 1 = n - k - 1 - 1 /\ n - k - 1 \in Nat
    <3>1. k \in Nat /\ ALIGN \in Nat /\ k * ALIGN \in Nat /\ (k + 1) * ALIGN = k * ALIGN + ALIGN
      BY <1>2, AlignAssumption
    <3>2. k # n /\ k + 1 \in 1 .. n /\ (n - k - 1 = 0 <=> k + 1 = n)
          /\ n - (k + 1) - 1 = n - k - 1 - 1 /\ n - k - 1 \in Nat
      BY <1>2
    <3>3. a + k * ALIGN \in Nat /\ a + (k + 1) * ALIGN = a + k * ALIGN + ALIGN
      <4>1. PICK p, q : p = k * ALIGN /\ q = (k + 1) * ALIGN
        OBVIOUS
      <4>2. p \in Nat /\ q = p + ALIGN /\ ALIGN \in Nat
        BY <3>1, <4>1
      <4>3. a + p \in Nat /\ a + q = a + p + ALIGN
        BY <4>2
      <4> QED BY <4>1, <4>3
    <3> QED BY <3>1, <3>2, <3>3
  <2>2. G(k) = [st |-> "write", at |-> a + k * ALIGN, left |-> n - k - 1, mem |-> M(k)]
    BY <2>1
  <2>3. Fits(G(k), words[k + 1])
    BY <1>5, <2>1, <2>2 DEF Fits
  <2>4. M(k + 1) = [b \in Byte |-> IF b - (a + k * ALIGN) \in Lane
                                      THEN words[k + 1][b - (a + k * ALIGN)] ELSE M(k)[b]]
    <3>1. k \in Nat
      BY <2>1
    <3>2. Written(s.mem, a, words, k + 1)
            = [b \in Byte |-> IF b - (a + k * ALIGN) \in Lane
                                 THEN words[k + 1][b - (a + k * ALIGN)]
                                 ELSE Written(s.mem, a, words, k)[b]]
      BY <3>1, WordWritten
    <3> QED BY <3>2
  <2> HIDE DEF M
  <2>5. Advanced(G(k)) = [st |-> IF k + 1 = n THEN "cmd" ELSE "write",
                          at |-> IF k + 1 = n THEN 0 ELSE a + (k + 1) * ALIGN,
                          left |-> IF k + 1 = n THEN 0 ELSE n - (k + 1) - 1, mem |-> M(k)]
    <3>1. PICK e : e = G(k)
      OBVIOUS
    <3>2. /\ Safe(e) /\ e.st = "write" /\ e.at = a + k * ALIGN /\ e.left = n - k - 1 /\ e.mem = M(k)
      BY <1>8, <2>2, <3>1
    <3>3. Advanced(e) = [st |-> IF e.left = 0 THEN "cmd" ELSE e.st,
                         at |-> IF e.left = 0 THEN 0 ELSE e.at + ALIGN,
                         left |-> IF e.left = 0 THEN 0 ELSE e.left - 1, mem |-> e.mem]
      BY <3>2, AdvancedSafe
    <3>4. (e.left = 0 <=> k + 1 = n) /\ e.at + ALIGN = a + (k + 1) * ALIGN
          /\ e.left - 1 = n - (k + 1) - 1
      BY <2>1, <3>2
    <3> HIDE DEF G
    <3> QED BY <3>1, <3>2, <3>3, <3>4
  <2>6. TakeWord(G(k), words[k + 1]) = [Advanced(G(k)) EXCEPT !.mem = M(k + 1)]
    BY <2>2, <2>4 DEF TakeWord
  <2> QED BY <2>3, <2>5, <2>6
<1>9. PICK g : g = [k \in 0 .. n + 1 |-> IF k = 0 THEN s ELSE G(k - 1)]
  OBVIOUS
<1>10. g[0] = s /\ g[1] = G(0) /\ \A k \in 0 .. n : g[k + 1] = G(k)
  <2>1. \A k \in 0 .. n : k + 1 \in 0 .. n + 1 /\ k + 1 # 0 /\ k + 1 - 1 = k
    BY <1>2
  <2> HIDE DEF G
  <2> QED BY <1>2, <1>9, <2>1
<1> HIDE DEF G
<1>11. \A k \in 0 .. n : Safe(G(k))
  <2> DEFINE T == {k \in Nat : k <= n => Safe(G(k))}
  <2>1. 0 \in T
    BY <1>2, <1>7, TakeSafe
  <2>2. ASSUME NEW k \in Nat, k \in T PROVE k + 1 \in T
    <3>1. ASSUME k + 1 <= n PROVE Safe(G(k + 1))
      <4>1. k \in 0 .. n - 1 /\ Safe(G(k)) /\ k + 1 \in 1 .. n
        BY <1>2, <2>2, <3>1
      <4>2. Fits(G(k), words[k + 1]) /\ TakeWord(G(k), words[k + 1]) = G(k + 1)
        BY <1>8, <4>1
      <4> QED BY <4>1, <4>2, TakeSafe
    <3> QED BY <3>1
  <2> HIDE DEF T
  <2>3. \A k \in Nat : k \in T
    BY <2>1, <2>2, SetInduction
  <2> QED BY <1>2, <2>3 DEF T
<1>12. ASSUME NEW k \in 1 .. n + 1
       PROVE  Safe(g[k]) /\ Fits(g[k - 1], ws[k]) /\ g[k] = TakeWord(g[k - 1], ws[k])
  <2>1. CASE k = 1
    BY <1>2, <1>5, <1>7, <1>10, <1>11, <2>1
  <2>2. CASE k # 1
    <3>1. PICK j \in 0 .. n - 1 : k = j + 2
      <4>1. k - 2 \in 0 .. n - 1 /\ k = k - 2 + 2
        BY <1>2, <2>2
      <4> QED BY <4>1
    <3>2. /\ j \in 0 .. n /\ j + 1 \in 0 .. n /\ j + 1 \in 1 .. n /\ k = j + 1 + 1
          /\ k - 1 = j + 1
      BY <1>2, <3>1
    <3>3. g[k] = G(j + 1) /\ g[k - 1] = G(j) /\ ws[k] = words[j + 1]
      BY <1>5, <1>10, <3>2
    <3>4. Fits(G(j), words[j + 1]) /\ TakeWord(G(j), words[j + 1]) = G(j + 1)
      BY <1>8, <1>11, <3>2
    <3> QED BY <1>11, <3>2, <3>3, <3>4
  <2> QED BY <2>1, <2>2
<1>13. Linked' /\ Settled' = g[n + 1]
  BY <1>1, <1>2, <1>5, <1>10, <1>12, CourseOn
<1>14. g[n + 1] = G(n)
  BY <1>2, <1>10
<1> QED BY <1>1, <1>13, <1>14 DEF G

-----------------------------------------------------------------------------
(* Words and bytes.                                                         *)
LEMMA DownFacts ==
    ASSUME NEW a \in Nat
    PROVE  /\ AlignDown(a) \in Nat /\ Aligned(AlignDown(a))
           /\ AlignDown(a) = a - Rem(a) /\ Rem(a) \in Nat /\ Rem(a) < ALIGN /\ ALIGN \in Nat
           /\ Aligned(AlignDown(a) + ALIGN)
           /\ Aligned(a) => AlignDown(a) = a
<1>1. PICK q, r : q = Quo(a) /\ r = Rem(a)
  OBVIOUS
<1>2. q \in Nat /\ r \in Nat /\ r < ALIGN /\ a = q * ALIGN + r /\ ALIGN \in Nat /\ 0 < ALIGN
      /\ q * ALIGN \in Nat
  <2>1. q \in Nat /\ r \in Nat /\ r < ALIGN /\ a = q * ALIGN + r
    BY <1>1, Division
  <2> QED BY <2>1, AlignAssumption
<1>3. AlignDown(a) = a - r
  BY <1>1 DEF AlignDown, Rem
<1>4. AlignDown(a) = q * ALIGN + 0 /\ AlignDown(a) + ALIGN = (q + 1) * ALIGN + 0
  BY <1>2, <1>3
<1>5. Aligned(AlignDown(a)) /\ Aligned(AlignDown(a) + ALIGN)
  <2>1. PICK d, e : d = AlignDown(a) /\ e = AlignDown(a) + ALIGN
    OBVIOUS
  <2>2. d \in Nat /\ e \in Nat /\ q + 1 \in Nat /\ d = q * ALIGN + 0 /\ e = (q + 1) * ALIGN + 0
    BY <1>2, <1>4, <2>1
  <2>3. Rem(d) = 0
    BY <1>2, <2>2, Quotient
  <2>4. PICK p \in Nat : e = p * ALIGN + 0
    BY <2>2
  <2>5. Rem(e) = 0
    BY <1>2, <2>2, <2>4, Quotient
  <2> QED BY <2>1, <2>3, <2>5 DEF Aligned
<1>6. Aligned(a) => AlignDown(a) = a
  BY <1>1, <1>2, <1>3 DEF Aligned
<1> QED BY <1>1, <1>2, <1>3, <1>4, <1>5, <1>6

LEMMA SameWord ==
    ASSUME NEW x \in Nat, NEW b \in Nat, AlignDown(x) <= b, b < AlignDown(x) + ALIGN
    PROVE  AlignDown(b) = AlignDown(x)
<1>1. PICK q \in Nat : AlignDown(x) = q * ALIGN
  <2>1. PICK q, r : q = Quo(x) /\ r = Rem(x)
    OBVIOUS
  <2>2. q \in Nat /\ r \in Nat /\ x = q * ALIGN + r
    BY <2>1, Division
  <2>3. q * ALIGN \in Nat
    BY <2>2, AlignAssumption
  <2> QED BY <2>1, <2>2, <2>3, DownFacts
<1>2. PICK r \in Nat : b = q * ALIGN + r /\ r < ALIGN
  <2>1. q * ALIGN \in Nat /\ ALIGN \in Nat
    BY AlignAssumption
  <2>2. b - q * ALIGN \in Nat /\ b = q * ALIGN + (b - q * ALIGN) /\ b - q * ALIGN < ALIGN
    BY <1>1, <2>1
  <2> QED BY <2>2
<1>3. Rem(b) = r
  BY <1>2, Quotient
<1>4. q * ALIGN \in Nat
  BY AlignAssumption
<1> QED BY <1>1, <1>2, <1>3, <1>4, DownFacts

LEMMA WordOwned ==
    ASSUME NEW x \in Byte, NEW put \in BOOLEAN, put => x \in HostByte
    PROVE  Owned(AlignDown(x), 1, put)
<1>1. x \in Nat /\ AlignDown(x) \in Nat /\ ALIGN \in Nat
  BY ByteAssumption, DownFacts
<1>2. SUFFICES ASSUME NEW b \in Span(AlignDown(x), 1)
               PROVE  b \in Byte /\ (put => b \notin TargetByte)
  BY DEF Owned
<1>3. b \in Nat /\ AlignDown(x) <= b /\ b < AlignDown(x) + ALIGN
  <2>1. 0 \in Nat /\ b \in AlignDown(x) .. AlignDown(x) + ALIGN - 1
    BY <1>1, SpanStep
  <2> QED BY <1>1, <2>1
<1>4. b \in Byte
  <2>1. b - AlignDown(x) \in Lane /\ b = AlignDown(x) + (b - AlignDown(x))
    BY <1>1, <1>3 DEF Lane
  <2> QED BY <2>1, ByteAssumption
<1>5. AlignDown(b) = AlignDown(x)
  BY <1>1, <1>3, SameWord
<1> QED BY <1>4, <1>5, WordAssumption

(* The calls.                                                               *)
LEMMA CallData ==
    ASSUME NEW c \in Calls
    PROVE  /\ c.put \in BOOLEAN /\ c.addr \in Nat /\ c.len \in Nat
           /\ c.data = [i \in 0 .. c.len - 1 |-> c.data[i]]
           /\ \A i \in 0 .. c.len - 1 :
                /\ c.addr + i \in Byte
                /\ c.put => c.addr + i \in HostByte /\ c.data[i] \in Values
<1>1. ASSUME NEW r \in Within(HostByte) \cup Within(TargetByte)
      PROVE  /\ r[1] \in Nat /\ r[2] \in Nat
             /\ \A i \in 0 .. r[2] - 1 : r[1] + i \in Byte
             /\ r \in Within(HostByte) => \A i \in 0 .. r[2] - 1 : r[1] + i \in HostByte
  <2>1. r \in Ranges
    BY DEF Within
  <2>2. PICK a \in Nat, n \in Nat : a = r[1] /\ n = r[2]
    BY <2>1, RangeAssumption
  <2>3. \A i \in 0 .. n - 1 : a + i \in a .. a + n - 1
    OBVIOUS
  <2> QED BY <2>2, <2>3, ByteAssumption DEF Within
<1>2. CASE c \in {Call(FALSE, r[1], r[2], Blank) : r \in Within(HostByte) \cup Within(TargetByte)}
  <2>1. PICK r \in Within(HostByte) \cup Within(TargetByte) : c = Call(FALSE, r[1], r[2], Blank)
    BY <1>2, Zenon
  <2>2. /\ c.put = FALSE /\ c.addr = r[1] /\ c.len = r[2]
        /\ c.data = [i \in 0 .. r[2] - 1 |-> Blank(r[1] + i)]
    BY <2>1 DEF Call
  <2> QED BY <1>1, <2>2
<1>3. CASE c \in {Call(TRUE, r[1], r[2], Zero) : r \in {q \in Within(HostByte) : q[2] >= ALIGN}}
  <2>1. PICK r \in {q \in Within(HostByte) : q[2] >= ALIGN} : c = Call(TRUE, r[1], r[2], Zero)
    BY <1>3, Zenon
  <2>2. /\ c.put = TRUE /\ c.addr = r[1] /\ c.len = r[2] /\ r \in Within(HostByte)
        /\ c.data = [i \in 0 .. r[2] - 1 |-> Zero(r[1] + i)]
    BY <2>1 DEF Call
  <2> QED BY <1>1, <2>2 DEF Zero, Values
<1>4. CASE c \in {Call(TRUE, r[1], r[2], Mark) : r \in Within(HostByte)}
  <2>1. PICK r \in Within(HostByte) : c = Call(TRUE, r[1], r[2], Mark)
    BY <1>4, Zenon
  <2>2. /\ c.put = TRUE /\ c.addr = r[1] /\ c.len = r[2]
        /\ c.data = [i \in 0 .. r[2] - 1 |-> Mark(r[1] + i)]
    BY <2>1 DEF Call
  <2>3. \A i \in 0 .. r[2] - 1 : Mark(r[1] + i) \in Values
    BY <1>1 DEF Values
  <2>4. PICK a \in Nat, n \in Nat : a = r[1] /\ n = r[2]
    BY <1>1
  <2>5. c.data = [i \in 0 .. n - 1 |-> Mark(a + i)] /\ \A i \in 0 .. n - 1 : Mark(a + i) \in Values
    BY <2>2, <2>3, <2>4
  <2> HIDE DEF Mark
  <2>6. \A i \in 0 .. n - 1 : c.data[i] \in Values
    BY <2>5
  <2>7. c.data = [i \in 0 .. n - 1 |-> c.data[i]]
    BY <2>5
  <2> QED BY <1>1, <2>2, <2>4, <2>6, <2>7
<1> QED BY <1>2, <1>3, <1>4, Zenon DEF Calls

-----------------------------------------------------------------------------
(* The inductive invariant.                                                 *)
Reads == {"headRead", "tailRead", "bodyRead"}

Types == /\ running \in {"host", "target"}
         /\ loc \in {"idle", "head", "headRead", "tail", "tailRead", "body", "bodyRead"}
         /\ call \in Calls \cup {NoCall} /\ (call = NoCall <=> loc = "idle")
         /\ addr \in Nat /\ len \in Nat /\ off \in Nat /\ pos \in Nat
         /\ got \in Seq(Word) /\ out_data \in Seq(Word)

Cut == call # NoCall =>
         /\ addr = call.addr + off /\ off + len <= call.len
         /\ loc \in {"head", "headRead", "tail", "tailRead"} => pos = 0
         /\ loc = "headRead" => len # 0 /\ ~Aligned(addr)
         /\ loc \in {"tail", "tailRead", "body", "bodyRead"} => len = 0 \/ Aligned(addr)
         /\ loc = "tailRead" => ~Aligned(len)
         /\ loc \in {"body", "bodyRead"} => Aligned(len) /\ Aligned(pos)
         /\ loc = "bodyRead" => pos < len /\ ~call.put
         /\ buf = [i \in 0 .. call.len - 1 |-> buf[i]]
         /\ call.put => buf = call.data

Coming == IF loc \in Reads
            THEN IF Settled.st = "read"
                   THEN /\ Settled.left + 1 + Len(Fetched) = Piece.words
                        /\ Settled.at = Piece.at + Len(Fetched) * ALIGN
                   ELSE Settled.st = "cmd" /\ Len(Fetched) = Piece.words
            ELSE Settled.st = "cmd" /\ out_data = <<>>

ReadBack == loc \in Reads /\ call.put =>
              \A k \in 1 .. Len(Fetched), j \in Lane :
                 Fetched[k][j] = Settled.mem[Piece.at + (k - 1) * ALIGN + j]

IInv == Types /\ Cut /\ Linked /\ Coming /\ ReadBack

(* The piece lies in the range, and its words around it.                    *)
Whole == Piece.lo = Base /\ Piece.hi = Base + Piece.words * ALIGN

Sound == /\ Piece.at \in Nat /\ Piece.words \in Nat \ {0}
         /\ Piece.lo \in Nat /\ Piece.hi \in Nat /\ Piece.lo < Piece.hi
         /\ Base \in Int /\ Base = Piece.at - call.addr
         /\ Base <= Piece.lo /\ Piece.lo < Base + ALIGN
         /\ Piece.hi <= Base + Piece.words * ALIGN
         /\ Base + (Piece.words - 1) * ALIGN < Piece.hi
         /\ off + pos <= Piece.lo /\ Piece.hi <= off + len
         /\ Owned(Piece.at, Piece.words, call.put)

LEMMA InCallFacts ==
    ASSUME Types, Cut, call # NoCall
    PROVE  /\ call \in Calls /\ call.put \in BOOLEAN /\ call.addr \in Nat /\ call.len \in Nat
           /\ addr = call.addr + off /\ off + len <= call.len
<1>1. call \in Calls
  BY DEF Types
<1>2. call.put \in BOOLEAN /\ call.addr \in Nat /\ call.len \in Nat
  BY <1>1, CallData
<1> QED BY <1>1, <1>2 DEF Cut

LEMMA CallBytes ==
    ASSUME Types, call # NoCall, NEW i \in 0 .. call.len - 1, NEW b, b = call.addr + i
    PROVE  /\ b \in Byte
           /\ call.put => b \in HostByte
           /\ call.put => call.data[i] \in Values
<1>1. PICK c : c = call
  OBVIOUS
<1>2. c \in Calls /\ i \in 0 .. c.len - 1
  BY <1>1 DEF Types
<1>3. c.addr + i \in Byte /\ (c.put => c.addr + i \in HostByte /\ c.data[i] \in Values)
  <2>1. \A j \in 0 .. c.len - 1 :
          /\ c.addr + j \in Byte
          /\ c.put => c.addr + j \in HostByte /\ c.data[j] \in Values
    BY <1>2, CallData, Zenon
  <2> QED BY <1>2, <2>1
<1> QED BY <1>1, <1>3

LEMMA LeastFacts ==
    ASSUME NEW a \in Nat, NEW b \in Nat
    PROVE  Least(a, b) \in Nat /\ Least(a, b) <= a /\ Least(a, b) <= b /\ Least(a, b) \in {a, b}
BY DEF Least

LEMMA HeadPiece ==
    ASSUME Types, Cut, loc \in {"head", "headRead"}, len # 0, ~Aligned(addr)
    PROVE  Sound /\ Piece.lo = off /\ Piece.hi = off + HeadLen
<1>1. call # NoCall /\ pos = 0 /\ addr \in Nat /\ len \in Nat /\ off \in Nat
  BY DEF Types, Cut
<1>2. PICK r, d, h : r = Rem(addr) /\ d = AlignDown(addr) /\ h = HeadLen
  OBVIOUS
<1>3. /\ r \in Nat /\ r # 0 /\ r < ALIGN /\ ALIGN \in Nat /\ d \in Nat /\ d = addr - r
  BY <1>1, <1>2, DownFacts DEF Aligned
<1>4. h \in Nat /\ h # 0 /\ h <= len /\ h <= ALIGN - r
  <2>1. PICK a : a = ALIGN - r
    OBVIOUS
  <2>2. h = Least(len, a)
    BY <1>2, <2>1 DEF HeadLen, Misaligned, Rem
  <2>3. a \in Nat /\ a # 0
    BY <1>3, <2>1
  <2> QED BY <1>1, <2>1, <2>2, <2>3, LeastFacts
<1>5. Piece = [at |-> d, words |-> 1, lo |-> off, hi |-> off + h]
  BY <1>2 DEF Piece
<1>6. Owned(d, 1, call.put)
  <2>1. off \in 0 .. call.len - 1 /\ addr = call.addr + off /\ call.put \in BOOLEAN
    BY <1>1, InCallFacts
  <2>2. addr \in Byte /\ (call.put => addr \in HostByte)
    BY <1>1, <2>1, CallBytes
  <2> QED BY <1>2, <2>1, <2>2, WordOwned
<1>7. Base = d - addr + off /\ Base = d - call.addr /\ Base = off - r
  BY <1>1, <1>3, <1>5, InCallFacts DEF Base
<1>8. 1 * ALIGN = ALIGN /\ (1 - 1) * ALIGN = 0
  BY <1>3
<1>9. PICK p, e : p = Piece /\ e = Base
  OBVIOUS
<1> QED BY <1>1, <1>2, <1>3, <1>4, <1>5, <1>6, <1>7, <1>8 DEF Sound

LEMMA TailPiece ==
    ASSUME Types, Cut, loc \in {"tail", "tailRead"}, ~Aligned(len)
    PROVE  Sound /\ Piece.lo = off + len - TailLen /\ Piece.hi = off + len
<1>1. call # NoCall /\ pos = 0 /\ addr \in Nat /\ len \in Nat /\ off \in Nat
  BY DEF Types, Cut
<1>2. PICK r, d : r = Rem(len) /\ d = AlignDown(len)
  OBVIOUS
<1>3. /\ r \in Nat /\ r # 0 /\ r < ALIGN /\ ALIGN \in Nat /\ d \in Nat /\ d = len - r /\ Aligned(d)
  BY <1>1, <1>2, DownFacts DEF Aligned
<1>4. Aligned(addr)
  BY <1>1, <1>3 DEF Cut
<1>5. TailLen = r
  BY <1>2 DEF TailLen, Rem
<1>6. PICK a : a = addr + d
  OBVIOUS
<1>7. a \in Nat /\ AlignDown(a) = a /\ a = addr + len - r
  BY <1>1, <1>3, <1>4, <1>6, Multiples, DownFacts
<1>8. Piece = [at |-> a, words |-> 1, lo |-> off + len - r, hi |-> off + len]
  BY <1>1, <1>3, <1>5, <1>6 DEF Piece
<1>9. Owned(a, 1, call.put)
  <2>1. PICK i : i = off + d
    OBVIOUS
  <2>2. i \in 0 .. call.len - 1 /\ a = call.addr + i /\ call.put \in BOOLEAN
    BY <1>1, <1>3, <1>6, <2>1, InCallFacts
  <2>3. a \in Byte /\ (call.put => a \in HostByte)
    BY <1>1, <2>2, CallBytes
  <2> QED BY <1>7, <2>2, <2>3, WordOwned
<1>10. Base = a - addr + off /\ Base = a - call.addr /\ Base = off + d
  BY <1>1, <1>3, <1>6, <1>8, InCallFacts DEF Base
<1>11. 1 * ALIGN = ALIGN /\ (1 - 1) * ALIGN = 0
  BY <1>3
<1> QED BY <1>1, <1>3, <1>5, <1>7, <1>8, <1>9, <1>10, <1>11 DEF Sound

LEMMA BodyPiece ==
    ASSUME Types, Cut, loc \in {"body", "bodyRead"}, pos < len
    PROVE  Sound /\ Whole /\ Piece.lo = off + pos /\ Piece.hi = off + pos + ChunkLen
<1>1. /\ call # NoCall /\ addr \in Nat /\ len \in Nat /\ off \in Nat /\ pos \in Nat
      /\ Aligned(len) /\ Aligned(pos)
  BY DEF Types, Cut
<1>2. PICK c : c = ChunkLen
  OBVIOUS
<1>3. ALIGN \in Nat /\ ALIGN > 0 /\ MAX_CHUNK \in Nat \ {0} /\ Aligned(MAX_CHUNK)
  BY AlignAssumption DEF Aligned, Rem
<1>4. c \in Nat /\ c # 0 /\ c <= len - pos /\ Aligned(c)
  <2>1. len - pos \in Nat /\ len - pos # 0 /\ Aligned(len - pos)
    BY <1>1, Multiples
  <2> QED BY <1>2, <1>3, <2>1, LeastFacts DEF ChunkLen
<1>5. PICK n : n = Quo(c)
  OBVIOUS
<1>6. n \in Nat /\ c = n * ALIGN /\ n # 0
  <2>1. n \in Nat /\ c = n * ALIGN + Rem(c) /\ Rem(c) = 0
    BY <1>4, <1>5, Division DEF Aligned
  <2>2. n * ALIGN \in Nat
    BY <1>3, <2>1
  <2>3. n = 0 => n * ALIGN = 0
    BY <1>3
  <2> QED BY <1>4, <2>1, <2>2, <2>3
<1>7. Piece = [at |-> addr + pos, words |-> n, lo |-> off + pos, hi |-> off + pos + c]
  BY <1>2, <1>5 DEF Piece, Quo
<1>8. Base = addr + pos - addr + off /\ Base = addr + pos - call.addr /\ Base = off + pos
  BY <1>1, <1>7, InCallFacts DEF Base
<1>9. Owned(addr + pos, n, call.put)
  <2>1. SUFFICES ASSUME NEW b \in Span(addr + pos, n)
                 PROVE  b \in Byte /\ (call.put => b \notin TargetByte)
    BY DEF Owned
  <2>2. b \in addr + pos .. addr + pos + c - 1
    BY <1>6 DEF Span
  <2>3. PICK i : i \in 0 .. call.len - 1 /\ b = call.addr + i
    <3>1. b - call.addr \in 0 .. call.len - 1 /\ b = call.addr + (b - call.addr)
      BY <1>1, <1>4, <2>2, InCallFacts
    <3> QED BY <3>1
  <2>4. b \in Byte /\ (call.put => b \in HostByte)
    BY <1>1, <2>3, CallBytes
  <2> QED BY <2>4, WordAssumption
<1>10. (n - 1) * ALIGN = c - ALIGN
  BY <1>3, <1>6
<1>11. Piece.words = n /\ Piece.lo = off + pos /\ Piece.hi = off + pos + c /\ Piece.at = addr + pos
  BY <1>7
<1>12. PICK m : m = (Piece.words - 1) * ALIGN
  OBVIOUS
<1>13. m = c - ALIGN /\ Piece.words * ALIGN = c
  BY <1>6, <1>10, <1>11, <1>12
<1>14. Base + m < Piece.hi /\ Piece.hi = Base + c /\ Piece.lo < Base + ALIGN
  BY <1>1, <1>3, <1>4, <1>8, <1>11, <1>13
<1>15. Sound
  <2>1. /\ Piece.at \in Nat /\ Piece.words \in Nat \ {0}
        /\ Piece.lo \in Nat /\ Piece.hi \in Nat /\ Piece.lo < Piece.hi
        /\ off + pos <= Piece.lo /\ Piece.hi <= off + len
    BY <1>1, <1>4, <1>6, <1>11
  <2>2. /\ Base \in Int /\ Base = Piece.at - call.addr
        /\ Base <= Piece.lo /\ Piece.lo < Base + ALIGN
    <3>1. Base \in Int /\ Base <= off + pos /\ off + pos < Base + ALIGN
      BY <1>1, <1>3, <1>8
    <3>2. Base = Piece.at - call.addr
      BY <1>1, <1>8, <1>11, InCallFacts
    <3> QED BY <1>11, <3>1, <3>2
  <2>3. /\ Piece.hi <= Base + Piece.words * ALIGN
        /\ Base + (Piece.words - 1) * ALIGN < Piece.hi
    <3>1. Piece.hi <= Base + c
      BY <1>1, <1>4, <1>8, <1>11
    <3> QED BY <1>12, <1>13, <1>14, <3>1
  <2>4. Owned(Piece.at, Piece.words, call.put)
    BY <1>9, <1>11
  <2> QED BY <2>1, <2>2, <2>3, <2>4 DEF Sound
<1> QED BY <1>2, <1>8, <1>11, <1>13, <1>14, <1>15 DEF Whole

(* A position among the bytes of n words, and its word.                     *)
LEMMA PositionWord ==
    ASSUME NEW n \in Nat, NEW d \in Nat, d < n * ALIGN
    PROVE  /\ Quo(d) \in Nat /\ Quo(d) < n /\ Rem(d) \in Lane
           /\ d = Quo(d) * ALIGN + Rem(d)
<1>1. PICK q, r : q = Quo(d) /\ r = Rem(d)
  OBVIOUS
<1>2. q \in Nat /\ r \in Nat /\ r < ALIGN /\ d = q * ALIGN + r
  BY <1>1, Division
<1>3. ALIGN \in Nat /\ q * ALIGN \in Nat /\ n * ALIGN \in Nat
  BY <1>2, AlignAssumption
<1>4. n < q => n * ALIGN + ALIGN <= q * ALIGN
  BY <1>2, Scaled
<1>5. q < n
  BY <1>2, <1>3, <1>4
<1> QED BY <1>1, <1>2, <1>3, <1>5 DEF Lane

LEMMA WordPosition ==
    ASSUME NEW n \in Nat, NEW k \in 1 .. n, NEW j \in Lane
    PROVE  /\ (k - 1) * ALIGN + j \in Nat /\ (k - 1) * ALIGN + j < n * ALIGN
           /\ (k - 1) * ALIGN \in Nat
           /\ Quo((k - 1) * ALIGN + j) = k - 1 /\ Rem((k - 1) * ALIGN + j) = j
<1>1. k - 1 \in Nat /\ k - 1 < n /\ j \in Nat /\ j < ALIGN /\ ALIGN \in Nat
  BY AlignAssumption DEF Lane
<1>2. (k - 1) * ALIGN + ALIGN <= n * ALIGN /\ (k - 1) * ALIGN \in Nat /\ n * ALIGN \in Nat
  BY <1>1, Scaled
<1>3. PICK m, d : m = (k - 1) * ALIGN /\ d = (k - 1) * ALIGN + j
  OBVIOUS
<1>4. d \in Nat /\ d < n * ALIGN /\ m \in Nat
  BY <1>1, <1>2, <1>3
<1>5. Quo(d) = k - 1 /\ Rem(d) = j
  BY <1>1, <1>3, <1>4, Quotient
<1> QED BY <1>3, <1>4, <1>5

Data == IF Reading THEN Copied(Fetched) ELSE buf

(* One write of the words of a piece.                                       *)
LEMMA SentPiece ==
    ASSUME Types, Cut, call # NoCall, call.put, Sound, Linked, Settled.st = "cmd", NEW ws,
           \A k \in 1 .. Piece.words, j \in Lane :
              InPiece(Base + (k - 1) * ALIGN + j)
                \/ ws[k][j] = Settled.mem[Piece.at + (k - 1) * ALIGN + j],
           SendWrite(Merged(ws))
    PROVE  /\ Linked' /\ Settled'.st = "cmd"
           /\ Settled'.mem = [b \in Byte |-> IF b - call.addr \in Piece.lo .. Piece.hi - 1
                                               THEN buf[b - call.addr] ELSE Settled.mem[b]]
<1>1. PICK at, n, lo, hi, base, words, mem, a :
             /\ at = Piece.at /\ n = Piece.words /\ lo = Piece.lo /\ hi = Piece.hi
             /\ base = Base /\ words = Merged(ws) /\ mem = Settled.mem /\ a = call.addr
  OBVIOUS
<1>2. /\ at \in Nat /\ n \in Nat \ {0} /\ lo \in Nat /\ hi \in Nat /\ base \in Int
      /\ a \in Nat /\ base = at - a /\ base <= lo /\ hi <= base + n * ALIGN
      /\ Owned(at, n, TRUE) /\ n * ALIGN \in Nat /\ ALIGN \in Nat
  <2>1. n * ALIGN \in Nat /\ ALIGN \in Nat
    BY <1>1, AlignAssumption DEF Sound
  <2>2. Owned(at, n, TRUE)
    BY <1>1 DEF Sound, Owned
  <2> QED BY <1>1, <2>1, <2>2, InCallFacts DEF Sound
<1>3. mem \in [Byte -> Values]
  BY <1>1, SafeChips DEF Safe, Machines
<1>4. \A i : InPiece(i) <=> lo <= i /\ i < hi
  BY <1>1 DEF InPiece
<1>5. words = [k \in 1 .. n |-> [j \in Lane |->
                 IF InPiece(base + (k - 1) * ALIGN + j)
                   THEN buf[base + (k - 1) * ALIGN + j] ELSE ws[k][j]]]
  BY <1>1 DEF Merged
<1>6. ASSUME NEW i \in Int, lo <= i, i < hi PROVE buf[i] \in Values
  <2>1. lo >= off + pos /\ hi <= off + len /\ off \in Nat /\ pos \in Nat /\ len \in Nat
    BY <1>1 DEF Sound, Types
  <2>2. i \in 0 .. call.len - 1
    BY <1>2, <1>6, <2>1, InCallFacts
  <2>3. buf = call.data
    BY DEF Cut
  <2>4. PICK b : b = call.addr + i
    OBVIOUS
  <2> QED BY <2>2, <2>3, <2>4, CallBytes
<1>7. ASSUME NEW k \in 1 .. n, NEW j \in Lane PROVE words[k][j] \in Values
  <2>1. PICK d : d = (k - 1) * ALIGN + j
    OBVIOUS
  <2>2. d \in Nat /\ d < n * ALIGN /\ (k - 1) * ALIGN \in Nat /\ j \in Nat
    BY <1>2, <2>1, WordPosition DEF Lane
  <2>3. base + (k - 1) * ALIGN + j = base + d /\ at + (k - 1) * ALIGN + j = at + d
    <3>1. PICK m : m = (k - 1) * ALIGN
      OBVIOUS
    <3>2. base + m + j = base + (m + j) /\ at + m + j = at + (m + j)
      BY <1>2, <2>2, <3>1
    <3> QED BY <2>1, <3>1, <3>2
  <2>4. words[k][j] = IF InPiece(base + d) THEN buf[base + d] ELSE ws[k][j]
    BY <1>5, <2>3
  <2>5. CASE InPiece(base + d)
    BY <1>2, <1>4, <1>6, <2>2, <2>4, <2>5
  <2>6. CASE ~InPiece(base + d)
    <3>1. ws[k][j] = mem[at + d]
      BY <1>1, <2>3, <2>6
    <3>2. at + d \in Byte
      <4>1. at + d \in Span(at, n)
        BY <1>2, <2>2 DEF Span
      <4> QED BY <1>2, <4>1 DEF Owned
    <3> QED BY <1>3, <2>4, <2>6, <3>1, <3>2
  <2> QED BY <2>5, <2>6
<1>8. words \in Seq(Word) /\ Len(words) = n
  <2>1. ASSUME NEW k \in 1 .. n PROVE words[k] \in Word
    BY <1>5, <1>7 DEF Word, Values
  <2>2. words \in [1 .. n -> Word]
    BY <1>5, <2>1
  <2> QED BY <1>2, <2>2
<1>9. /\ Linked'
      /\ Settled' = [st |-> "cmd", at |-> 0, left |-> 0, mem |-> Written(mem, at, words, n)]
  <2>1. chip' = chip /\ in_data' = in_data \o WriteCommand(at, words)
    BY <1>1 DEF SendWrite
  <2>2. at \in Nat /\ Len(words) # 0 /\ Owned(at, Len(words), TRUE)
    BY <1>2, <1>8
  <2>3. /\ Linked'
        /\ Settled' = [st |-> "cmd", at |-> 0, left |-> 0,
                       mem |-> Written(Settled.mem, at, words, Len(words))]
    BY <1>8, <2>1, <2>2, SentWords
  <2> QED BY <1>1, <1>8, <2>3
<1>10. ASSUME NEW b \in Byte
       PROVE  Written(mem, at, words, n)[b] = IF b - a \in lo .. hi - 1 THEN buf[b - a] ELSE mem[b]
  <2>1. b \in Nat
    BY ByteAssumption
  <2>2. Written(mem, at, words, n)[b] = IF b \in Span(at, n) THEN words[Quo(b - at) + 1][Rem(b - at)]
                                                           ELSE mem[b]
    BY DEF Written
  <2>3. CASE ~(b \in Span(at, n))
    <3>1. ~(b - a \in lo .. hi - 1)
      BY <1>2, <2>1, <2>3 DEF Span
    <3> QED BY <2>2, <2>3, <3>1
  <2>4. CASE b \in Span(at, n)
    <3>1. PICK d \in Nat : d = b - at
      BY <1>2, <2>1, <2>4 DEF Span
    <3>2. d < n * ALIGN
      BY <1>2, <2>1, <2>4, <3>1 DEF Span
    <3>3. PICK q, r : q = Quo(d) /\ r = Rem(d)
      OBVIOUS
    <3>4. q \in Nat /\ q < n /\ r \in Lane /\ d = q * ALIGN + r
      BY <1>2, <3>2, <3>3, PositionWord
    <3>5. q + 1 \in 1 .. n /\ q + 1 - 1 = q
      BY <1>2, <3>4
    <3>6. base + q * ALIGN + r = b - a /\ at + q * ALIGN + r = b
      <4>1. PICK m \in Nat : m = q * ALIGN
        BY <1>2, <3>4
      <4>2. r \in Nat /\ d = m + r
        BY <1>2, <3>4, <4>1 DEF Lane
      <4>3. base + m + r = b - a /\ at + m + r = b
        BY <1>2, <2>1, <3>1, <4>1, <4>2
      <4> QED BY <4>1, <4>3
    <3>7. words[q + 1][r] = IF InPiece(b - a) THEN buf[b - a] ELSE ws[q + 1][r]
      <4>1. words[q + 1][r] = IF InPiece(base + (q + 1 - 1) * ALIGN + r)
                                THEN buf[base + (q + 1 - 1) * ALIGN + r] ELSE ws[q + 1][r]
        BY <1>5, <3>4, <3>5
      <4> QED BY <3>5, <3>6, <4>1
    <3>8. InPiece(b - a) \/ ws[q + 1][r] = mem[b]
      <4>1. InPiece(base + (q + 1 - 1) * ALIGN + r)
              \/ ws[q + 1][r] = mem[at + (q + 1 - 1) * ALIGN + r]
        BY <1>1, <3>4, <3>5
      <4> QED BY <3>5, <3>6, <4>1
    <3>9. InPiece(b - a) <=> b - a \in lo .. hi - 1
      BY <1>2, <1>4, <2>1
    <3> QED BY <2>2, <2>4, <3>1, <3>3, <3>7, <3>8, <3>9
  <2> QED BY <2>3, <2>4
<1>11. Written(mem, at, words, n) = [b \in Byte |-> IF b - a \in lo .. hi - 1 THEN buf[b - a] ELSE mem[b]]
  <2>1. Written(mem, at, words, n) = [b \in Byte |-> Written(mem, at, words, n)[b]]
    BY DEF Written
  <2> QED BY <1>10, <2>1
<1> QED BY <1>1, <1>9, <1>11

(* The two kinds of steps of a call, as the memory of memif.h sees them.    *)
Quiet == Settled'.mem = Settled.mem /\ call' = call /\ Left' = Left /\ Data' = Data

Moved(now) ==
    /\ call # NoCall /\ call' = call
    /\ now # {} /\ now \subseteq Left /\ Left' = Left \ now
    /\ IF call.put
         THEN /\ Data' = Data
              /\ Settled'.mem = [b \in Byte |-> IF b - call.addr \in now
                                                  THEN Data[b - call.addr] ELSE Settled.mem[b]]
         ELSE /\ Settled'.mem = Settled.mem
              /\ Data' = [i \in DOMAIN Data |-> IF i \in now THEN Settled.mem[call.addr + i]
                                                            ELSE Data[i]]

LEMMA Kept ==
    ASSUME Linked, UNCHANGED <<in_data, chip>>
    PROVE  Linked' /\ Settled' = Settled
<1>1. PICK f : Course(f)
  BY DEF Linked
<1>2. (Course(f))' /\ in_data' \in Seq(Word \cup Commands)
  BY <1>1 DEF Course, Linked
<1>3. Linked' /\ Settled' = f[Len(in_data')]
  BY <1>2, CourseTo
<1>4. Settled = f[Len(in_data)]
  BY <1>1, CourseEnd DEF Ending, Linked
<1> QED BY <1>3, <1>4

LEMMA SameCall ==
    ASSUME UNCHANGED callVars
    PROVE  /\ UNCHANGED <<call, loc, addr, len, off, pos, buf, got>>
           /\ Piece' = Piece /\ Base' = Base /\ Reading' = Reading
           /\ Cut' = Cut
<1>1. UNCHANGED <<call, loc, addr, len, off, pos, buf, got>>
  BY DEF callVars
<1>2. Piece' = Piece
  BY <1>1 DEF Piece, HeadLen, TailLen, ChunkLen, Misaligned
<1>3. Base' = Base /\ Reading' = Reading
  BY <1>1, <1>2 DEF Base, Reading
<1>4. Cut' = Cut
  BY <1>1 DEF Cut
<1> QED BY <1>1, <1>2, <1>3, <1>4

LEMMA SameData ==
    ASSUME UNCHANGED <<out_data, callVars>>
    PROVE  Left' = Left /\ Data' = Data /\ Fetched' = Fetched
<1>1. /\ UNCHANGED <<call, loc, addr, len, off, pos, buf, got>>
      /\ Piece' = Piece /\ Base' = Base /\ Reading' = Reading
  BY SameCall
<1>2. Fetched' = Fetched
  BY <1>1 DEF Fetched
<1>3. Left' = Left
  BY <1>1, <1>2 DEF Left, InPiece
<1>4. Data' = Data
  BY <1>1, <1>2 DEF Data, Copied, InPiece
<1> QED BY <1>2, <1>3, <1>4

(* The course ends where it did, and the call has not gone on.              *)
LEMMA SameStep ==
    ASSUME IInv, UNCHANGED <<out_data, callVars>>, running' \in {"host", "target"},
           Linked', Settled' = Settled
    PROVE  IInv' /\ Quiet
<1>1. /\ UNCHANGED <<call, loc, addr, len, off, pos, buf, got>>
      /\ Piece' = Piece /\ Cut' = Cut
  BY SameCall
<1>2. Left' = Left /\ Data' = Data /\ Fetched' = Fetched
  BY SameData
<1>3. Types'
  BY <1>1 DEF IInv, Types
<1>4. Coming' /\ ReadBack'
  BY <1>1, <1>2 DEF IInv, Coming, ReadBack
<1> QED BY <1>1, <1>2, <1>3, <1>4 DEF IInv, Quiet

LEMMA ReadSound ==
    ASSUME IInv, loc \in Reads
    PROVE  /\ Sound /\ call # NoCall
           /\ Fetched \in Seq(Word) /\ Len(Fetched) \in Nat /\ Len(Fetched) <= Piece.words
<1>1. call # NoCall /\ len \in Nat
  BY DEF IInv, Types, Reads
<1>2. Sound
  <2>1. CASE loc = "headRead"
    BY <1>1, <2>1, HeadPiece DEF IInv, Cut
  <2>2. CASE loc = "tailRead"
    BY <1>1, <2>2, TailPiece DEF IInv, Cut
  <2>3. CASE loc = "bodyRead"
    BY <1>1, <2>3, BodyPiece DEF IInv, Cut
  <2> QED BY <2>1, <2>2, <2>3 DEF Reads
<1>3. Fetched \in Seq(Word) /\ Len(Fetched) \in Nat
  BY DEF Fetched, IInv, Types
<1>4. Settled.left \in Nat
  BY SafeChips DEF IInv, Safe, Machines
<1>5. Len(Fetched) <= Piece.words
  BY <1>2, <1>3, <1>4 DEF IInv, Coming, Sound
<1> QED BY <1>1, <1>2, <1>3, <1>5

(* The target stores into a byte of its own, outside the piece.             *)
LEMMA StoreStep ==
    ASSUME IInv, NEW b \in TargetByte, NEW v \in Values, Store(b, v), UNCHANGED callVars
    PROVE  /\ IInv' /\ call' = call /\ Left' = Left /\ Data' = Data
           /\ Settled'.mem = [Settled.mem EXCEPT ![b] = v]
<1>1. /\ UNCHANGED <<call, loc, addr, len, off, pos, buf, got>>
      /\ Piece' = Piece /\ Base' = Base /\ Cut' = Cut
  BY SameCall
<1>2. out_data' = out_data /\ running' = running
  BY DEF Store
<1>3. Left' = Left /\ Data' = Data /\ Fetched' = Fetched
  BY <1>2, SameData
<1>4. Linked' /\ Settled' = [Settled EXCEPT !.mem[b] = v]
  BY StoredAtEnd DEF IInv
<1>5. Settled \in Machines
  BY SafeChips DEF IInv, Safe
<1>6. /\ Settled'.st = Settled.st /\ Settled'.at = Settled.at /\ Settled'.left = Settled.left
      /\ Settled'.mem = [Settled.mem EXCEPT ![b] = v]
  BY <1>4, <1>5 DEF Machines
<1>7. Types' /\ Coming'
  BY <1>1, <1>2, <1>3, <1>6 DEF IInv, Types, Coming
<1>8. ReadBack'
  <2>1. SUFFICES ASSUME loc \in Reads, call.put, NEW k \in 1 .. Len(Fetched), NEW j \in Lane
                 PROVE  Settled'.mem[Piece.at + (k - 1) * ALIGN + j]
                          = Settled.mem[Piece.at + (k - 1) * ALIGN + j]
    BY <1>1, <1>3 DEF ReadBack, IInv
  <2>3. Sound
    BY <2>1, ReadSound
  <2>4. Len(Fetched) \in Nat /\ Len(Fetched) <= Piece.words /\ Piece.words \in Nat
    BY <2>1, ReadSound DEF Sound
  <2>5. PICK n : n = Piece.words
    OBVIOUS
  <2>6. PICK d, a : d = (k - 1) * ALIGN + j /\ a = Piece.at
    OBVIOUS
  <2>7. d \in Nat /\ d < n * ALIGN /\ (k - 1) * ALIGN \in Nat /\ j \in Nat /\ a \in Nat
    <3>1. k \in 1 .. n /\ n \in Nat
      BY <2>4, <2>5
    <3> QED BY <2>3, <2>6, <3>1, WordPosition DEF Lane, Sound
  <2>8. a + (k - 1) * ALIGN + j = a + d
    <3>1. PICK m : m = (k - 1) * ALIGN
      OBVIOUS
    <3> QED BY <2>6, <2>7, <3>1
  <2>9. a + d \in Span(a, n) /\ Owned(a, n, TRUE)
    <3>1. n * ALIGN \in Nat
      BY <2>4, <2>5, AlignAssumption
    <3>2. Owned(a, n, TRUE)
      BY <2>1, <2>3, <2>5, <2>6 DEF Sound, Owned
    <3>3. PICK m \in Nat : m = n * ALIGN
      BY <3>1
    <3>4. a + d \in a .. a + m - 1
      BY <2>7, <3>3
    <3> QED BY <3>2, <3>3, <3>4 DEF Span
  <2>10. a + d # b
    BY <2>9 DEF Owned
  <2>11. Settled.mem \in [Byte -> Values] /\ a + d \in Byte
    BY <1>5, <2>9 DEF Machines, Owned
  <2> QED BY <1>6, <2>6, <2>8, <2>10, <2>11
<1> QED BY <1>1, <1>3, <1>4, <1>6, <1>7, <1>8 DEF IInv

(* Where a call is not in a read, nothing is expected from the target.      *)
LEMMA OutsideReads ==
    ASSUME Types', Cut', Linked', Settled'.st = "cmd", out_data' = <<>>, loc' \notin Reads
    PROVE  IInv'
BY DEF IInv, Coming, ReadBack

(* The host receives a word that the target has given.                      *)
LEMMA RecvStep ==
    ASSUME IInv, RecvWord
    PROVE  IInv' /\ Quiet
<1>1. /\ UNCHANGED <<running, in_data, chip, call, loc, addr, len, off, pos, buf>>
      /\ got' = Append(got, Head(out_data)) /\ out_data' = Tail(out_data) /\ out_data # <<>>
      /\ loc \in Reads
  BY DEF RecvWord, Awaiting, Reads
<1>2. got \in Seq(Word) /\ out_data \in Seq(Word)
  BY DEF IInv, Types
<1>3. PICK w, m, n : w = Head(out_data) /\ m = Len(got) /\ n = Len(out_data)
  OBVIOUS
<1>4. /\ m \in Nat /\ n \in Nat \ {0} /\ w \in Word /\ w = out_data[1]
      /\ got' \in Seq(Word) /\ Len(got') = m + 1 /\ got'[m + 1] = w
      /\ \A k \in 1 .. m : got'[k] = got[k]
      /\ out_data' \in Seq(Word) /\ Len(out_data') = n - 1
      /\ \A k \in 1 .. n - 1 : out_data'[k] = out_data[k + 1]
  BY <1>1, <1>2, <1>3
<1>5. Fetched' = Fetched
  <2>1. PICK f, g : f = got \o out_data /\ g = got' \o out_data'
    OBVIOUS
  <2>2. /\ f \in Seq(Word) /\ g \in Seq(Word) /\ Len(f) = m + n /\ Len(g) = m + n
        /\ \A k \in 1 .. m + n : f[k] = IF k <= m THEN got[k] ELSE out_data[k - m]
        /\ \A k \in 1 .. m + n : g[k] = IF k <= m + 1 THEN got'[k] ELSE out_data'[k - (m + 1)]
    <3>1. PICK p, q : p = got' /\ q = out_data'
      OBVIOUS
    <3>2. p \in Seq(Word) /\ q \in Seq(Word) /\ Len(p) = m + 1 /\ Len(q) = n - 1 /\ g = p \o q
      BY <1>4, <2>1, <3>1
    <3>3. m + 1 + (n - 1) = m + n
      BY <1>4
    <3>4. /\ g \in Seq(Word) /\ Len(g) = m + n
          /\ \A k \in 1 .. m + n : g[k] = IF k <= m + 1 THEN p[k] ELSE q[k - (m + 1)]
      <4>1. /\ p \o q \in Seq(Word) /\ Len(p \o q) = Len(p) + Len(q)
            /\ \A k \in 1 .. Len(p) + Len(q) : (p \o q)[k] = IF k <= Len(p) THEN p[k]
                                                                          ELSE q[k - Len(p)]
        BY <3>2, ConcatProperties
      <4>2. Len(p) + Len(q) = m + n
        BY <3>2, <3>3
      <4> QED BY <3>2, <4>1, <4>2
    <3>5. /\ f \in Seq(Word) /\ Len(f) = m + n
          /\ \A k \in 1 .. m + n : f[k] = IF k <= m THEN got[k] ELSE out_data[k - m]
      BY <1>2, <1>3, <2>1, ConcatProperties
    <3> QED BY <3>1, <3>4, <3>5
  <2>3. ASSUME NEW k \in 1 .. m + n PROVE f[k] = g[k]
    <3>1. CASE k <= m
      <4>1. k \in 1 .. m /\ k <= m + 1
        BY <1>4, <3>1
      <4>2. f[k] = got[k] /\ g[k] = got'[k]
        BY <2>2, <3>1, <4>1
      <4> QED BY <1>4, <4>1, <4>2
    <3>2. CASE k = m + 1
      <4>1. k - m = 1 /\ ~(k <= m) /\ k <= m + 1
        BY <1>4, <3>2
      <4> QED BY <1>4, <2>2, <3>2, <4>1
    <3>3. CASE k > m + 1
      <4>1. k - (m + 1) \in 1 .. n - 1 /\ k - (m + 1) + 1 = k - m /\ ~(k <= m) /\ ~(k <= m + 1)
        BY <1>4, <3>3
      <4>2. f[k] = out_data[k - m] /\ g[k] = out_data'[k - (m + 1)]
        BY <2>2, <4>1
      <4>3. out_data'[k - (m + 1)] = out_data[k - (m + 1) + 1]
        BY <1>4, <4>1
      <4> QED BY <4>1, <4>2, <4>3
    <3> QED BY <1>4, <3>1, <3>2, <3>3
  <2>4. f = g
    BY <2>2, <2>3, SeqEqual
  <2> QED BY <2>1, <2>4 DEF Fetched
<1>6. Piece' = Piece /\ Base' = Base /\ Reading' = Reading
  <2>1. Piece' = Piece
    BY <1>1 DEF Piece, HeadLen, TailLen, ChunkLen, Misaligned
  <2> QED BY <1>1, <2>1 DEF Base, Reading
<1>7. Linked' /\ Settled' = Settled
  BY <1>1, Kept DEF IInv
<1>8. Types' /\ Cut'
  BY <1>1, <1>4 DEF IInv, Types, Cut
<1>9. Coming' /\ ReadBack'
  BY <1>1, <1>5, <1>6, <1>7 DEF IInv, Coming, ReadBack
<1>10. Left' = Left /\ Data' = Data
  <2>1. Left' = Left
    BY <1>1, <1>5, <1>6 DEF Left, InPiece
  <2>2. Data' = Data
    BY <1>1, <1>5, <1>6 DEF Data, Copied, InPiece
  <2> QED BY <2>1, <2>2
<1> QED BY <1>1, <1>7, <1>8, <1>9, <1>10 DEF IInv, Quiet

(* The host asks for the words of a piece.                                  *)
LEMMA AskStep ==
    ASSUME IInv, running = "host", call # NoCall, NEW l \in Reads, loc \notin Reads,
           SendRead(l), Sound, Piece' = Piece, Cut'
    PROVE  IInv' /\ Quiet
<1>1. /\ UNCHANGED <<running, out_data, chip, call, addr, len, off, pos, buf>>
      /\ got' = <<>> /\ loc' = l /\ in_data' = in_data \o ReadCommand(Piece.at, Piece.words)
  BY DEF SendRead
<1>2. PICK a, n : a = Piece.at /\ n = Piece.words
  OBVIOUS
<1>3. a \in Nat /\ n \in Nat \ {0} /\ Owned(a, n, FALSE)
  BY <1>2 DEF Sound, Owned
<1>4. Settled.st = "cmd" /\ out_data = <<>>
  BY DEF IInv, Coming
<1>5. /\ Linked'
      /\ Settled' = [st |-> "read", at |-> a, left |-> n - 1, mem |-> Settled.mem]
  BY <1>1, <1>2, <1>3, <1>4, SentRead DEF IInv
<1>6. Fetched' = <<>> /\ Len(Fetched') = 0
  BY <1>1, <1>4 DEF Fetched
<1>7. Types'
  BY <1>1 DEF IInv, Types, Reads
<1>8. Coming' /\ ReadBack'
  <2>1. a + 0 * ALIGN = a /\ n - 1 + 1 + 0 = n
    BY <1>3, AlignAssumption
  <2>2. Coming'
    BY <1>1, <1>2, <1>5, <1>6, <2>1 DEF Coming
  <2>3. ReadBack'
    BY <1>6 DEF ReadBack
  <2> QED BY <2>2, <2>3
<1>9. Base' = Base /\ \A i \in Int : InPiece(i) => ~(i - Base < 0)
  BY <1>1 DEF Base, Sound, InPiece
<1>10. Left' = Left /\ Data' = Data
  <2>1. ~Reading /\ 0 * ALIGN = 0
    BY AlignAssumption DEF Reading, Reads
  <2>2. \A i \in Int : ~(Reading' /\ (InPiece(i))' /\ i - Base' < Len(Fetched') * ALIGN)
    BY <1>6, <1>9, <2>1 DEF InPiece
  <2>3. off \in Nat /\ pos \in Nat /\ len \in Nat
    BY DEF IInv, Types
  <2>4. Left' = Left
    BY <1>1, <2>1, <2>2, <2>3 DEF Left
  <2>5. \A i \in DOMAIN buf : i \in Int
    BY DEF IInv, Cut
  <2>6. buf = [i \in DOMAIN buf |-> buf[i]]
    BY DEF IInv, Cut
  <2>7. (Copied(<<>>))' = buf
    <3>1. (Copied(<<>>))' = [i \in DOMAIN buf' |->
             IF (InPiece(i))' /\ i - Base' < Len(<<>>) * ALIGN
               THEN (<<>>)[(i - Base') \div ALIGN + 1][(i - Base') % ALIGN] ELSE buf'[i]]
      BY DEF Copied
    <3>2. \A i \in Int : ~((InPiece(i))' /\ i - Base' < Len(<<>>) * ALIGN)
      BY <1>9, <2>1 DEF InPiece
    <3> QED BY <1>1, <2>5, <2>6, <3>1, <3>2
  <2>8. Data' = Data
    BY <1>1, <1>6, <2>1, <2>7 DEF Data
  <2> QED BY <2>4, <2>8
<1> QED BY <1>1, <1>5, <1>7, <1>8, <1>10 DEF IInv, Quiet

(* The target gives the next word of the piece.                             *)
LEMMA GiveWord ==
    ASSUME IInv, TickOut, UNCHANGED callVars
    PROVE  /\ IInv' /\ loc \in Reads /\ Settled'.mem = Settled.mem
           /\ Len(Fetched) < Piece.words /\ Len(Fetched') = Len(Fetched) + 1
           /\ \A k \in 1 .. Len(Fetched) : Fetched'[k] = Fetched[k]
           /\ Fetched'[Len(Fetched) + 1]
                = [j \in Lane |-> Settled.mem[Piece.at + Len(Fetched) * ALIGN + j]]
<1>1. /\ Linked' /\ Settled = chip /\ Settled' = Advanced(chip)
      /\ Safe(chip) /\ chip.st = "read" /\ in_data = <<>>
  BY GivesWord DEF IInv
<1>2. /\ UNCHANGED <<call, loc, addr, len, off, pos, buf, got>>
      /\ Piece' = Piece /\ Cut' = Cut
  BY SameCall
<1>3. loc \in Reads
  BY <1>1 DEF IInv, Coming
<1>4. /\ Sound /\ call # NoCall
      /\ Fetched \in Seq(Word) /\ Len(Fetched) \in Nat /\ Len(Fetched) <= Piece.words
  BY <1>3, ReadSound
<1>5. PICK c, d, F, n, a, w : /\ c = chip /\ d = Advanced(chip) /\ F = Len(Fetched)
                              /\ n = Piece.words /\ a = Piece.at
                              /\ w = [j \in Lane |-> chip.mem[chip.at + j]]
  OBVIOUS
<1>6. c \in Machines /\ Owned(c.at, c.left + 1, FALSE) /\ c.left \in Nat /\ c.at \in Nat
  BY <1>1, <1>5 DEF Safe, Machines
<1>7. c.left + 1 + F = n /\ c.at = a + F * ALIGN
  BY <1>1, <1>3, <1>5 DEF IInv, Coming
<1>8. w \in Word /\ w = [j \in Lane |-> c.mem[c.at + j]]
  <2>1. ASSUME NEW j \in Lane PROVE c.at + j \in Byte
    <3>1. c.at + j \in Span(c.at, c.left + 1)
      BY <1>6, SpanStep
    <3> QED BY <1>6, <3>1 DEF Owned
  <2> QED BY <1>5, <1>6, <2>1 DEF Word, Machines, Values
<1>9. /\ Len(Fetched') = F + 1 /\ Fetched'[F + 1] = w
      /\ \A k \in 1 .. F : Fetched'[k] = Fetched[k]
  <2>1. out_data' = Append(out_data, w) /\ got' = got /\ got \in Seq(Word) /\ out_data \in Seq(Word)
    BY <1>2, <1>5 DEF TickOut, IInv, Types
  <2>2. got \o Append(out_data, w) = Append(got \o out_data, w)
    BY <1>8, <2>1
  <2>3. Fetched' = Append(Fetched, w)
    BY <2>1, <2>2 DEF Fetched
  <2> QED BY <1>4, <1>5, <1>8, <2>3
<1>10. /\ d.mem = c.mem
       /\ d.st = IF c.left = 0 THEN "cmd" ELSE "read"
       /\ d.left = IF c.left = 0 THEN 0 ELSE c.left - 1
       /\ d.at = IF c.left = 0 THEN 0 ELSE c.at + ALIGN
  <2>1. d = [st |-> IF c.left = 0 THEN "cmd" ELSE c.st,
             at |-> IF c.left = 0 THEN 0 ELSE c.at + ALIGN,
             left |-> IF c.left = 0 THEN 0 ELSE c.left - 1, mem |-> c.mem]
    BY <1>1, <1>5, AdvancedSafe
  <2> QED BY <1>1, <1>5, <2>1
<1>11. F \in Nat /\ a \in Nat /\ n \in Nat /\ F < n
  BY <1>4, <1>5, <1>6, <1>7 DEF Sound
<1>12. Types'
  <2>1. out_data' = Append(out_data, w) /\ out_data \in Seq(Word) /\ running' = running
    BY <1>5 DEF TickOut, IInv, Types
  <2>2. out_data' \in Seq(Word)
    BY <1>8, <2>1
  <2> QED BY <1>2, <2>1, <2>2 DEF IInv, Types
<1>13. Coming'
  <2>1. c.left # 0 => c.at + ALIGN = a + (F + 1) * ALIGN
    <3>1. PICK p, q : p = F * ALIGN /\ q = (F + 1) * ALIGN
      OBVIOUS
    <3>2. p \in Nat /\ q = p + ALIGN /\ ALIGN \in Nat
      BY <1>11, <3>1, AlignAssumption
    <3> QED BY <1>7, <1>11, <3>1, <3>2
  <2>2. c.left # 0 => c.left - 1 + 1 + (F + 1) = n
    BY <1>6, <1>7, <1>11
  <2>3. c.left = 0 => F + 1 = n
    BY <1>7, <1>11
  <2> QED BY <1>1, <1>2, <1>3, <1>5, <1>9, <1>10, <2>1, <2>2, <2>3 DEF Coming
<1>14. ReadBack'
  <2>1. SUFFICES ASSUME call.put, NEW k \in 1 .. F + 1, NEW j \in Lane
                 PROVE  Fetched'[k][j] = c.mem[a + (k - 1) * ALIGN + j]
    BY <1>1, <1>2, <1>5, <1>9, <1>10 DEF ReadBack
  <2>2. CASE k = F + 1
    <3>1. k - 1 = F
      BY <1>11, <2>2
    <3>2. w[j] = c.mem[c.at + j]
      BY <1>8
    <3> QED BY <1>7, <1>9, <2>2, <3>1, <3>2
  <2>3. CASE k # F + 1
    <3>1. k \in 1 .. F
      BY <1>11, <2>3
    <3> QED BY <1>1, <1>3, <1>5, <1>9, <2>1, <3>1 DEF IInv, ReadBack
  <2> QED BY <2>2, <2>3
<1>15. w = [j \in Lane |-> Settled.mem[Piece.at + F * ALIGN + j]]
  BY <1>1, <1>5, <1>7, <1>8
<1> QED BY <1>1, <1>2, <1>3, <1>5, <1>9, <1>10, <1>11, <1>12, <1>13, <1>14, <1>15 DEF IInv

(* A read transfers what the word holds of the range.                       *)
LEMMA GiveStep ==
    ASSUME IInv, TickOut, UNCHANGED callVars
    PROVE  IInv' /\ (Quiet \/ \E now : Moved(now))
<1>1. /\ IInv' /\ loc \in Reads /\ Settled'.mem = Settled.mem
      /\ Len(Fetched) < Piece.words /\ Len(Fetched') = Len(Fetched) + 1
      /\ \A k \in 1 .. Len(Fetched) : Fetched'[k] = Fetched[k]
      /\ Fetched'[Len(Fetched) + 1]
           = [j \in Lane |-> Settled.mem[Piece.at + Len(Fetched) * ALIGN + j]]
  BY GiveWord
<1>2. /\ UNCHANGED <<call, loc, addr, len, off, pos, buf, got>>
      /\ Piece' = Piece /\ Base' = Base /\ Reading' = Reading
  BY SameCall
<1>3. Sound /\ call # NoCall /\ Len(Fetched) \in Nat
  BY <1>1, ReadSound
<1>4. CASE call.put
  <2>1. ~Reading
    BY <1>4 DEF Reading
  <2>2. Left' = Left
    BY <1>2, <2>1 DEF Left
  <2>3. Data' = Data
    BY <1>2, <2>1 DEF Data
  <2> QED BY <1>1, <1>2, <2>2, <2>3 DEF Quiet
<1>5. CASE ~call.put
  <2>1. Reading
    BY <1>1, <1>5 DEF Reading, Reads
  <2>2. PICK F, base, lo, hi, m, mem, D, f, g, a, at :
           /\ F = Len(Fetched) /\ base = Base /\ lo = Piece.lo /\ hi = Piece.hi /\ m = F * ALIGN
           /\ mem = Settled.mem /\ D = DOMAIN buf /\ f = Fetched /\ g = Fetched'
           /\ a = call.addr /\ at = Piece.at
    OBVIOUS
  <2>3. /\ F \in Nat /\ base \in Int /\ lo \in Nat /\ hi \in Nat /\ m \in Nat /\ ALIGN \in Nat \ {0}
        /\ (F + 1) * ALIGN = m + ALIGN /\ a \in Nat /\ at \in Nat /\ base = at - a
        /\ D = 0 .. call.len - 1
    <3>1. F \in Nat /\ m \in Nat /\ ALIGN \in Nat \ {0} /\ (F + 1) * ALIGN = m + ALIGN
      BY <1>3, <2>2, AlignAssumption
    <3>2. base \in Int /\ lo \in Nat /\ hi \in Nat /\ at \in Nat /\ base = at - a
      BY <1>3, <2>2 DEF Sound
    <3>3. a \in Nat
      BY <1>3, <2>2, InCallFacts DEF IInv
    <3>4. D = 0 .. call.len - 1
      BY <1>3, <2>2 DEF IInv, Cut
    <3> QED BY <3>1, <3>2, <3>3, <3>4
  <2>4. PICK now : now = {i \in lo .. hi - 1 : m <= i - base /\ i - base < m + ALIGN}
    OBVIOUS
  <2>5. /\ off + pos <= lo /\ hi <= off + len /\ off + len <= call.len /\ call.len \in Nat
        /\ off \in Nat /\ pos \in Nat /\ len \in Nat
    BY <1>3, <2>2, InCallFacts DEF IInv, Sound, Types
  <2>6. \A i : InPiece(i) <=> lo <= i /\ i < hi
    BY <2>2 DEF InPiece
  <2>7. Left = {i \in off + pos .. off + len - 1 : ~(lo <= i /\ i < hi /\ i - base < m)}
    BY <1>3, <2>1, <2>2, <2>6 DEF Left
  <2>8. Left' = {i \in off + pos .. off + len - 1 : ~(lo <= i /\ i < hi /\ i - base < m + ALIGN)}
    <3>1. Len(Fetched') * ALIGN = m + ALIGN
      BY <1>1, <2>2, <2>3
    <3>2. \A i : (InPiece(i))' <=> lo <= i /\ i < hi
      BY <1>2, <2>2 DEF InPiece
    <3> QED BY <1>2, <1>3, <2>1, <2>2, <3>1, <3>2 DEF Left
  <2>9. now \subseteq Left /\ Left' = Left \ now
    <3>1. now \subseteq Left
      BY <2>3, <2>4, <2>5, <2>7
    <3>2. \A i \in Int : i \in Left' <=> i \in Left /\ i \notin now
      <4> SUFFICES ASSUME NEW i \in Int PROVE i \in Left' <=> i \in Left /\ i \notin now
        OBVIOUS
      <4>1. i \in now <=> lo <= i /\ i < hi /\ m <= i - base /\ i - base < m + ALIGN
        BY <2>3, <2>4
      <4>2. /\ i \in Left <=> /\ i \in off + pos .. off + len - 1
                             /\ ~(lo <= i /\ i < hi /\ i - base < m)
            /\ i \in Left' <=> /\ i \in off + pos .. off + len - 1
                              /\ ~(lo <= i /\ i < hi /\ i - base < m + ALIGN)
        BY <2>7, <2>8
      <4> QED BY <2>3, <4>1, <4>2
    <3>3. \A i \in Left \cup Left' : i \in Int
      BY <2>7, <2>8
    <3>4. Left' = Left \ now
      BY <3>2, <3>3
    <3> QED BY <3>1, <3>4
  <2>10. now # {}
    <3>1. base <= lo /\ lo < base + ALIGN /\ lo < hi /\ base + (Piece.words - 1) * ALIGN < hi
      BY <1>3, <2>2 DEF Sound
    <3>2. m < hi - base
      <4>1. PICK M : M = (Piece.words - 1) * ALIGN
        OBVIOUS
      <4>2. Piece.words \in Nat \ {0} /\ Piece.words - 1 \in Nat /\ F <= Piece.words - 1
        BY <1>1, <1>3, <2>2 DEF Sound
      <4>3. M \in Nat /\ m <= M
        <5>1. F < Piece.words - 1 => m + ALIGN <= M
          BY <2>2, <2>3, <4>1, <4>2, Scaled
        <5>2. F = Piece.words - 1 => m = M
          BY <2>2, <4>1
        <5>3. M \in Nat
          BY <4>1, <4>2, AlignAssumption
        <5> QED BY <2>3, <4>2, <5>1, <5>2, <5>3
      <4> QED BY <2>3, <3>1, <4>1, <4>3
    <3>3. F # 0 => ALIGN <= m
      <4>1. F # 0 => 0 < F
        BY <2>3
      <4>2. 0 < F => 0 * ALIGN + ALIGN <= m
        BY <2>2, <2>3, Scaled
      <4> QED BY <2>3, <4>1, <4>2
    <3>4. F = 0 => m = 0
      BY <2>2, <2>3
    <3>5. CASE lo <= base + m
      <4>1. base + m \in now
        BY <2>3, <2>4, <3>2, <3>5
      <4> QED BY <4>1
    <3>6. CASE lo > base + m
      <4>1. lo \in now
        BY <2>3, <2>4, <3>1, <3>3, <3>4, <3>6
      <4> QED BY <4>1
    <3> QED BY <2>3, <3>5, <3>6
  <2>11. Data = [i \in D |-> IF lo <= i /\ i < hi /\ i - base < m
                               THEN f[Quo(i - base) + 1][Rem(i - base)] ELSE buf[i]]
    BY <2>1, <2>2, <2>6 DEF Data, Copied, Quo, Rem
  <2>12. Data' = [i \in D |-> IF lo <= i /\ i < hi /\ i - base < m + ALIGN
                                THEN g[Quo(i - base) + 1][Rem(i - base)] ELSE buf[i]]
    <3>1. Len(Fetched') * ALIGN = m + ALIGN
      BY <1>1, <2>2, <2>3
    <3>2. \A i : (InPiece(i))' <=> lo <= i /\ i < hi
      BY <1>2, <2>2 DEF InPiece
    <3> QED BY <1>2, <2>1, <2>2, <3>1, <3>2 DEF Data, Copied, Quo, Rem
  <2>13. ASSUME NEW i \in D
         PROVE  (IF lo <= i /\ i < hi /\ i - base < m + ALIGN
                   THEN g[Quo(i - base) + 1][Rem(i - base)] ELSE buf[i])
                 = IF i \in now THEN mem[a + i]
                   ELSE IF lo <= i /\ i < hi /\ i - base < m
                          THEN f[Quo(i - base) + 1][Rem(i - base)] ELSE buf[i]
    <3>1. i \in Nat /\ base <= lo
      BY <1>3, <2>2, <2>3 DEF Sound
    <3>2. CASE i \in now
      <4>1. lo <= i /\ i < hi /\ i - base < m + ALIGN /\ m <= i - base
        BY <2>3, <2>4, <3>1, <3>2
      <4>2. PICK d \in Nat, r \in Nat : d = i - base /\ r = d - m
        BY <2>3, <3>1, <4>1
      <4>3. d = F * ALIGN + r /\ r < ALIGN
        <5>1. d = m + r /\ r < ALIGN
          BY <2>3, <3>1, <4>1, <4>2
        <5> QED BY <2>2, <5>1
      <4>4. Quo(d) = F /\ Rem(d) = r
        BY <2>3, <4>3, Quotient
      <4>5. r \in Lane /\ at + m + r = a + i
        BY <2>3, <3>1, <4>2, <4>3 DEF Lane
      <4>6. g[F + 1][r] = mem[at + m + r]
        BY <1>1, <2>2, <4>5
      <4> QED BY <3>2, <4>1, <4>2, <4>4, <4>5, <4>6
    <3>3. CASE lo <= i /\ i < hi /\ i - base < m
      <4>1. PICK d \in Nat : d = i - base
        BY <2>3, <3>1, <3>3
      <4>2. i \notin now /\ i - base < m + ALIGN
        BY <2>3, <2>4, <3>1, <3>3
      <4>3. Quo(d) \in Nat /\ Quo(d) < F
        BY <2>2, <2>3, <3>3, <4>1, PositionWord
      <4>4. Quo(d) + 1 \in 1 .. F
        BY <2>3, <4>3
      <4>5. g[Quo(d) + 1] = f[Quo(d) + 1]
        BY <1>1, <2>2, <4>4
      <4> QED BY <3>3, <4>1, <4>2, <4>5
    <3>4. CASE i \notin now /\ ~(lo <= i /\ i < hi /\ i - base < m)
      <4>1. ~(lo <= i /\ i < hi /\ i - base < m + ALIGN)
        BY <2>3, <2>4, <3>1, <3>4
      <4> QED BY <3>4, <4>1
    <3> QED BY <3>2, <3>3, <3>4
  <2>14. DOMAIN Data = D
    BY <2>11
  <2>15. Data' = [i \in DOMAIN Data |-> IF i \in now THEN mem[a + i] ELSE Data[i]]
    BY <2>11, <2>12, <2>13, <2>14
  <2>16. Moved(now)
    BY <1>1, <1>2, <1>3, <1>5, <2>2, <2>9, <2>10, <2>15 DEF Moved
  <2> QED BY <1>1, <2>16
<1> QED BY <1>4, <1>5

(* The words of a piece are there.                                          *)
LEMMA Arrived ==
    ASSUME IInv, loc \in Reads, ~Awaiting
    PROVE  /\ Settled.st = "cmd" /\ out_data = <<>> /\ Fetched = got /\ Len(got) = Piece.words
           /\ Sound /\ call # NoCall
<1>1. Sound /\ call # NoCall /\ Len(Fetched) \in Nat /\ Len(Fetched) <= Piece.words
  BY ReadSound
<1>2. got \in Seq(Word) /\ out_data \in Seq(Word)
  BY DEF IInv, Types
<1>3. Len(Fetched) = Len(got) + Len(out_data) /\ Len(got) \in Nat /\ Len(out_data) \in Nat
  BY <1>2 DEF Fetched
<1>4. Piece.words \in Nat /\ ~(Len(got) < Piece.words)
  BY <1>1 DEF Awaiting, Reads, Sound
<1>5. Len(out_data) = 0 /\ Len(got) = Piece.words /\ Len(Fetched) = Piece.words
  BY <1>1, <1>3, <1>4
<1>6. out_data = <<>>
  BY <1>2, <1>5
<1>7. Fetched = got
  BY <1>2, <1>6 DEF Fetched
<1>8. Settled.left \in Nat
  BY SafeChips DEF IInv, Safe, Machines
<1>9. Settled.st = "cmd"
  BY <1>4, <1>5, <1>8 DEF IInv, Coming
<1> QED BY <1>1, <1>5, <1>6, <1>7, <1>9

(* A write transfers a piece with its command.                              *)
LEMMA PutStep ==
    ASSUME IInv, call.put, call # NoCall, call' = call, Sound, Settled.st = "cmd", out_data = <<>>,
           NEW ws,
           \A k \in 1 .. Piece.words, j \in Lane :
              InPiece(Base + (k - 1) * ALIGN + j)
                \/ ws[k][j] = Settled.mem[Piece.at + (k - 1) * ALIGN + j],
           SendWrite(Merged(ws)), buf' = buf, loc' \notin Reads, Types', Cut',
           Left' = {i \in off + pos .. off + len - 1 : ~(Piece.lo <= i /\ i < Piece.hi)}
    PROVE  IInv' /\ \E now : Moved(now)
<1>1. /\ Linked' /\ Settled'.st = "cmd"
      /\ Settled'.mem = [b \in Byte |-> IF b - call.addr \in Piece.lo .. Piece.hi - 1
                                          THEN buf[b - call.addr] ELSE Settled.mem[b]]
  BY SentPiece DEF IInv
<1>2. out_data' = <<>>
  BY DEF SendWrite
<1>3. IInv'
  BY <1>1, <1>2, OutsideReads
<1>4. ~Reading /\ ~Reading'
  BY DEF Reading, Reads
<1>5. Data = buf /\ Data' = buf
  BY <1>4 DEF Data
<1>6. PICK now : now = Piece.lo .. Piece.hi - 1
  OBVIOUS
<1>7. Left = off + pos .. off + len - 1
  BY <1>4 DEF Left
<1>8. /\ Piece.lo \in Nat /\ Piece.hi \in Nat /\ Piece.lo < Piece.hi
      /\ off + pos <= Piece.lo /\ Piece.hi <= off + len
      /\ off \in Nat /\ pos \in Nat /\ len \in Nat
  BY DEF Sound, IInv, Types
<1>9. now # {} /\ now \subseteq Left /\ Left' = Left \ now
  <2>1. Piece.lo \in now
    BY <1>6, <1>8
  <2>2. now \subseteq Left
    BY <1>6, <1>7, <1>8
  <2>3. Left' = Left \ now
    BY <1>6, <1>7, <1>8
  <2> QED BY <2>1, <2>2, <2>3
<1>10. Moved(now)
  BY <1>1, <1>5, <1>6, <1>9 DEF Moved
<1> QED BY <1>3, <1>10

(* A read copies the words of a piece out.                                  *)
LEMMA CopyStep ==
    ASSUME IInv, ~call.put, call' = call, loc \in Reads, ~Awaiting, buf' = Copied(got),
           UNCHANGED tsiVars, loc' \notin Reads, Types', Cut',
           Left' = {i \in off + pos .. off + len - 1 : ~(Piece.lo <= i /\ i < Piece.hi)}
    PROVE  IInv' /\ Quiet
<1>1. /\ Settled.st = "cmd" /\ out_data = <<>> /\ Fetched = got /\ Len(got) = Piece.words
      /\ Sound /\ call # NoCall
  BY Arrived
<1>2. Linked' /\ Settled' = Settled /\ out_data' = <<>>
  BY <1>1, Kept DEF tsiVars, IInv
<1>3. IInv'
  BY <1>1, <1>2, OutsideReads
<1>4. Reading /\ ~Reading'
  BY DEF Reading, Reads
<1>5. Data' = Data
  BY <1>1, <1>4 DEF Data
<1>6. Left' = Left
  <2>1. /\ Piece.hi <= Base + Piece.words * ALIGN /\ Piece.words * ALIGN \in Nat
        /\ Base \in Int /\ Piece.hi \in Nat
    <3>1. Piece.words * ALIGN \in Nat
      BY <1>1, AlignAssumption DEF Sound
    <3> QED BY <1>1, <3>1 DEF Sound
  <2>2. \A i \in Int : i < Piece.hi => i - Base < Len(Fetched) * ALIGN
    <3>1. PICK m \in Nat : m = Piece.words * ALIGN
      BY <2>1
    <3>2. Piece.hi <= Base + m /\ Len(Fetched) * ALIGN = m
      BY <1>1, <2>1, <3>1
    <3> QED BY <2>1, <3>1, <3>2
  <2>3. off \in Nat /\ pos \in Nat /\ len \in Nat
    BY DEF IInv, Types
  <2>4. Left = {i \in off + pos .. off + len - 1 :
                  ~(InPiece(i) /\ i - Base < Len(Fetched) * ALIGN)}
    BY <1>1, <1>4 DEF Left
  <2> QED BY <2>2, <2>3, <2>4 DEF InPiece
<1> QED BY <1>2, <1>3, <1>5, <1>6 DEF Quiet

(* What is left of an interval without its beginning, and without its end.  *)
LEMMA IntervalRest ==
    ASSUME NEW x \in Int, NEW y \in Int, NEW z \in Int, x <= y, y <= z
    PROVE  /\ y .. z - 1 = {i \in x .. z - 1 : ~(x <= i /\ i < y)}
           /\ x .. y - 1 = {i \in x .. z - 1 : ~(y <= i /\ i < z)}
<1>1. \A i \in Int : i \in y .. z - 1 <=> i \in x .. z - 1 /\ ~(x <= i /\ i < y)
  OBVIOUS
<1>2. \A i \in Int : i \in x .. y - 1 <=> i \in x .. z - 1 /\ ~(y <= i /\ i < z)
  OBVIOUS
<1>3. y .. z - 1 = {i \in x .. z - 1 : ~(x <= i /\ i < y)}
  BY <1>1
<1>4. x .. y - 1 = {i \in x .. z - 1 : ~(y <= i /\ i < z)}
  BY <1>2
<1> QED BY <1>3, <1>4

(* The end of a read of a piece, in a read and in a write.                  *)
LEMMA FinishStep ==
    ASSUME IInv, call' = call, loc \in Reads, ~Awaiting, Finish, loc' \notin Reads, Types', Cut',
           Left' = {i \in off + pos .. off + len - 1 : ~(Piece.lo <= i /\ i < Piece.hi)}
    PROVE  IInv' /\ (Quiet \/ \E now : Moved(now))
<1>1. /\ Settled.st = "cmd" /\ out_data = <<>> /\ Fetched = got /\ Len(got) = Piece.words
      /\ Sound /\ call # NoCall
  BY Arrived
<1>2. CASE call.put
  <2>1. SendWrite(Merged(got)) /\ buf' = buf
    BY <1>2 DEF Finish
  <2>2. \A k \in 1 .. Piece.words, j \in Lane :
           got[k][j] = Settled.mem[Piece.at + (k - 1) * ALIGN + j]
    BY <1>1, <1>2 DEF IInv, ReadBack
  <2> QED BY <1>1, <1>2, <2>1, <2>2, PutStep
<1>3. CASE ~call.put
  BY <1>3, CopyStep DEF Finish
<1> QED BY <1>2, <1>3

(* The buffer keeps its length, and a write's buffer its bytes.             *)
LEMMA FinishBuf ==
    ASSUME IInv, call # NoCall, Finish
    PROVE  /\ buf' = [i \in 0 .. call.len - 1 |-> buf'[i]]
           /\ call.put => buf' = call.data
<1>1. buf = [i \in 0 .. call.len - 1 |-> buf[i]] /\ (call.put => buf = call.data)
  BY DEF IInv, Cut
<1>2. CASE call.put
  BY <1>1, <1>2 DEF Finish
<1>3. CASE ~call.put
  <2>1. buf' = Copied(got)
    BY <1>3 DEF Finish
  <2>2. DOMAIN buf = 0 .. call.len - 1
    BY <1>1
  <2> QED BY <1>3, <2>1, <2>2 DEF Copied
<1> QED BY <1>2, <1>3

LEMMA AlignedZero == Aligned(0)
<1>1. 0 \in Nat /\ 0 < ALIGN /\ ALIGN \in Nat
  BY AlignAssumption
<1>2. 0 = 0 * ALIGN + 0
  BY <1>1
<1> QED BY <1>1, <1>2, Quotient DEF Aligned

-----------------------------------------------------------------------------
(* The actions of a call.                                                   *)
LEMMA HeadDoneStep ==
    ASSUME IInv, HeadDone
    PROVE  IInv' /\ (Quiet \/ \E now : Moved(now))
<1>1. /\ loc = "headRead" /\ loc \in Reads /\ ~Awaiting /\ Finish /\ running = "host"
      /\ addr' = addr + HeadLen /\ off' = off + HeadLen /\ len' = LenAfterHead
      /\ loc' = "tail" /\ call' = call /\ pos' = pos /\ got' = got
  BY DEF HeadDone, Host, Reads
<1>2. /\ Settled.st = "cmd" /\ out_data = <<>> /\ call # NoCall
  BY <1>1, Arrived
<1>3. /\ addr \in Nat /\ len \in Nat /\ off \in Nat /\ pos = 0 /\ len # 0 /\ ~Aligned(addr)
      /\ addr = call.addr + off /\ off + len <= call.len /\ call.len \in Nat /\ call.addr \in Nat
  BY <1>1, <1>2, InCallFacts DEF IInv, Types, Cut
<1>4. PICK h, r : h = HeadLen /\ r = Rem(addr)
  OBVIOUS
<1>5. Piece.lo = off /\ Piece.hi = off + h /\ Piece.hi \in Nat /\ Piece.lo < Piece.hi
  BY <1>1, <1>3, <1>4, HeadPiece DEF IInv, Sound
<1>6. /\ r \in Nat /\ r < ALIGN /\ ALIGN \in Nat
      /\ AlignDown(addr) = addr - r /\ Aligned(AlignDown(addr) + ALIGN)
  BY <1>3, <1>4, DownFacts
<1>7. h \in Nat /\ h <= len /\ (h = len \/ h = ALIGN - r)
  <2>1. PICK a : a = ALIGN - r
    OBVIOUS
  <2>2. h = Least(len, a)
    BY <1>4, <2>1 DEF HeadLen, Misaligned, Rem
  <2>3. a \in Nat
    BY <1>6, <2>1
  <2> QED BY <1>3, <2>1, <2>2, <2>3, LeastFacts
<1>8. /\ addr' = addr + h /\ off' = off + h /\ len' = len - h /\ len' \in Nat
  BY <1>1, <1>3, <1>4, <1>7 DEF LenAfterHead
<1>9. len' = 0 \/ Aligned(addr')
  <2>1. CASE h = len
    BY <1>3, <1>8, <2>1
  <2>2. CASE h = ALIGN - r
    <3>1. addr' = AlignDown(addr) + ALIGN
      BY <1>3, <1>6, <1>8, <2>2
    <3> QED BY <1>6, <3>1
  <2> QED BY <1>7, <2>1, <2>2
<1>10. out_data' = out_data /\ running' = running
  BY <1>1 DEF Finish, SendWrite, tsiVars
<1>11. Types'
  <2>1. got' \in Seq(Word) /\ out_data' \in Seq(Word)
    BY <1>1, <1>10 DEF IInv, Types
  <2>2. addr' \in Nat /\ len' \in Nat /\ off' \in Nat /\ pos' \in Nat
    BY <1>1, <1>3, <1>7, <1>8
  <2>3. call' \in Calls \cup {NoCall} /\ call' # NoCall
    BY <1>1, <1>2 DEF IInv, Types
  <2> QED BY <1>1, <1>10, <2>1, <2>2, <2>3 DEF Types
<1>12. Cut'
  <2>1. buf' = [i \in 0 .. call.len - 1 |-> buf'[i]] /\ (call.put => buf' = call.data)
    BY <1>1, <1>2, FinishBuf
  <2>2. addr' = call.addr + off' /\ off' + len' <= call.len
    BY <1>3, <1>7, <1>8
  <2> QED BY <1>1, <1>3, <1>9, <2>1, <2>2 DEF Cut
<1>13. Left' = {i \in off + pos .. off + len - 1 : ~(Piece.lo <= i /\ i < Piece.hi)}
  <2>1. ~Reading'
    BY <1>1 DEF Reading
  <2>2. Left' = off' + pos' .. off' + len' - 1
    BY <1>1, <1>2, <2>1 DEF Left
  <2>3. PICK x, y, z : x = off /\ y = off + h /\ z = off + len
    OBVIOUS
  <2>4. x \in Int /\ y \in Int /\ z \in Int /\ x <= y /\ y <= z
    BY <1>3, <1>7, <2>3
  <2>5. off' + pos' = y /\ off' + len' - 1 = z - 1 /\ off + pos = x /\ off + len - 1 = z - 1
    BY <1>1, <1>3, <1>7, <1>8, <2>3
  <2>6. Left' = y .. z - 1
    BY <2>2, <2>5
  <2>7. y .. z - 1 = {i \in x .. z - 1 : ~(x <= i /\ i < y)}
    BY <2>4, IntervalRest
  <2> QED BY <1>5, <2>3, <2>5, <2>6, <2>7
<1>14. loc' \notin Reads
  BY <1>1 DEF Reads
<1> QED BY <1>1, <1>11, <1>12, <1>13, <1>14, FinishStep

LEMMA TailDoneStep ==
    ASSUME IInv, TailDone
    PROVE  IInv' /\ (Quiet \/ \E now : Moved(now))
<1>1. /\ loc = "tailRead" /\ loc \in Reads /\ ~Awaiting /\ Finish /\ running = "host"
      /\ addr' = addr /\ off' = off /\ len' = len - TailLen
      /\ loc' = "body" /\ call' = call /\ pos' = pos /\ got' = got
  BY DEF TailDone, Host, Reads
<1>2. /\ Settled.st = "cmd" /\ out_data = <<>> /\ call # NoCall
  BY <1>1, Arrived
<1>3. /\ addr \in Nat /\ len \in Nat /\ off \in Nat /\ pos = 0 /\ ~Aligned(len)
      /\ (len = 0 \/ Aligned(addr))
      /\ addr = call.addr + off /\ off + len <= call.len /\ call.len \in Nat /\ call.addr \in Nat
  BY <1>1, <1>2, InCallFacts DEF IInv, Types, Cut
<1>4. PICK r : r = Rem(len)
  OBVIOUS
<1>5. /\ r \in Nat /\ AlignDown(len) = len - r /\ Aligned(AlignDown(len)) /\ AlignDown(len) \in Nat
  BY <1>3, <1>4, DownFacts
<1>6. TailLen = r
  BY <1>4 DEF TailLen, Rem
<1>7. Piece.lo = off + len - r /\ Piece.hi = off + len
  BY <1>1, <1>3, <1>6, TailPiece DEF IInv
<1>8. len' = AlignDown(len) /\ len' = len - r /\ len' \in Nat /\ Aligned(len') /\ Aligned(pos')
  BY <1>1, <1>3, <1>5, <1>6, AlignedZero
<1>9. len # 0
  BY <1>3, AlignedZero
<1>10. out_data' = out_data /\ running' = running
  BY <1>1 DEF Finish, SendWrite, tsiVars
<1>11. Types'
  <2>1. got' \in Seq(Word) /\ out_data' \in Seq(Word)
    BY <1>1, <1>10 DEF IInv, Types
  <2>2. addr' \in Nat /\ len' \in Nat /\ off' \in Nat /\ pos' \in Nat
    BY <1>1, <1>3, <1>8
  <2>3. call' \in Calls \cup {NoCall} /\ call' # NoCall
    BY <1>1, <1>2 DEF IInv, Types
  <2> QED BY <1>1, <1>10, <2>1, <2>2, <2>3 DEF Types
<1>12. Cut'
  <2>1. buf' = [i \in 0 .. call.len - 1 |-> buf'[i]] /\ (call.put => buf' = call.data)
    BY <1>1, <1>2, FinishBuf
  <2>2. off' + len' <= call.len
    BY <1>1, <1>3, <1>5, <1>8
  <2> QED BY <1>1, <1>3, <1>8, <1>9, <2>1, <2>2 DEF Cut
<1>13. Left' = {i \in off + pos .. off + len - 1 : ~(Piece.lo <= i /\ i < Piece.hi)}
  <2>1. ~Reading'
    BY <1>1 DEF Reading
  <2>2. Left' = off' + pos' .. off' + len' - 1
    BY <1>1, <1>2, <2>1 DEF Left
  <2>3. PICK x, y, z : x = off /\ y = off + len - r /\ z = off + len
    OBVIOUS
  <2>4. x \in Int /\ y \in Int /\ z \in Int /\ x <= y /\ y <= z
    BY <1>3, <1>5, <2>3
  <2>5. off' + pos' = x /\ off' + len' - 1 = y - 1 /\ off + pos = x /\ off + len - 1 = z - 1
    BY <1>1, <1>3, <1>5, <1>8, <2>3
  <2>6. Left' = x .. y - 1
    BY <2>2, <2>5
  <2>7. x .. y - 1 = {i \in x .. z - 1 : ~(y <= i /\ i < z)}
    BY <2>4, IntervalRest
  <2> QED BY <1>7, <2>3, <2>5, <2>6, <2>7
<1>14. loc' \notin Reads
  BY <1>1 DEF Reads
<1> QED BY <1>1, <1>11, <1>12, <1>13, <1>14, FinishStep

(* The loop over the aligned rest goes on by a chunk.                       *)
LEMMA NextChunk ==
    ASSUME IInv, loc \in {"body", "bodyRead"}, pos < len,
           UNCHANGED <<call, addr, len, off, got, running, out_data>>, pos' = NextPos, loc' = "body",
           buf' = [i \in 0 .. call.len - 1 |-> buf'[i]], call.put => buf' = call.data
    PROVE  /\ Types' /\ Cut'
           /\ Left' = {i \in off + pos .. off + len - 1 : ~(Piece.lo <= i /\ i < Piece.hi)}
<1>1. /\ call # NoCall /\ addr \in Nat /\ len \in Nat /\ off \in Nat /\ pos \in Nat
      /\ Aligned(len) /\ Aligned(pos) /\ (len = 0 \/ Aligned(addr))
      /\ addr = call.addr + off /\ off + len <= call.len
  BY DEF IInv, Types, Cut
<1>2. MAX_CHUNK \in Nat /\ Aligned(MAX_CHUNK)
  BY AlignAssumption DEF Aligned, Rem
<1>3. pos' = pos + MAX_CHUNK /\ pos' \in Nat /\ Aligned(pos')
  BY <1>1, <1>2, Multiples DEF NextPos
<1>4. Types'
  <2>1. call' \in Calls \cup {NoCall} /\ call' # NoCall
    BY <1>1 DEF IInv, Types
  <2> QED BY <1>1, <1>3, <2>1 DEF IInv, Types
<1>5. Cut'
  BY <1>1, <1>3 DEF Cut
<1>6. PICK c, d : c = ChunkLen /\ d = len - pos
  OBVIOUS
<1>7. Piece.lo = off + pos /\ Piece.hi = off + pos + c
  BY <1>6, BodyPiece DEF IInv
<1>8. d \in Nat /\ c \in Nat /\ c <= MAX_CHUNK /\ c <= d /\ (c = MAX_CHUNK \/ c = d)
  <2>1. d \in Nat /\ c = Least(MAX_CHUNK, d)
    BY <1>1, <1>6 DEF ChunkLen
  <2> QED BY <1>2, <2>1, LeastFacts
<1>9. Left' = off + (pos + MAX_CHUNK) .. off + len - 1
  <2>1. ~Reading'
    BY DEF Reading
  <2> QED BY <1>1, <1>3, <2>1 DEF Left
<1>10. Left' = {i \in off + pos .. off + len - 1 : ~(Piece.lo <= i /\ i < Piece.hi)}
  <2>1. PICK x, y, z : x = off + pos /\ y = off + pos + c /\ z = off + len
    OBVIOUS
  <2>2. x \in Int /\ y \in Int /\ z \in Int /\ x <= y /\ y <= z
    BY <1>1, <1>6, <1>8, <2>1
  <2>3. off + (pos + MAX_CHUNK) = y \/ (y = z /\ off + (pos + MAX_CHUNK) >= z)
    BY <1>1, <1>2, <1>6, <1>8, <2>1
  <2>4. Left' = y .. z - 1
    BY <1>1, <1>2, <1>9, <2>1, <2>2, <2>3
  <2>5. y .. z - 1 = {i \in x .. z - 1 : ~(x <= i /\ i < y)}
    BY <2>2, IntervalRest
  <2>6. off + len - 1 = z - 1
    BY <1>1, <2>1
  <2> QED BY <1>7, <2>1, <2>4, <2>5, <2>6
<1> QED BY <1>4, <1>5, <1>10

LEMMA BodyReadDoneStep ==
    ASSUME IInv, BodyReadDone
    PROVE  IInv' /\ (Quiet \/ \E now : Moved(now))
<1>1. /\ loc = "bodyRead" /\ loc \in Reads /\ ~Awaiting /\ Finish
      /\ loc' = "body" /\ UNCHANGED <<call, addr, len, off, got>> /\ pos' = NextPos
  BY DEF BodyReadDone, Host, Reads
<1>2. call # NoCall
  BY <1>1, Arrived
<1>3. pos < len
  BY <1>1, <1>2 DEF IInv, Cut
<1>4. out_data' = out_data /\ running' = running
  BY <1>1 DEF Finish, SendWrite, tsiVars
<1>5. buf' = [i \in 0 .. call.len - 1 |-> buf'[i]] /\ (call.put => buf' = call.data)
  BY <1>1, <1>2, FinishBuf
<1>6. /\ Types' /\ Cut'
      /\ Left' = {i \in off + pos .. off + len - 1 : ~(Piece.lo <= i /\ i < Piece.hi)}
  BY <1>1, <1>3, <1>4, <1>5, NextChunk
<1>7. loc' \notin Reads
  BY <1>1 DEF Reads
<1> QED BY <1>1, <1>6, <1>7, FinishStep

LEMMA BodyWriteStep ==
    ASSUME IInv, BodyWrite
    PROVE  IInv' /\ \E now : Moved(now)
<1>1. /\ loc = "body" /\ pos < len /\ call.put /\ SendWrite(Merged(<<>>))
      /\ pos' = NextPos /\ loc' = "body" /\ UNCHANGED <<call, addr, len, off, buf, got>>
      /\ running' = running /\ out_data' = out_data
  BY DEF BodyWrite, Host, SendWrite
<1>2. /\ call # NoCall /\ Settled.st = "cmd" /\ out_data = <<>> /\ loc \notin Reads
  BY <1>1 DEF IInv, Types, Coming, Reads
<1>3. Sound /\ Whole
  BY <1>1, BodyPiece DEF IInv
<1>4. buf' = [i \in 0 .. call.len - 1 |-> buf'[i]] /\ (call.put => buf' = call.data)
  BY <1>1, <1>2 DEF IInv, Cut
<1>5. /\ Types' /\ Cut'
      /\ Left' = {i \in off + pos .. off + len - 1 : ~(Piece.lo <= i /\ i < Piece.hi)}
  BY <1>1, <1>4, NextChunk
<1>6. ASSUME NEW k \in 1 .. Piece.words, NEW j \in Lane
      PROVE  InPiece(Base + (k - 1) * ALIGN + j)
  <2>1. PICK n, m, p, e : n = Piece.words /\ m = (k - 1) * ALIGN /\ p = n * ALIGN /\ e = Base
    OBVIOUS
  <2>2. n \in Nat /\ e \in Int
    BY <1>3, <2>1 DEF Sound
  <2>3. m + j \in Nat /\ m + j < p /\ m \in Nat /\ j \in Nat /\ p \in Nat
    <3>1. k \in 1 .. n
      BY <2>1
    <3>2. n * ALIGN \in Nat
      BY <2>2, AlignAssumption
    <3> QED BY <2>1, <2>2, <3>1, <3>2, WordPosition DEF Lane
  <2>4. Piece.lo = e /\ Piece.hi = e + p
    BY <1>3, <2>1 DEF Whole
  <2>5. e <= e + m + j /\ e + m + j < e + p
    BY <2>2, <2>3
  <2> QED BY <2>1, <2>4, <2>5 DEF InPiece
<1> QED BY <1>1, <1>2, <1>3, <1>5, <1>6, PutStep

(* Between two pieces the call asks, skips or begins and ends.              *)
LEMMA HeadReadStep ==
    ASSUME IInv, HeadRead
    PROVE  IInv' /\ Quiet
<1>1. /\ running = "host" /\ loc = "head" /\ len # 0 /\ ~Aligned(addr) /\ SendRead("headRead")
      /\ "headRead" \in Reads /\ loc \notin Reads
  BY DEF HeadRead, Host, Misaligned, Aligned, Rem, Reads
<1>2. UNCHANGED <<call, addr, len, off, pos, buf>> /\ loc' = "headRead"
  BY <1>1 DEF SendRead
<1>3. call # NoCall
  BY <1>1 DEF IInv, Types
<1>4. Sound
  BY <1>1, HeadPiece DEF IInv
<1>5. Piece' = Piece
  BY <1>1, <1>2 DEF Piece, HeadLen, Misaligned
<1>6. Cut'
  BY <1>1, <1>2, <1>3 DEF IInv, Cut
<1> QED BY <1>1, <1>3, <1>4, <1>5, <1>6, AskStep

LEMMA TailReadStep ==
    ASSUME IInv, TailRead
    PROVE  IInv' /\ Quiet
<1>1. /\ running = "host" /\ loc = "tail" /\ ~Aligned(len) /\ SendRead("tailRead")
      /\ "tailRead" \in Reads /\ loc \notin Reads
  BY DEF TailRead, Host, TailLen, Aligned, Rem, Reads
<1>2. UNCHANGED <<call, addr, len, off, pos, buf>> /\ loc' = "tailRead"
  BY <1>1 DEF SendRead
<1>3. call # NoCall
  BY <1>1 DEF IInv, Types
<1>4. Sound
  BY <1>1, TailPiece DEF IInv
<1>5. Piece' = Piece
  BY <1>1, <1>2 DEF Piece, TailLen
<1>6. Cut'
  BY <1>1, <1>2, <1>3 DEF IInv, Cut
<1> QED BY <1>1, <1>3, <1>4, <1>5, <1>6, AskStep

LEMMA BodyReadStep ==
    ASSUME IInv, BodyRead
    PROVE  IInv' /\ Quiet
<1>1. /\ running = "host" /\ loc = "body" /\ pos < len /\ ~call.put /\ SendRead("bodyRead")
      /\ "bodyRead" \in Reads /\ loc \notin Reads
  BY DEF BodyRead, Host, Reads
<1>2. UNCHANGED <<call, addr, len, off, pos, buf>> /\ loc' = "bodyRead"
  BY <1>1 DEF SendRead
<1>3. call # NoCall
  BY <1>1 DEF IInv, Types
<1>4. Sound
  BY <1>1, BodyPiece DEF IInv
<1>5. Piece' = Piece
  BY <1>1, <1>2 DEF Piece, ChunkLen
<1>6. Cut'
  BY <1>1, <1>2, <1>3 DEF IInv, Cut
<1> QED BY <1>1, <1>3, <1>4, <1>5, <1>6, AskStep

LEMMA SkipStep ==
    ASSUME IInv, HeadSkip \/ TailSkip
    PROVE  IInv' /\ Quiet
<1>1. /\ UNCHANGED <<tsiVars, call, addr, len, off, pos, buf, got>>
      /\ running' = running /\ out_data' = out_data
      /\ \/ loc = "head" /\ loc' = "tail" /\ (len = 0 \/ Aligned(addr))
         \/ loc = "tail" /\ loc' = "body" /\ Aligned(len)
  BY DEF HeadSkip, TailSkip, Skip, Host, Misaligned, TailLen, Aligned, Rem, tsiVars
<1>2. /\ loc \notin Reads /\ loc' \notin Reads /\ call # NoCall
      /\ Settled.st = "cmd" /\ out_data = <<>>
  BY <1>1 DEF IInv, Types, Coming, Reads
<1>3. Linked' /\ Settled' = Settled
  BY <1>1, Kept DEF IInv, tsiVars
<1>4. Types'
  BY <1>1, <1>2 DEF IInv, Types
<1>5. Cut'
  BY <1>1, <1>2, AlignedZero DEF IInv, Cut
<1>6. Left' = Left /\ Data' = Data
  <2>1. ~Reading /\ ~Reading'
    BY <1>2 DEF Reading, Reads
  <2>2. Left' = Left
    BY <1>1, <1>2, <2>1 DEF Left
  <2>3. Data' = Data
    BY <1>1, <2>1 DEF Data
  <2> QED BY <2>2, <2>3
<1> QED BY <1>1, <1>2, <1>3, <1>4, <1>5, <1>6, OutsideReads DEF Quiet

LEMMA BeginStep ==
    ASSUME IInv, NEW c \in Calls, Begin(c)
    PROVE  /\ IInv' /\ call = NoCall /\ call' = c
           /\ Left' = 0 .. c.len - 1 /\ Data' = c.data /\ Settled'.mem = Settled.mem
<1>1. /\ loc = "idle" /\ call' = c /\ loc' = "head" /\ addr' = c.addr /\ len' = c.len
      /\ buf' = c.data /\ off' = 0 /\ pos' = 0 /\ got' = <<>>
      /\ UNCHANGED tsiVars /\ running' = running /\ out_data' = out_data
  BY DEF Begin, Host, tsiVars
<1>2. /\ c.addr \in Nat /\ c.len \in Nat /\ c.put \in BOOLEAN /\ c # NoCall
      /\ c.data = [i \in 0 .. c.len - 1 |-> c.data[i]]
  BY CallData, CallAssumption
<1>3. call = NoCall /\ loc \notin Reads /\ Settled.st = "cmd" /\ out_data = <<>>
  BY <1>1 DEF IInv, Types, Coming, Reads
<1>4. Linked' /\ Settled' = Settled
  BY <1>1, Kept DEF IInv, tsiVars
<1>5. Types'
  BY <1>1, <1>2 DEF IInv, Types
<1>6. Cut'
  BY <1>1, <1>2 DEF Cut
<1>7. ~Reading' /\ loc' \notin Reads
  BY <1>1 DEF Reading, Reads
<1>8. Data' = c.data
  BY <1>1, <1>7 DEF Data
<1>9. Left' = 0 .. c.len - 1
  <2>1. Left' = 0 + 0 .. 0 + c.len - 1
    BY <1>1, <1>2, <1>7 DEF Left
  <2> QED BY <1>2, <2>1
<1> QED BY <1>1, <1>3, <1>4, <1>5, <1>6, <1>7, <1>8, <1>9, OutsideReads

LEMMA EndStep ==
    ASSUME IInv, End
    PROVE  /\ IInv' /\ call # NoCall /\ call' = NoCall
           /\ Left = {} /\ Left' = {} /\ Data' = <<>> /\ Settled'.mem = Settled.mem
<1>1. /\ loc = "body" /\ pos >= len /\ call' = NoCall /\ loc' = "idle"
      /\ addr' = 0 /\ len' = 0 /\ off' = 0 /\ pos' = 0 /\ buf' = <<>> /\ got' = <<>>
      /\ UNCHANGED tsiVars /\ running' = running /\ out_data' = out_data
  BY DEF End, Host, tsiVars
<1>2. /\ call # NoCall /\ loc \notin Reads /\ Settled.st = "cmd" /\ out_data = <<>>
      /\ off \in Nat /\ pos \in Nat /\ len \in Nat
  BY <1>1 DEF IInv, Types, Coming, Reads
<1>3. Linked' /\ Settled' = Settled
  BY <1>1, Kept DEF IInv, tsiVars
<1>4. Types'
  BY <1>1, <1>2 DEF IInv, Types
<1>5. Cut'
  BY <1>1 DEF Cut
<1>6. ~Reading /\ ~Reading' /\ loc' \notin Reads
  BY <1>1 DEF Reading, Reads
<1>7. Data' = <<>> /\ Left' = {}
  BY <1>1, <1>6 DEF Data, Left
<1>8. Left = {}
  <2>1. Left = off + pos .. off + len - 1
    BY <1>2, <1>6 DEF Left
  <2> QED BY <1>1, <1>2, <2>1
<1> QED BY <1>1, <1>2, <1>3, <1>4, <1>5, <1>6, <1>7, <1>8, OutsideReads

LEMMA InitInv == ASSUME Init PROVE IInv /\ Settled.mem \in [Byte -> Values]
<1>1. /\ running = "host" /\ in_data = <<>> /\ out_data = <<>>
      /\ chip = [st |-> "cmd", at |-> 0, left |-> 0, mem |-> [b \in Byte |-> 0]]
      /\ call = NoCall /\ loc = "idle" /\ addr = 0 /\ len = 0 /\ off = 0 /\ pos = 0 /\ got = <<>>
  BY DEF Init, TsiInit, ChipInit
<1>2. Safe(chip)
  BY <1>1 DEF Safe, Machines, Values
<1>3. PICK f : f = [k \in 0 .. 0 |-> chip]
  OBVIOUS
<1>4. in_data \in Seq(Word \cup Commands) /\ Len(in_data) = 0
  BY <1>1
<1>5. Course(f)
  BY <1>2, <1>3, <1>4 DEF Course
<1>6. Linked /\ Settled = chip
  BY <1>3, <1>4, <1>5, CourseEnd DEF Linked, Ending
<1>7. Types /\ Cut
  BY <1>1 DEF Types, Cut
<1>8. Coming /\ ReadBack
  BY <1>1, <1>6 DEF Coming, ReadBack, Reads
<1>9. Settled.mem \in [Byte -> Values]
  BY <1>2, <1>6 DEF Safe, Machines
<1> QED BY <1>6, <1>7, <1>8, <1>9 DEF IInv

-----------------------------------------------------------------------------
(* Every step keeps the invariant and is a step of the memory or none.      *)
Step == IInv' /\ (B!BNext \/ UNCHANGED B!bvars)

LEMMA QuietStep == ASSUME IInv', Quiet PROVE Step
BY DEF Step, Quiet, B!bvars, Data

LEMMA MovedStep == ASSUME IInv', NEW now, Moved(now) PROVE Step
<1>1. PICK l, m, d : l = Left' /\ m = Settled'.mem /\ d = Data'
  OBVIOUS
<1>2. /\ call # NoCall /\ call' = call /\ now # {} /\ now \subseteq Left /\ l = Left \ now
      /\ call.put => /\ d = Data
                     /\ m = [b \in Byte |-> IF b - call.addr \in now
                                              THEN Data[b - call.addr] ELSE Settled.mem[b]]
      /\ ~call.put => /\ m = Settled.mem
                      /\ d = [i \in DOMAIN Data |-> IF i \in now THEN Settled.mem[call.addr + i]
                                                                ELSE Data[i]]
  BY <1>1 DEF Moved
<1>3. Left \ l = now /\ l \subseteq Left
  BY <1>2
<1>4. B!Transfer
  <2>1. CASE call.put
    BY <1>1, <1>2, <1>3, <2>1 DEF B!Transfer, Data
  <2>2. CASE ~call.put
    BY <1>1, <1>2, <1>3, <2>2 DEF B!Transfer, Data
  <2> QED BY <2>1, <2>2
<1> QED BY <1>4 DEF Step, B!BNext

LEMMA InCallStep == ASSUME IInv, InCall PROVE Step
<1>1. CASE WaitWord
  <2>1. /\ UNCHANGED <<in_data, chip>> /\ UNCHANGED <<out_data, callVars>>
        /\ running' \in {"host", "target"}
    BY <1>1 DEF WaitWord, SwitchToTarget
  <2> QED BY <2>1, Kept, SameStep, QuietStep DEF IInv
<1>2. CASE RecvWord
  BY <1>2, RecvStep, QuietStep
<1>3. CASE HeadRead
  BY <1>3, HeadReadStep, QuietStep
<1>4. CASE HeadSkip \/ TailSkip
  BY <1>4, SkipStep, QuietStep
<1>5. CASE HeadDone
  BY <1>5, HeadDoneStep, QuietStep, MovedStep
<1>6. CASE TailRead
  BY <1>6, TailReadStep, QuietStep
<1>7. CASE TailDone
  BY <1>7, TailDoneStep, QuietStep, MovedStep
<1>8. CASE BodyRead
  BY <1>8, BodyReadStep, QuietStep
<1>9. CASE BodyReadDone
  BY <1>9, BodyReadDoneStep, QuietStep, MovedStep
<1>10. CASE BodyWrite
  BY <1>10, BodyWriteStep, MovedStep
<1>11. CASE End
  <2>1. /\ IInv' /\ call # NoCall /\ call' = NoCall
        /\ Left = {} /\ Left' = {} /\ Data' = <<>> /\ Settled'.mem = Settled.mem
    BY <1>11, EndStep
  <2>2. B!Return
    BY <2>1 DEF B!Return, Data
  <2> QED BY <2>1, <2>2 DEF Step, B!BNext
<1> QED BY <1>1, <1>2, <1>3, <1>4, <1>5, <1>6, <1>7, <1>8, <1>9, <1>10, <1>11 DEF InCall

LEMMA AnyStep == ASSUME IInv, [Next]_vars PROVE Step
<1>1. ASSUME NEW c \in Calls, Begin(c) PROVE Step
  <2>1. /\ IInv' /\ call = NoCall /\ call' = c
        /\ Left' = 0 .. c.len - 1 /\ Data' = c.data /\ Settled'.mem = Settled.mem
    BY <1>1, BeginStep
  <2>2. B!Start
    BY <2>1 DEF B!Start, B!Positions, Data
  <2> QED BY <2>1, <2>2 DEF Step, B!BNext
<1>2. CASE HostYield \/ Resume \/ UNCHANGED vars
  <2>1. /\ UNCHANGED <<in_data, chip>> /\ UNCHANGED <<out_data, callVars>>
        /\ running' \in {"host", "target"}
    BY <1>2 DEF HostYield, Resume, SwitchToTarget, SwitchToHost, vars, tsiVars, callVars, IInv,
                Types
  <2> QED BY <2>1, Kept, SameStep, QuietStep DEF IInv
<1>3. CASE InCall
  BY <1>3, InCallStep
<1>4. CASE TargetStore
  <2>0. PICK b \in TargetByte : \E v \in {0, Mark(b)} : Store(b, v) /\ UNCHANGED callVars
    BY <1>4 DEF TargetStore
  <2>1. PICK v \in {0, Mark(b)} : Store(b, v) /\ UNCHANGED callVars
    BY <2>0
  <2>2. b \in Byte /\ v \in Values
    BY <2>1, ByteAssumption DEF Values
  <2>3. /\ IInv' /\ call' = call /\ Left' = Left /\ Data' = Data
        /\ Settled'.mem = [Settled.mem EXCEPT ![b] = v]
    BY <2>1, <2>2, StoreStep
  <2>4. Settled.mem \in [Byte -> Values]
    BY SafeChips DEF IInv, Safe, Machines
  <2>5. B!TargetStore
    BY <2>2, <2>3, <2>4 DEF B!TargetStore, Data, Values
  <2> QED BY <2>3, <2>5 DEF Step, B!BNext
<1>5. CASE Tick
  <2>1. CASE TickIn /\ UNCHANGED callVars
    <3>1. Linked' /\ Settled' = Settled
      BY <2>1, TookWord DEF IInv
    <3>2. UNCHANGED <<out_data, callVars>> /\ running' \in {"host", "target"}
      BY <2>1 DEF TickIn
    <3> QED BY <3>1, <3>2, SameStep, QuietStep
  <2>2. CASE TickOut /\ UNCHANGED callVars
    BY <2>2, GiveStep, QuietStep, MovedStep
  <2> QED BY <1>5, <2>1, <2>2 DEF Tick
<1> QED BY <1>1, <1>2, <1>3, <1>4, <1>5 DEF Next

-----------------------------------------------------------------------------
(* The invariant holds of every state: where a call is in its range, what   *)
(* is on its way, and what the words read so far hold.                      *)
THEOREM InvInductive == Spec => []IInv
<1>1. Init => IInv
  BY InitInv
<1>2. IInv /\ [Next]_vars => IInv'
  BY AnyStep DEF Step
<1> QED BY <1>1, <1>2, PTL DEF Spec

LEMMA TypeFacts == ASSUME IInv PROVE TypeOK
<1>1. chip \in Machines
  BY SafeChips DEF IInv, Safe
<1>2. call # NoCall => addr + len <= call.addr + call.len
  <2>1. ASSUME call # NoCall PROVE addr + len <= call.addr + call.len
    BY <2>1, InCallFacts DEF IInv, Types
  <2> QED BY <2>1
<1>3. /\ \A k \in DOMAIN out_data : out_data[k] \in Word
      /\ \A k \in DOMAIN got : got[k] \in Word
  BY DEF IInv, Types
<1> QED BY <1>1, <1>2, <1>3 DEF TypeOK, IInv, Types, Machines, Values

(* The words that go over the link hold bytes of the memory, and the code's  *)
(* moving parameters never leave the range of the call.                     *)
THEOREM TypeCorrect == Spec => []TypeOK
BY TypeFacts, InvInductive, PTL

LEMMA InStepFacts == ASSUME IInv PROVE InStep
<1>1. CASE Awaiting
  <2>1. loc \in Reads
    BY <1>1 DEF Awaiting, Reads
  <2>2. Len(Fetched) = Len(got) + Len(out_data) /\ Len(got) \in Nat /\ Len(out_data) \in Nat
    BY DEF Fetched, IInv, Types
  <2>3. Settled.left \in Nat
    BY SafeChips DEF IInv, Safe, Machines
  <2> QED BY <1>1, <2>1, <2>2, <2>3 DEF InStep, IInv, Coming
<1>2. CASE ~Awaiting /\ loc \in Reads
  BY <1>2, Arrived DEF InStep
<1>3. CASE loc \notin Reads
  BY <1>3 DEF InStep, IInv, Coming, Awaiting, Reads
<1> QED BY <1>1, <1>2, <1>3

(* Host and adapter agree on the words that make a transfer at every moment, *)
(* so that no word is taken for a command or the other way round.           *)
THEOREM StaysInStep == Spec => []InStep
BY InStepFacts, InvInductive, PTL

(* Reads and writes of any range of bytes, cut into words and chunks and     *)
(* sent over the transport while the target goes on, are those of one       *)
(* memory: every byte once, from or to its own place, and no other byte.    *)
THEOREM MemIfIsMemory == Spec => ImplementsMemory
<1>1. Init => B!BInit
  <2>1. ASSUME Init PROVE B!BInit
    <3>1. Settled.mem \in [Byte -> Values]
      BY <2>1, InitInv
    <3>2. call = NoCall /\ loc = "idle" /\ buf = <<>>
      BY <2>1 DEF Init
    <3> QED BY <3>1, <3>2 DEF B!BInit, Left, Reading, Values
  <2> QED BY <2>1
<1>2. IInv /\ [Next]_vars => [B!BNext]_(B!bvars)
  BY AnyStep DEF Step
<1> QED BY <1>1, <1>2, InvInductive, PTL DEF Spec, ImplementsMemory, B!BSpec
=============================================================================
