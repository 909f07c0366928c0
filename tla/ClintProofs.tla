---------------------------- MODULE ClintProofs -----------------------------
(***************************************************************************)
(* For every width of the registers and every delay shorter than one round  *)
(* of the lower half: clint_get_mtime is exact, and timer_handler is entered *)
(* at most once and never early.                                            *)
(***************************************************************************)
EXTENDS Clint, TLAPS

(* No clock value is before itself or an earlier one.                       *)
t \preceq u == ~(u \prec t)

(* mtime has not reached the last of its upper halves, and is never before   *)
(* the last call of clint_get_mtime.                                        *)
Clock == mtime.hi < HI - 1 /\ asked \preceq mtime

(* What the locals of clint_get_mtime say of the time after each read.       *)
Reading ==
    /\ reading \in {"lo", "again", "done"} => asked.hi <= hi /\ hi <= mtime.hi
    /\ reading = "again" /\ mtime.hi = hi =>
           lo <= mtime.lo /\ (asked.hi = hi => asked.lo <= lo)
    /\ ReadsExact

(* Before main enables anything nothing can trap.                           *)
Masked == main \in {"connect", "start", "deadline", "MIE"} =>
              ~MIE /\ ~MTIE /\ ~trapped /\ rings = 0

Unset == main \in {"connect", "start", "deadline"}

(* What is left of clint_set_mtimecmp.                                      *)
Setting ==
    /\ Unset => stores = {}
    /\ "max" \in stores => "hi" \in stores
    /\ ~Unset /\ "lo" \notin stores => mtimecmp.lo = target.lo
    /\ ~Unset /\ "hi" \notin stores => mtimecmp.hi = target.hi

(* Before the first ring mtimecmp is the deadline, after it the last time.   *)
Armed ==
    /\ main # "connect" => connected
    /\ ~Unset /\ rings = 0 => due.from \preceq target /\ ~trapped
    /\ rings = 0 /\ main # "MIE" => stores = {}
    /\ rings # 0 => rings = 1 /\ target = MaxTime /\ due.from \preceq mtime
    /\ rings # 0 /\ ~trapped => stores = {}
    /\ trapped => ~MIE /\ rings # 0

IInv == TypeOK /\ Clock /\ Reading /\ Masked /\ Setting /\ Armed

-----------------------------------------------------------------------------
(* One microsecond later; and a delay added below the last upper half.      *)
LEMMA PlusOne ==
    ASSUME NEW t \in Time, t.hi < HI - 1
    PROVE  /\ Plus(t, 1) \in Time
           /\ \/ Plus(t, 1).hi = t.hi /\ Plus(t, 1).lo = t.lo + 1
              \/ Plus(t, 1).hi = t.hi + 1 /\ Plus(t, 1).lo = 0
BY HalvesAssumption DEF Plus, Time

LEMMA PlusInTime ==
    ASSUME NEW t \in Time
    PROVE  Plus(t, DELAY) \in Time
BY HalvesAssumption, DelayAssumption DEF Plus, Time

LEMMA PlusMonotone ==
    ASSUME NEW t \in Time, NEW u \in Time, u.hi < HI - 1, t \preceq u
    PROVE  Plus(t, DELAY) \preceq Plus(u, DELAY)
BY HalvesAssumption, DelayAssumption DEF Plus, Time, \preceq, \prec

LEMMA Bounds == MaxTime \in Time /\ Zero \in Time
BY HalvesAssumption DEF MaxTime, Zero, Time

(* A time that is one later, or the same, is not before what the time was   *)
(* not before.                                                              *)
LEMMA TickLater ==
    ASSUME NEW t \in Time, NEW u \in Time, t \preceq u, u.hi < HI - 1
    PROVE  t \preceq Plus(u, 1)
BY PlusOne, HalvesAssumption DEF Time, \preceq, \prec

LEMMA InitIInv == Init => IInv
<1> SUFFICES ASSUME Init PROVE IInv
  OBVIOUS
<1> USE HalvesAssumption DEF Init
<1>1. TypeOK
  <2>1. due \in [from : Time, to : Time]
    BY Bounds
  <2>2. hi \in 0 .. HI - 1 /\ lo \in 0 .. LO - 1 /\ rings \in Nat
    OBVIOUS
  <2> QED BY <2>1, <2>2, Bounds, Zenon DEF TypeOK
<1>2. Clock
  BY DEF Clock, \preceq, \prec, Zero, Time
<1>3. Reading /\ Masked
  BY DEF Reading, ReadsExact, Masked
<1>4. Setting /\ Armed
  BY DEF Setting, Unset, Armed
<1> QED BY <1>1, <1>2, <1>3, <1>4 DEF IInv

LEMMA TypeNext == TypeOK /\ Clock /\ [Next]_vars => TypeOK' /\ Clock'
<1> SUFFICES ASSUME TypeOK, Clock, [Next]_vars PROVE TypeOK' /\ Clock'
  OBVIOUS
<1> USE DEF TypeOK, Clock
<1>a. /\ UNCHANGED <<mtime, asked>> => Clock'
      /\ asked' = mtime /\ mtime' = mtime => Clock'
  BY HalvesAssumption DEF \preceq, \prec, Time
<1>1. CASE Tick
  <2>1. mtime' \in Time /\ mtime'.hi < HI - 1
    BY <1>1, PlusOne DEF Tick
  <2>2. asked' \preceq mtime'
    BY <1>1, TickLater DEF Tick, histories
  <2> QED BY <1>1, <2>1, <2>2 DEF Tick, enables, locals, setting, histories
<1>2. CASE ReadHi \/ ReadLo \/ ReadAgain
  BY <1>2, <1>a DEF ReadHi, ReadLo, ReadAgain, Time, timer, enables, setting, histories
<1>3. CASE Store
  <2>1. mtimecmp' \in Time
    BY <1>3, HalvesAssumption DEF Store, Time
  <2> QED BY <1>3, <1>a, <2>1 DEF Store, enables, locals, histories
<1>4. CASE Connect \/ CallGet \/ Printed
  BY <1>4, <1>a DEF Connect, CallGet, Printed, timer, enables, locals, setting, histories
<1>5. CASE CallSet
  <2>1. Deadline \in Time /\ due' \in [from : Time, to : Time]
    BY <1>5, PlusInTime DEF CallSet, Deadline, Time
  <2> QED BY <1>5, <1>a, <2>1 DEF CallSet, SetMtimecmp, timer, enables
<1>6. CASE EnableMIE \/ EnableMTIE \/ LoopEnds
  BY <1>6, <1>a DEF EnableMIE, EnableMTIE, LoopEnds, timer, enables, locals, setting, histories
<1>7. CASE Trap
  <2>1. CASE connected
    <3>1. UNCHANGED <<mtime, mtimecmp, connected, MTIE, main, reading, hi, lo, asked, due>>
      BY <1>7, Zenon DEF Trap, timer, locals
    <3>2. MIE' \in BOOLEAN /\ trapped' \in BOOLEAN
      BY <1>7, <2>1, Zenon DEF Trap
    <3>3. stores' \in SUBSET {"max", "lo", "hi"} /\ target' \in Time /\ rings' \in Nat
      BY <1>7, <2>1, Bounds DEF Trap, SetMtimecmp, Postponed
    <3> QED BY <3>1, <3>2, <3>3, <1>a, Zenon
  <2>2. CASE ~connected
    <3>1. /\ UNCHANGED <<mtime, mtimecmp, connected, MTIE, main, reading, hi, lo, asked, due>>
          /\ UNCHANGED <<stores, target, trapped, rings>>
      BY <1>7, <2>2, Zenon DEF Trap, timer, locals, setting
    <3>2. MIE' \in BOOLEAN
      BY <1>7, Zenon DEF Trap
    <3> QED BY <3>1, <3>2, <1>a, Zenon
  <2> QED BY <2>1, <2>2
<1>8. CASE Mret
  BY <1>8, <1>a DEF Mret, timer, locals, setting, histories
<1>9. CASE UNCHANGED vars
  BY <1>9, <1>a DEF vars
<1> QED BY <1>1, <1>2, <1>3, <1>4, <1>5, <1>6, <1>7, <1>8, <1>9 DEF Next, Program

-----------------------------------------------------------------------------
(* The clock may tick between any two reads.                                *)
LEMMA ReadingNext == TypeOK /\ Clock /\ Reading /\ [Next]_vars => Reading'
<1> SUFFICES ASSUME TypeOK, Clock, Reading, [Next]_vars PROVE Reading'
  OBVIOUS
<1> USE DEF TypeOK, Clock, Reading
<1>1. CASE Tick
  <2>1. UNCHANGED <<reading, hi, lo, asked>>
    BY <1>1 DEF Tick, locals, histories
  <2>2. \/ mtime'.hi = mtime.hi /\ mtime'.lo = mtime.lo + 1
        \/ mtime'.hi = mtime.hi + 1 /\ mtime'.lo = 0
    BY <1>1, PlusOne DEF Tick
  <2>3. reading = "done" => ~(mtime' \prec [hi |-> hi, lo |-> lo])
    BY <2>2, HalvesAssumption DEF ReadsExact, \prec, Time
  <2> QED BY <2>1, <2>2, <2>3, HalvesAssumption DEF ReadsExact, Time
<1>2. CASE ReadHi
  BY <1>2, HalvesAssumption DEF ReadHi, ReadsExact, timer, histories, \preceq, \prec, Time
<1>3. CASE ReadLo
  BY <1>3, HalvesAssumption DEF ReadLo, ReadsExact, timer, histories, \preceq, \prec, Time
<1>4. CASE ReadAgain
  <2>1. UNCHANGED <<mtime, hi, lo, asked>>
    BY <1>4 DEF ReadAgain, timer, histories
  <2>2. reading' = "done" => ReadsExact'
    BY <1>4, <2>1, HalvesAssumption DEF ReadAgain, SameHi, ReadsExact, \prec, Time
  <2> QED BY <1>4, <2>1, <2>2 DEF ReadAgain, ReadsExact
<1>5. CASE CallGet
  BY <1>5 DEF CallGet, ReadsExact
<1>6. CASE Printed \/ CallSet
  BY <1>6 DEF Printed, CallSet, ReadsExact
<1>7. CASE Connect \/ EnableMIE \/ EnableMTIE \/ LoopEnds \/ Store \/ Trap \/ Mret
             \/ UNCHANGED vars
  <2>1. UNCHANGED <<mtime, reading, hi, lo, asked>>
    BY <1>7 DEF Connect, EnableMIE, EnableMTIE, LoopEnds, Store, Trap, Mret, vars, timer,
                locals, histories
  <2> QED BY <2>1 DEF ReadsExact
<1> QED BY <1>1, <1>2, <1>3, <1>4, <1>5, <1>6, <1>7 DEF Next, Program

-----------------------------------------------------------------------------
LEMMA MaskedNext == TypeOK /\ Masked /\ [Next]_vars => Masked'
<1> SUFFICES ASSUME TypeOK, Masked, [Next]_vars PROVE Masked'
  OBVIOUS
<1> USE DEF TypeOK, Masked
<1>1. CASE Tick \/ ReadHi \/ ReadLo \/ ReadAgain \/ Store \/ CallGet \/ UNCHANGED vars
  BY <1>1 DEF Tick, ReadHi, ReadLo, ReadAgain, Store, CallGet, vars, timer, enables, locals,
              setting, histories
<1>2. CASE Connect \/ Printed \/ CallSet
  BY <1>2 DEF Connect, Printed, Got, CallSet, At, enables, histories
<1>3. CASE EnableMIE \/ EnableMTIE \/ LoopEnds
  BY <1>3 DEF EnableMIE, EnableMTIE, LoopEnds, At
<1>4. CASE Trap \/ Mret
  BY <1>4 DEF Trap, Mret
<1> QED BY <1>1, <1>2, <1>3, <1>4 DEF Next, Program

(* The deadline lies DELAY or more after the time when main asked for it.   *)
LEMMA DeadlineLate ==
    ASSUME TypeOK, Clock, Reading, CallSet
    PROVE  due'.from \preceq target'
<1> DEFINE got == [hi |-> hi, lo |-> lo]
<1>1. got \in Time /\ asked \preceq got /\ got \preceq mtime
  BY DEF TypeOK, Reading, ReadsExact, CallSet, Got, Time, \preceq
<1>2. got.hi < HI - 1
  BY <1>1, HalvesAssumption DEF Clock, TypeOK, Time, \preceq, \prec
<1>3. Plus(asked, DELAY) \preceq Plus(got, DELAY)
  BY <1>1, <1>2, PlusMonotone DEF TypeOK
<1> QED BY <1>3 DEF CallSet, SetMtimecmp, Deadline

LEMMA SettingNext == IInv /\ [Next]_vars => Setting'
<1> SUFFICES ASSUME IInv, [Next]_vars PROVE Setting'
  OBVIOUS
<1> USE DEF IInv, TypeOK, Setting, Unset
<1>1. CASE Tick \/ ReadHi \/ ReadLo \/ ReadAgain \/ CallGet \/ UNCHANGED vars
  BY <1>1 DEF Tick, ReadHi, ReadLo, ReadAgain, CallGet, vars, timer, setting
<1>2. CASE Store
  <2>1. UNCHANGED <<main, target>>
    BY <1>2 DEF Store
  <2> QED BY <1>2, <2>1 DEF Store, Time
<1>3. CASE Connect \/ Printed \/ EnableMIE \/ EnableMTIE \/ LoopEnds \/ Mret
  BY <1>3 DEF Connect, Printed, Got, EnableMIE, EnableMTIE, LoopEnds, Mret, At, timer, setting
<1>4. CASE CallSet
  BY <1>4 DEF CallSet, SetMtimecmp, Got
<1>5. CASE Trap
  BY <1>5 DEF Trap, SetMtimecmp, Masked, timer, setting
<1> QED BY <1>1, <1>2, <1>3, <1>4, <1>5 DEF Next, Program

(* Only the deadline can ring: after it mtimecmp is never reached.          *)
LEMMA RingOnce ==
    ASSUME IInv, Trap
    PROVE  connected /\ rings = 0 /\ stores = {} /\ due.from \preceq mtime
<1> USE DEF IInv, TypeOK
<1>1. ~Unset /\ main # "MIE" /\ connected /\ ~trapped
  BY DEF Trap, Masked, Armed, Unset
<1>2. stores = {}
  BY <1>1 DEF Armed
<1>3. mtimecmp.hi = target.hi /\ mtimecmp.lo = target.lo
  BY <1>1, <1>2 DEF Setting
<1>4. ~(mtime \prec target)
  BY <1>3 DEF Trap, MTIP, \prec
<1>5. rings = 0
  BY <1>4, HalvesAssumption DEF Armed, Clock, MaxTime, \prec, Time
<1> QED BY <1>1, <1>2, <1>4, <1>5, HalvesAssumption DEF Armed, Time, \preceq, \prec

LEMMA ArmedNext == IInv /\ [Next]_vars => Armed'
<1> SUFFICES ASSUME IInv, [Next]_vars PROVE Armed'
  OBVIOUS
<1> USE DEF IInv, TypeOK, Armed, Unset
<1>1. CASE Tick
  <2>1. due.from \preceq mtime => due'.from \preceq mtime'
    BY <1>1, TickLater DEF Tick, histories, Clock
  <2> QED BY <1>1, <2>1 DEF Tick, enables, setting, histories
<1>2. CASE ReadHi \/ ReadLo \/ ReadAgain \/ CallGet \/ UNCHANGED vars
  <2>1. UNCHANGED <<mtime, connected, MIE, main, stores, target, trapped, due, rings>>
    BY <1>2 DEF ReadHi, ReadLo, ReadAgain, CallGet, vars, timer, enables, setting, histories
  <2> QED BY <2>1, Zenon
<1>3. CASE Store
  BY <1>3 DEF Store, enables, histories
<1>4. CASE Connect
  <2>1. UNCHANGED <<mtime, stores, target, trapped, due, rings>>
    BY <1>4, Zenon DEF Connect, timer, setting, histories
  <2>2. connected' /\ main' = "start" /\ rings = 0 /\ stores = {} /\ ~trapped
    BY <1>4 DEF Connect, At, Masked
  <2> QED BY <2>1, <2>2
<1>9. CASE Printed
  <2>1. UNCHANGED <<mtime, connected, MIE, stores, target, trapped, due, rings>>
    BY <1>9, Zenon DEF Printed, timer, enables, setting, histories
  <2>2. /\ main \in {"start", "end"} /\ (main = "start" => main' = "deadline")
        /\ main = "end" => main' = "ended"
    BY <1>9 DEF Printed, Got
  <2> QED BY <2>1, <2>2
<1>8. CASE EnableMIE \/ EnableMTIE \/ LoopEnds
  <2>1. UNCHANGED <<mtime, connected, stores, target, trapped, due, rings>>
    BY <1>8 DEF EnableMIE, EnableMTIE, LoopEnds, timer, enables, setting, histories
  <2>2. /\ ~Unset /\ main # "connect" /\ ~trapped /\ stores = {}
        /\ main' # "MIE" /\ main' # "connect"
    BY <1>8 DEF EnableMIE, EnableMTIE, LoopEnds, At
  <2> QED BY <2>1, <2>2
<1>5. CASE CallSet
  BY <1>5, DeadlineLate DEF CallSet, Got, Masked, timer, enables
<1>6. CASE Trap
  <2>1. connected /\ rings = 0 /\ stores = {} /\ due.from \preceq mtime
    BY <1>6, RingOnce DEF IInv
  <2>2. UNCHANGED <<mtime, connected, main, due>> /\ ~MIE' /\ trapped'
    BY <1>6, <2>1, Zenon DEF Trap, timer
  <2>3. rings' = 1 /\ target' = MaxTime
    BY <1>6, <2>1 DEF Trap, SetMtimecmp, Postponed
  <2> QED BY <2>1, <2>2, <2>3
<1>7. CASE Mret
  BY <1>7 DEF Mret, timer, setting, histories
<1> QED BY <1>1, <1>2, <1>3, <1>4, <1>5, <1>6, <1>7, <1>8, <1>9 DEF Next, Program

LEMMA NextIInv == IInv /\ [Next]_vars => IInv'
BY TypeNext, ReadingNext, MaskedNext, SettingNext, ArmedNext DEF IInv

LEMMA InvInductive == Spec => []IInv
BY InitIInv, NextIInv, PTL DEF Spec

-----------------------------------------------------------------------------
(* clint_get_mtime returns a time between its call and its return, wherever *)
(* the lower half rolls over.                                               *)
THEOREM ReadsCorrect == Spec => []ReadsExact
<1>1. IInv => ReadsExact
  BY DEF IInv, Reading
<1> QED BY <1>1, InvInductive, PTL

(* timer_handler is entered once at most, and no earlier than DELAY after   *)
(* the time was asked for, whatever mtimecmp holds while it is set.         *)
THEOREM RingsCorrect == Spec => []RingsOnTime
<1>1. IInv => RingsOnTime
  BY DEF IInv, Armed, RingsOnTime, \preceq
<1> QED BY <1>1, InvInductive, PTL
=============================================================================
