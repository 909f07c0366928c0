------------------------------- MODULE Clint --------------------------------
(***************************************************************************)
(* The timer of the CLINT with its driver in ee290c_devices.c and the test  *)
(* program timer_test.c: mtime and mtimecmp are 64-bit registers that a     *)
(* 32-bit hart reads and writes in halves while the timer counts and the    *)
(* comparison is live.                                                      *)
(*                                                                          *)
(* mtimecmp is not volatile, so the build (-O2) may drop the first of the    *)
(* two stores into its upper half as dead, and may order the others as it   *)
(* likes.  All outcomes are modelled.  Printing is left out; SyscallTarget  *)
(* models what it does.                                                     *)
(***************************************************************************)
EXTENDS Naturals

CONSTANTS LO, HI,   \* how many values the halves of a register have; 2^32 both
          DELAY     \* 5000 in timer_test.c

ASSUME HalvesAssumption == LO \in Nat /\ HI \in Nat /\ LO >= 2 /\ HI >= 2
ASSUME DelayAssumption  == DELAY \in 0 .. LO - 1

Time == [hi : 0 .. HI - 1, lo : 0 .. LO - 1]
MaxTime == [hi |-> HI - 1, lo |-> LO - 1]     \* (uint64_t)-1

s \prec t == s.hi < t.hi \/ (s.hi = t.hi /\ s.lo < t.lo)

(* The sum of 64-bit numbers; a carry out of the upper half is lost.        *)
Plus(t, d) == IF t.lo + d < LO
                THEN [t EXCEPT !.lo = @ + d]
                ELSE [hi |-> IF t.hi + 1 = HI THEN 0 ELSE t.hi + 1, lo |-> t.lo + d - LO]

VARIABLES mtime, mtimecmp,
          connected,   \* clint_handler_vector[INT_CODE_MACHINE_TIMER] is set
          MIE, MTIE,   \* mstatus.MIE and the timer's bit of mie
          main,        \* where main is, or what it calls
          reading,     \* where clint_get_mtime is
          hi, lo,      \* its locals
          stores,      \* the stores of clint_set_mtimecmp that are still to come
          target,      \* its parameter
          trapped,     \* timer_handler is running
          asked,       \* history: the time when the last clint_get_mtime was called
          due,         \* history: the earliest and the latest time to ring at
          rings        \* history: how often the handler was entered

vars == <<mtime, mtimecmp, connected, MIE, MTIE, main, reading, hi, lo, stores, target,
          trapped, asked, due, rings>>
timer == <<mtime, mtimecmp>>
locals == <<reading, hi, lo>>
enables == <<connected, MIE, MTIE>>
setting == <<stores, target>>
histories == <<asked, due, rings>>

Zero == [hi |-> 0, lo |-> 0]

(* mtimecmp has no reset value; mtime has been counting.                    *)
Init == /\ mtime \in {t \in Time : t.hi = 0} /\ mtimecmp \in Time
        /\ connected = FALSE /\ MIE = FALSE /\ MTIE = FALSE
        /\ main = "connect" /\ reading = "no" /\ hi = 0 /\ lo = 0
        /\ stores = {} /\ target = Zero /\ trapped = FALSE
        /\ asked = Zero /\ due = [from |-> MaxTime, to |-> MaxTime] /\ rings = 0

(* The timer counts.  It never gets to the last of its upper halves: at one  *)
(* microsecond a step that takes half a million years.                      *)
Tick == /\ mtime.hi < HI - 1 /\ Plus(mtime, 1).hi < HI - 1
        /\ mtime' = Plus(mtime, 1)
        /\ UNCHANGED <<mtimecmp, enables, main, locals, setting, trapped, histories>>

MTIP == ~(mtime \prec mtimecmp)

-----------------------------------------------------------------------------
(* clint_get_mtime, three reads of the device.  The comparison with the     *)
(* second reading of the upper half, and a loop that lacks it.              *)
SameHi_Unchecked == TRUE
SameHi           == mtime.hi = hi

ReadHi == /\ reading = "hi" /\ ~trapped
          /\ hi' = mtime.hi /\ reading' = "lo"
          /\ UNCHANGED <<timer, enables, main, lo, setting, trapped, histories>>

ReadLo == /\ reading = "lo" /\ ~trapped
          /\ lo' = mtime.lo /\ reading' = "again"
          /\ UNCHANGED <<timer, enables, main, hi, setting, trapped, histories>>

ReadAgain == /\ reading = "again" /\ ~trapped
             /\ reading' = IF SameHi THEN "done" ELSE "hi"
             /\ UNCHANGED <<timer, enables, main, hi, lo, setting, trapped, histories>>

(* clint_set_mtimecmp(t): its three stores, or those that a build leaves;    *)
(* and one that leaves the upper half at its maximum.                       *)
SetMtimecmp_NoUpper(t) == target' = t /\ stores' = {"max", "lo"}
SetMtimecmp(t) == /\ target' = t
                  /\ stores' \in {{"max", "lo", "hi"}, {"lo", "hi"}}

Store == \E half \in stores :
    /\ half # "max" => "max" \notin stores
    /\ stores' = stores \ {half}
    /\ mtimecmp' = CASE half = "max" -> [mtimecmp EXCEPT !.hi = HI - 1]
                     [] half = "hi"  -> [mtimecmp EXCEPT !.hi = target.hi]
                     [] half = "lo"  -> [mtimecmp EXCEPT !.lo = target.lo]
    /\ UNCHANGED <<mtime, target, enables, main, locals, trapped, histories>>

-----------------------------------------------------------------------------
(* main of timer_test.c.                                                    *)
At(l) == main = l /\ ~trapped /\ stores = {} /\ reading = "no"

Connect == /\ At("connect")
           /\ connected' = TRUE /\ main' = "start"
           /\ UNCHANGED <<timer, MIE, MTIE, locals, setting, trapped, histories>>

(* "Start time", the time that the deadline is computed from, "End time".   *)
CallGet == /\ At("start") \/ At("deadline") \/ At("end")
           /\ reading' = "hi" /\ asked' = mtime
           /\ UNCHANGED <<timer, enables, main, hi, lo, setting, trapped, due, rings>>

Got(l) == main = l /\ ~trapped /\ reading = "done"

Printed == /\ Got("start") \/ Got("end")
           /\ reading' = "no"
           /\ main' = IF main = "start" THEN "deadline" ELSE "ended"
           /\ UNCHANGED <<timer, enables, hi, lo, setting, trapped, histories>>

Deadline == Plus([hi |-> hi, lo |-> lo], DELAY)

CallSet == /\ Got("deadline")
           /\ SetMtimecmp(Deadline)
           /\ due' = [from |-> Plus(asked, DELAY), to |-> Plus(mtime, DELAY)]
           /\ reading' = "no" /\ main' = "MIE"
           /\ UNCHANGED <<timer, enables, hi, lo, trapped, asked, rings>>

(* mstatus_enable_interrupt and clint_machine_interrupt_enable, and the     *)
(* former without a wait for the deadline.                                  *)
EnableMIE_First == /\ main = "start" /\ ~trapped /\ reading = "no"
                   /\ MIE' = TRUE /\ MTIE' = TRUE /\ UNCHANGED main
                   /\ UNCHANGED <<timer, connected, locals, setting, trapped, histories>>
EnableMIE == /\ At("MIE")
             /\ MIE' = TRUE /\ main' = "MTIE"
             /\ UNCHANGED <<timer, connected, MTIE, locals, setting, trapped, histories>>

EnableMTIE == /\ At("MTIE")
              /\ MTIE' = TRUE /\ main' = "loop"
              /\ UNCHANGED <<timer, connected, MIE, locals, setting, trapped, histories>>

LoopEnds == /\ At("loop")
            /\ main' = "end"
            /\ UNCHANGED <<timer, enables, locals, setting, trapped, histories>>

-----------------------------------------------------------------------------
(* The trap: the hart clears MIE, handle_trap finds the handler, which      *)
(* postpones the next interrupt for ever.                                   *)
Postponed == MaxTime

Trap == /\ MIE /\ MTIE /\ MTIP
        /\ MIE' = FALSE
        /\ IF connected
             THEN /\ trapped' = TRUE /\ rings' = rings + 1
                  /\ SetMtimecmp(Postponed)
             ELSE UNCHANGED <<trapped, rings, setting>>
        /\ UNCHANGED <<timer, connected, MTIE, main, locals, asked, due>>

(* mret: MIE comes back.                                                    *)
Mret == /\ trapped /\ stores = {}
        /\ trapped' = FALSE /\ MIE' = TRUE
        /\ UNCHANGED <<timer, connected, MTIE, main, locals, setting, histories>>

Program == \/ Connect \/ CallGet \/ Printed \/ CallSet \/ EnableMIE \/ EnableMTIE \/ LoopEnds
           \/ ReadHi \/ ReadLo \/ ReadAgain \/ Store

Next == Tick \/ Program \/ Trap \/ Mret

(* The timer counts and the hart runs.                                      *)
Spec == Init /\ [][Next]_vars /\ WF_vars(Tick) /\ WF_vars(Program) /\ WF_vars(Trap \/ Mret)

-----------------------------------------------------------------------------
TypeOK == /\ mtime \in Time /\ mtimecmp \in Time
          /\ connected \in BOOLEAN /\ MIE \in BOOLEAN /\ MTIE \in BOOLEAN
          /\ main \in {"connect", "start", "deadline", "MIE", "MTIE", "loop", "end", "ended"}
          /\ reading \in {"no", "hi", "lo", "again", "done"}
          /\ hi \in 0 .. HI - 1 /\ lo \in 0 .. LO - 1
          /\ stores \in SUBSET {"max", "lo", "hi"} /\ target \in Time
          /\ trapped \in BOOLEAN /\ asked \in Time
          /\ due \in [from : Time, to : Time] /\ rings \in Nat

(* clint_get_mtime returns a time between its call and its return, though   *)
(* the lower half may roll over between any two of its reads.               *)
ReadsExact == reading = "done" =>
    /\ ~([hi |-> hi, lo |-> lo] \prec asked)
    /\ ~(mtime \prec [hi |-> hi, lo |-> lo])

(* "Interrupt after 5000us": the handler is entered once, and not before    *)
(* the delay has passed since main asked for the time, whatever mtimecmp    *)
(* holds at power-on and between the stores into its halves.                *)
RingsOnTime == trapped => rings = 1 /\ ~(mtime \prec due.from)

(* And it does ring, unless it lies beyond the life of the timer.           *)
Rings == MIE /\ MTIE /\ due.to.hi < HI - 1 ~> rings = 1
=============================================================================
