--------------------------- MODULE ContextProofs ----------------------------
(***************************************************************************)
(* Proofs about Context for every number of contexts: control is in one     *)
(* place, the mutexes are held by one thread each, and the threads with     *)
(* their flags are the coroutines of Coroutine.                             *)
(***************************************************************************)
EXTENDS Context, TLAPS

LEMMA InitControl == Init => ControlInv
<1> SUFFICES ASSUME Init PROVE ControlInv
  OBVIOUS
<1>1. /\ \A c \in Contexts : pc[c] = IF c = Main THEN "user" ELSE "none"
      /\ \A c \in Contexts : flag[c] <=> c = Main
      /\ entered = {Main}
  BY Zenon DEF Init
<1>2. TypeOK
  <2>1. pc \in [Contexts -> Locations]
    BY DEF Init, Locations
  <2>2. flag \in [Contexts -> BOOLEAN]
    BY Zenon DEF Init
  <2>3. goal \in [Contexts -> Contexts]
    BY MainAssumption DEF Init
  <2> QED BY <2>1, <2>2, <2>3, <1>1, MainAssumption DEF Init, TypeOK
<1>3. OneActive /\ FlagsInPlace /\ WrappersInPlace
  BY <1>1, MainAssumption DEF OneActive, FlagsInPlace, WrappersInPlace, Active
<1> QED BY <1>2, <1>3 DEF ControlInv

(* Each step of a thread or its user keeps control in one place.            *)
LEMMA NextControl == ControlInv /\ [Next]_vars => ControlInv'
<1> SUFFICES ASSUME ControlInv, [Next]_vars PROVE ControlInv'
  OBVIOUS
<1> USE DEF ControlInv, TypeOK, OneActive, FlagsInPlace, WrappersInPlace, Active,
            At, Go, Locations
<1>1. ASSUME NEW c \in Contexts, NEW d \in Contexts, CallSwitch(c, d)
      PROVE  ControlInv'
  BY <1>1 DEF CallSwitch
<1>2. ASSUME NEW c \in Contexts, Lower(c) PROVE ControlInv'
  BY <1>2 DEF Lower
<1>3. ASSUME NEW c \in Contexts, Raise(c) PROVE ControlInv'
  <2> DEFINE g == goal[c]
  <2>1. g \in entered /\ g # c /\ g \in Contexts /\ ~flag[c] /\ pc[c] = "raise"
    BY <1>3 DEF Raise
  <2>2. \A d \in Contexts : d # c => ~Active(d)
    BY <2>1
  <2>3. \A d \in Contexts : Active(d)' <=> d = g
    BY <1>3, <2>1, <2>2 DEF Raise
  <2>4. OneActive'
    BY <2>1, <2>3
  <2>5. TypeOK' /\ FlagsInPlace' /\ WrappersInPlace'
    BY <1>3, <2>1, <2>2 DEF Raise
  <2> QED BY <2>4, <2>5
<1>4. ASSUME NEW c \in Contexts, LockThat(c) PROVE ControlInv'
  BY <1>4 DEF LockThat, Acquire
<1>5. ASSUME NEW c \in Contexts, Signal(c) PROVE ControlInv'
  BY <1>5 DEF Signal
<1>6. ASSUME NEW c \in Contexts, UnlockThat(c) PROVE ControlInv'
  BY <1>6 DEF UnlockThat, Release
<1>7. ASSUME NEW c \in Contexts, LockThis(c) PROVE ControlInv'
  BY <1>7 DEF LockThis, Acquire
<1>8. ASSUME NEW c \in Contexts, Test(c) PROVE ControlInv'
  BY <1>8 DEF Test
<1>9. ASSUME NEW c \in Contexts, Sleep(c) PROVE ControlInv'
  BY <1>9 DEF Sleep, Release
<1>10. ASSUME NEW c \in Contexts, Spurious(c) PROVE ControlInv'
  BY <1>10 DEF Spurious
<1>11. ASSUME NEW c \in Contexts, Relock(c) PROVE ControlInv'
  BY <1>11 DEF Relock, Acquire, AfterWait
<1>12. ASSUME NEW c \in Contexts, UnlockThis(c) PROVE ControlInv'
  BY <1>12 DEF UnlockThis, Release
<1>13. ASSUME NEW c \in Contexts, CallInit(c) PROVE ControlInv'
  BY <1>13 DEF CallInit
<1>14. ASSUME NEW c \in Contexts, InitLock(c) PROVE ControlInv'
  BY <1>14 DEF InitLock, Acquire
<1>15. ASSUME NEW c \in Contexts, InitClear(c) PROVE ControlInv'
  BY <1>15 DEF InitClear
<1>16. ASSUME NEW c \in Contexts, NEW n \in Contexts, InitThread(c, n)
       PROVE  ControlInv'
  BY <1>16 DEF InitThread
<1>17. CASE UNCHANGED vars
  BY <1>17 DEF vars
<1> QED
  BY <1>1, <1>2, <1>3, <1>4, <1>5, <1>6, <1>7, <1>8, <1>9, <1>10, <1>11, <1>12,
     <1>13, <1>14, <1>15, <1>16, <1>17 DEF Next, Step

(* Control is in one place at every instant, for any number of contexts and *)
(* any pattern of switches, inits and spurious wake-ups.                    *)
THEOREM ControlCorrect == Spec => []ControlInv
<1>1. ControlInv /\ [Next]_vars => ControlInv'
  BY NextControl
<1> QED BY <1>1, InitControl, PTL DEF Spec

(* At most one context runs its user's code.                                *)
THEOREM OneUser == Spec => []MutualExclusion
<1>1. ControlInv => MutualExclusion
  BY DEF ControlInv, OneActive, FlagsInPlace, Active, MutualExclusion, At
<1> QED BY <1>1, ControlCorrect, PTL

-----------------------------------------------------------------------------
(* Mutexes: who holds one, from the places in the code.                     *)
LEMMA InitLocks == Init => LocksHeld
BY DEF Init, LocksHeld, Holds

LEMMA NextLocks == ControlInv /\ LocksHeld /\ [Next]_vars => LocksHeld'
<1> SUFFICES ASSUME ControlInv, LocksHeld, [Next]_vars PROVE LocksHeld'
  OBVIOUS
<1> USE DEF ControlInv, TypeOK, LocksHeld, Holds, At, Go
<1>0. \A t \in Contexts : pc[t] \in {"lower", "raise", "lockThat", "signal", "unlockThat"}
         => goal[t] \in Contexts /\ goal[t] # t
  BY DEF WrappersInPlace
<1>1. ASSUME NEW c \in Contexts, NEW d \in Contexts, CallSwitch(c, d)
      PROVE  LocksHeld'
  BY <1>1 DEF CallSwitch
<1>2. ASSUME NEW c \in Contexts, Lower(c) PROVE LocksHeld'
  BY <1>2 DEF Lower
<1>3. ASSUME NEW c \in Contexts, Raise(c) PROVE LocksHeld'
  BY <1>3 DEF Raise
<1>4. ASSUME NEW c \in Contexts, LockThat(c) PROVE LocksHeld'
  BY <1>4, <1>0 DEF LockThat, Acquire
<1>5. ASSUME NEW c \in Contexts, Signal(c) PROVE LocksHeld'
  BY <1>5, <1>0 DEF Signal
<1>6. ASSUME NEW c \in Contexts, UnlockThat(c) PROVE LocksHeld'
  BY <1>6, <1>0 DEF UnlockThat, Release
<1>7. ASSUME NEW c \in Contexts, LockThis(c) PROVE LocksHeld'
  BY <1>7 DEF LockThis, Acquire
<1>8. ASSUME NEW c \in Contexts, Test(c) PROVE LocksHeld'
  BY <1>8 DEF Test
<1>9. ASSUME NEW c \in Contexts, Sleep(c) PROVE LocksHeld'
  BY <1>9 DEF Sleep, Release
<1>10. ASSUME NEW c \in Contexts, Spurious(c) PROVE LocksHeld'
  BY <1>10 DEF Spurious
<1>11. ASSUME NEW c \in Contexts, Relock(c) PROVE LocksHeld'
  BY <1>11 DEF Relock, Acquire, AfterWait
<1>12. ASSUME NEW c \in Contexts, UnlockThis(c) PROVE LocksHeld'
  BY <1>12 DEF UnlockThis, Release
<1>13. ASSUME NEW c \in Contexts, CallInit(c) PROVE LocksHeld'
  BY <1>13 DEF CallInit
<1>14. ASSUME NEW c \in Contexts, InitLock(c) PROVE LocksHeld'
  BY <1>14 DEF InitLock, Acquire
<1>15. ASSUME NEW c \in Contexts, InitClear(c) PROVE LocksHeld'
  BY <1>15 DEF InitClear
<1>16. ASSUME NEW c \in Contexts, NEW n \in Contexts, InitThread(c, n)
       PROVE  LocksHeld'
  BY <1>16 DEF InitThread
<1>17. CASE UNCHANGED vars
  BY <1>17 DEF vars
<1> QED
  BY <1>1, <1>2, <1>3, <1>4, <1>5, <1>6, <1>7, <1>8, <1>9, <1>10, <1>11, <1>12,
     <1>13, <1>14, <1>15, <1>16, <1>17 DEF Next, Step

(* A locked mutex is held by exactly one thread: the test of the flag and    *)
(* the start of the wait are not split by a signal.                         *)
THEOREM LocksCorrect == Spec => []LocksHeld
<1>1. ControlInv /\ LocksHeld /\ [Next]_vars => LocksHeld'
  BY NextLocks
<1> QED BY <1>1, InitLocks, ControlCorrect, PTL DEF Spec

(* The three together: what the runs check of the threads, for any number   *)
(* of contexts.                                                             *)
THEOREM ThreadsCorrect == Spec => []ThreadsSafe
BY ControlCorrect, OneUser, LocksCorrect, PTL DEF ThreadsSafe

-----------------------------------------------------------------------------
(* Refinement: the context with control, and the one the wrappers return to. *)
Mapped == IF HasControl \in entered THEN HasControl ELSE goal[HasControl]

LEMMA ControlIs ==
    ASSUME ControlInv, NEW c \in Contexts, Active(c)
    PROVE  HasControl = c
BY DEF ControlInv, OneActive, HasControl

LEMMA ControlIsNext ==
    ASSUME ControlInv', NEW c \in Contexts, Active(c)'
    PROVE  HasControl' = c
BY DEF ControlInv, OneActive, HasControl

LEMMA InitMaps == Init => C!CInit
<1> SUFFICES ASSUME Init PROVE C!CInit
  OBVIOUS
<1>1. entered = {Main} /\ flag = [c \in Contexts |-> c = Main]
  BY Zenon DEF Init
<1>2. Active(Main)
  BY <1>1, MainAssumption, Zenon DEF Active
<1>3. HasControl = Main
  BY <1>2, InitControl, ControlIs, MainAssumption
<1> QED BY <1>1, <1>3 DEF C!CInit

(* A step that leaves control where it is, and the wrappers, is none of the *)
(* coroutines.                                                              *)
LEMMA ControlStays ==
    ASSUME ControlInv, ControlInv', entered' = entered,
           NEW c \in Contexts, Active(c), Active(c)',
           c \in entered \/ goal'[c] = goal[c]
    PROVE  UNCHANGED <<Mapped, entered>>
<1>1. HasControl = c /\ HasControl' = c
  BY ControlIs, ControlIsNext
<1> QED BY <1>1 DEF Mapped

LEMMA NextMaps == ControlInv /\ ControlInv' /\ [Next]_vars
                    => [C!CNext]_<<Mapped, entered>>
<1> SUFFICES ASSUME ControlInv, ControlInv', [Next]_vars
             PROVE  [C!CNext]_<<Mapped, entered>>
  OBVIOUS
<1> USE DEF At, Go
<1>0. PICK a \in Contexts : Active(a)
  BY DEF ControlInv, OneActive
<1>t. TypeOK /\ TypeOK'
  BY DEF ControlInv
<1>1. ASSUME NEW c \in Contexts, NEW d \in Contexts, CallSwitch(c, d)
      PROVE  UNCHANGED <<Mapped, entered>>
  <2>1. Active(c) /\ Active(c)' /\ c \in entered /\ entered' = entered
    BY <1>1, <1>t DEF CallSwitch, Active, ControlInv, FlagsInPlace, WrappersInPlace, TypeOK
  <2> QED BY <2>1, ControlStays
<1>2. ASSUME NEW c \in Contexts, Lower(c) PROVE UNCHANGED <<Mapped, entered>>
  <2>1. Active(c) /\ Active(c)' /\ goal' = goal /\ entered' = entered
    BY <1>2, <1>t DEF Lower, Active, TypeOK
  <2> QED BY <2>1, ControlStays
<1>3. ASSUME NEW c \in Contexts, Raise(c) PROVE C!CNext
  <2>1. /\ HasControl = c
        /\ goal[c] \in entered \ {c} /\ goal[c] \in Contexts
        /\ entered' = entered \cup {c} /\ goal' = goal
    BY <1>3, <1>t, ControlIs DEF Raise, Active, ControlInv, WrappersInPlace, TypeOK
  <2>2. Active(goal[c])'
    BY <1>3, <1>t DEF Raise, Active, TypeOK
  <2>3. HasControl' = goal[c] /\ Mapped' = goal[c]
    BY <2>1, <2>2, ControlIsNext DEF Mapped
  <2>4. CASE c \in entered
    <3>1. Mapped = c /\ entered' = entered
      BY <2>1, <2>4 DEF Mapped
    <3>2. C!SwitchTo(goal[c])
      BY <2>1, <2>3, <3>1 DEF C!SwitchTo, Mapped
    <3> QED BY <2>1, <3>2 DEF C!CNext
  <2>5. CASE c \notin entered
    <3>1. Mapped = goal[c]
      BY <2>1, <2>5 DEF Mapped
    <3>2. C!Create(c)
      BY <2>1, <2>3, <2>5, <3>1 DEF C!Create, Mapped
    <3> QED BY <3>2 DEF C!CNext
  <2> QED BY <2>4, <2>5
<1>4. ASSUME NEW c \in Contexts, NEW n \in Contexts, InitThread(c, n)
      PROVE  UNCHANGED <<Mapped, entered>>
  <2>1. /\ HasControl = c /\ c \in entered
        /\ n \notin entered /\ entered' = entered /\ goal'[n] = c
    BY <1>4, <1>t, ControlIs
    DEF InitThread, Active, ControlInv, WrappersInPlace, TypeOK
  <2>2. Active(n)'
    BY <1>4, <1>t DEF InitThread, Active, TypeOK
  <2>3. HasControl' = n
    BY <2>2, ControlIsNext
  <2> QED BY <2>1, <2>3 DEF Mapped
<1>5. ASSUME NEW c \in Contexts, InitClear(c) PROVE UNCHANGED <<Mapped, entered>>
  <2>1. Active(c) /\ Active(c)' /\ goal' = goal /\ entered' = entered
    BY <1>5, <1>t DEF InitClear, Active, ControlInv, FlagsInPlace, TypeOK
  <2> QED BY <2>1, ControlStays
(* All other steps leave flags and goals alone, and control with them.      *)
<1>6. ASSUME NEW c \in Contexts,
             \/ LockThat(c) \/ Signal(c) \/ UnlockThat(c) \/ LockThis(c) \/ Test(c)
             \/ Sleep(c) \/ Spurious(c) \/ Relock(c) \/ UnlockThis(c)
             \/ CallInit(c) \/ InitLock(c)
      PROVE  UNCHANGED <<Mapped, entered>>
  <2>1. flag' = flag /\ goal' = goal /\ entered' = entered
    BY <1>6, Zenon DEF LockThat, Signal, UnlockThat, LockThis, Test, Sleep, Spurious,
       Relock, UnlockThis, CallInit, InitLock
  <2>2. \A d \in Contexts : pc[d] \in {"lower", "raise", "initThread"} => pc'[d] = pc[d]
    BY <1>6, <1>t DEF LockThat, Signal, UnlockThat, LockThis, Test, Sleep, Spurious,
       Relock, UnlockThis, CallInit, InitLock, TypeOK
  <2>3. Active(a)'
    BY <1>0, <2>1, <2>2 DEF Active
  <2> QED BY <1>0, <2>1, <2>3, ControlStays
<1>7. CASE UNCHANGED vars
  <2>1. Active(a)' /\ goal' = goal /\ entered' = entered
    BY <1>0, <1>7 DEF vars, Active
  <2> QED BY <1>0, <2>1, ControlStays
<1> QED
  BY <1>1, <1>2, <1>3, <1>4, <1>5, <1>6, <1>7 DEF Next, Step

(* The threads, flags and condition variables implement the coroutines that *)
(* the ucontext build has, for any number of contexts.                      *)
THEOREM ContextIsCoroutine == Spec => ImplementsCoroutine
<1>1. ControlInv /\ ControlInv' /\ [Next]_vars => [C!CNext]_<<Mapped, entered>>
  BY NextMaps
<1> QED BY <1>1, InitMaps, ControlCorrect, PTL
        DEF Spec, ImplementsCoroutine, C!CSpec, Mapped
=============================================================================
