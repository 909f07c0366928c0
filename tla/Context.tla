------------------------------ MODULE Context -------------------------------
(***************************************************************************)
(* context.cc, built without ucontext: coroutines made of one POSIX thread  *)
(* per context.  Each context has a flag, a mutex and a condition variable; *)
(* the thread whose flag is up runs, all others sleep.  switch_to moves the *)
(* flag without holding any mutex and takes the mutex only to signal.       *)
(*                                                                          *)
(* One step is one access to memory or one call of the thread library.      *)
(* Sleeping threads may also wake for no reason, as POSIX allows.           *)
(***************************************************************************)
EXTENDS FiniteSets

CONSTANTS Contexts,  \* every context_t the program ever uses
          Main       \* the one of the thread that is there at the start

ASSUME MainAssumption == Main \in Contexts

VARIABLES pc,        \* where the thread of each context is
          flag,      \* context_t::flag
          locked,    \* the contexts whose mutex is held
          goal,      \* the context each thread last switched to
          entered    \* the contexts whose thread is past its wrapper

vars == <<pc, flag, locked, goal, entered>>

(* In the order of switch_to, then of init.                                 *)
Locations == {"none", "user", "lower", "raise", "lockThat", "signal",
              "unlockThat", "lockThis", "test", "sleep", "asleep", "woken",
              "unlockThis", "initLock", "initClear", "initThread"}

Init == /\ pc = [c \in Contexts |-> IF c = Main THEN "user" ELSE "none"]
        /\ flag = [c \in Contexts |-> c = Main]
        /\ locked = {}
        /\ goal = [c \in Contexts |-> Main]
        /\ entered = {Main}

At(c, l) == pc[c] = l
Go(c, l) == pc' = [pc EXCEPT ![c] = l]

(* pthread_mutex_lock and unlock of the mutex of m.                         *)
Acquire_Always(m) == locked' = locked \cup {m}
Acquire(m) == m \notin locked /\ locked' = locked \cup {m}
Release(m) == locked' = locked \ {m}

(* The user of c calls d->switch_to(); the code asserts that d is not c.    *)
CallSwitch(c, d) == /\ At(c, "user") /\ d \in entered \ {c}
                    /\ goal' = [goal EXCEPT ![c] = d]
                    /\ Go(c, "lower")
                    /\ UNCHANGED <<flag, locked, entered>>

(* cur->flag = 0                                                            *)
Lower_Skipped(c) == /\ At(c, "lower")
                    /\ Go(c, "raise")
                    /\ UNCHANGED <<flag, locked, goal, entered>>
Lower(c) == /\ At(c, "lower")
            /\ flag' = [flag EXCEPT ![c] = FALSE]
            /\ Go(c, "raise")
            /\ UNCHANGED <<locked, goal, entered>>

(* this->flag = 1; a thread that does this in its wrapper is past it then.  *)
Raise(c) == /\ At(c, "raise")
            /\ flag' = [flag EXCEPT ![goal[c]] = TRUE]
            /\ entered' = entered \cup {c}
            /\ Go(c, "lockThat")
            /\ UNCHANGED <<locked, goal>>

LockThat(c) == /\ At(c, "lockThat")
               /\ Acquire(goal[c])
               /\ Go(c, "signal")
               /\ UNCHANGED <<flag, goal, entered>>

(* Only a thread waits on its own condition variable.                       *)
Signal(c) == /\ At(c, "signal")
             /\ pc' = [pc EXCEPT ![c] = "unlockThat",
                                 ![goal[c]] = IF @ = "asleep" THEN "woken" ELSE @]
             /\ UNCHANGED <<flag, locked, goal, entered>>

UnlockThat(c) == /\ At(c, "unlockThat")
                 /\ Release(goal[c])
                 /\ Go(c, "lockThis")
                 /\ UNCHANGED <<flag, goal, entered>>

LockThis(c) == /\ At(c, "lockThis")
               /\ Acquire(c)
               /\ Go(c, "test")
               /\ UNCHANGED <<flag, goal, entered>>

(* while (!cur->flag) pthread_cond_wait(&cur->cond, &cur->mutex)            *)
Test(c) == /\ At(c, "test")
           /\ Go(c, IF flag[c] THEN "unlockThis" ELSE "sleep")
           /\ UNCHANGED <<flag, locked, goal, entered>>

Sleep(c) == /\ At(c, "sleep")
            /\ Release(c)
            /\ Go(c, "asleep")
            /\ UNCHANGED <<flag, goal, entered>>

Spurious(c) == /\ At(c, "asleep")
               /\ Go(c, "woken")
               /\ UNCHANGED <<flag, locked, goal, entered>>

AfterWait_If == "unlockThis"
AfterWait == "test"

Relock(c) == /\ At(c, "woken")
             /\ Acquire(c)
             /\ Go(c, AfterWait)
             /\ UNCHANGED <<flag, goal, entered>>

UnlockThis(c) == /\ At(c, "unlockThis")
                 /\ Release(c)
                 /\ Go(c, "user")
                 /\ UNCHANGED <<flag, goal, entered>>

(* The user of c calls init of a context that has no thread yet.            *)
CallInit(c) == /\ At(c, "user") /\ \E n \in Contexts : At(n, "none")
               /\ Go(c, "initLock")
               /\ UNCHANGED <<flag, locked, goal, entered>>

InitLock(c) == /\ At(c, "initLock")
               /\ Acquire(c)
               /\ Go(c, "initClear")
               /\ UNCHANGED <<flag, goal, entered>>

InitClear(c) == /\ At(c, "initClear")
                /\ flag' = [flag EXCEPT ![c] = FALSE]
                /\ Go(c, "initThread")
                /\ UNCHANGED <<locked, goal, entered>>

(* pthread_create: the new thread is in its wrapper, switching to its       *)
(* creator; the creator waits for it, still holding its mutex.              *)
InitThread(c, n) == /\ At(c, "initThread") /\ At(n, "none")
                    /\ goal' = [goal EXCEPT ![n] = c]
                    /\ pc' = [pc EXCEPT ![c] = "test", ![n] = "lower"]
                    /\ UNCHANGED <<flag, locked, entered>>

(* What the thread of c does by itself once it was told to.                 *)
Step(c) == \/ Lower(c) \/ Raise(c) \/ LockThat(c) \/ Signal(c) \/ UnlockThat(c)
           \/ LockThis(c) \/ Test(c) \/ Sleep(c) \/ Relock(c) \/ UnlockThis(c)
           \/ InitLock(c) \/ InitClear(c) \/ \E n \in Contexts : InitThread(c, n)

Next == \E c \in Contexts : \/ Step(c) \/ Spurious(c) \/ CallInit(c)
                            \/ \E d \in Contexts : CallSwitch(c, d)

(* Threads that can go on do; the users may keep control for ever.  A mutex *)
(* that is free again and again is granted in the end: a sleeper that wakes *)
(* for no reason takes its own mutex, but not in every instant.             *)
Fairness == \A c \in Contexts :
              /\ WF_vars(Step(c))
              /\ SF_vars(LockThat(c) \/ LockThis(c) \/ Relock(c))

Spec == Init /\ [][Next]_vars /\ Fairness

-----------------------------------------------------------------------------
TypeOK == /\ pc \in [Contexts -> Locations]
          /\ flag \in [Contexts -> BOOLEAN]
          /\ locked \subseteq Contexts
          /\ goal \in [Contexts -> Contexts]
          /\ entered \subseteq Contexts

(* Two contexts never run their users' code at a time, though the flags are *)
(* stored without a mutex and a sleeper may wake at any moment.             *)
MutualExclusion == \A c, d \in Contexts : At(c, "user") /\ At(d, "user") => c = d

(* Whose mutex the thread t holds, from where it is in the code.            *)
Holds(t, m) == \/ m = t /\ pc[t] \in {"initClear", "initThread", "test", "sleep",
                                     "unlockThis"}
               \/ m = goal[t] /\ pc[t] \in {"signal", "unlockThat"}

(* A mutex that is locked is held by one thread, so that the test of the    *)
(* flag and the wait cannot be split by the signal.                         *)
LocksHeld == \A m \in Contexts : /\ m \in locked <=> \E t \in Contexts : Holds(t, m)
                                 /\ \A t, u \in Contexts :
                                      Holds(t, m) /\ Holds(u, m) => t = u

(* The context that has control: its flag is up, or its thread is between    *)
(* two accesses that move the flag.                                         *)
Active(c) == flag[c] \/ pc[c] \in {"lower", "raise", "initThread"}

OneActive == /\ \E c \in Contexts : Active(c)
             /\ \A c, d \in Contexts : Active(c) /\ Active(d) => c = d

(* What the places in the code say about flags, goals and wrappers.         *)
FlagsInPlace == \A c \in Contexts :
    /\ pc[c] \in {"user", "unlockThis", "initLock", "initClear"} => flag[c]
    /\ pc[c] \in {"raise", "initThread"} => ~flag[c]

WrappersInPlace == \A c \in Contexts :
    /\ pc[c] \notin {"none", "lower", "raise"} => c \in entered
    /\ pc[c] = "none" => c \notin entered
    /\ pc[c] \in {"lower", "raise", "lockThat", "signal", "unlockThat"}
         => goal[c] \in entered \ {c}

(* Control is in one place at every instant, in the middle of an init or a  *)
(* switch too.                                                              *)
ControlInv == TypeOK /\ OneActive /\ FlagsInPlace /\ WrappersInPlace

(* The threads are safe: at no step of the thread library do two of them     *)
(* have control or run users' code, or is a mutex held by another thread     *)
(* than its place in the code says.                                         *)
ThreadsSafe == ControlInv /\ MutualExclusion /\ LocksHeld

HasControl == CHOOSE c \in Contexts : Active(c)

(* A thread that is still in its wrapper only gives control back.           *)
C == INSTANCE Coroutine WITH
       alive   <- entered,
       current <- IF HasControl \in entered THEN HasControl ELSE goal[HasControl]

(* Control moves only from the context that gives it, to the one it names:  *)
(* the threads together are the coroutines that ucontext provides.          *)
ImplementsCoroutine == C!CSpec

Given(c) == flag[c] /\ pc[c] \in {"lockThat", "signal", "unlockThat", "lockThis",
                                  "test", "sleep", "asleep", "woken"}

(* No wake-up is lost: the context that was given control gets to run,      *)
(* whatever the order of store, signal, test and wait.                      *)
ControlArrives == \A c \in Contexts : Given(c) ~> At(c, "user")
=============================================================================
