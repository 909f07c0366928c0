----------------------------- MODULE Coroutine ------------------------------
(***************************************************************************)
(* What context.h promises its users, the host thread of HTIF and the       *)
(* target simulation: control is in one place, and moves only when the      *)
(* context that has it hands it over.  This is also what context.cc does    *)
(* when it is built with ucontext, where every operation is one step.       *)
(***************************************************************************)
CONSTANTS Contexts,  \* every context_t the program ever uses
          Main       \* the one that is running at the start

VARIABLES current,   \* the context that has control
          alive      \* the contexts that can be switched to

CInit == current = Main /\ alive = {Main}

(* init: the new context runs its wrapper, which hands control back.        *)
Create(n) == /\ n \notin alive
             /\ alive' = alive \cup {n}
             /\ UNCHANGED current

(* switch_to                                                                *)
SwitchTo(d) == /\ d \in alive \ {current}
               /\ current' = d
               /\ UNCHANGED alive

CNext == \E c \in Contexts : Create(c) \/ SwitchTo(c)

CSpec == CInit /\ [][CNext]_<<current, alive>>
=============================================================================
