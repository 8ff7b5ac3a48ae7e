------------------------------ MODULE Monitor ------------------------------
(***************************************************************************)
(* What the locks and condition variables of NachOS threads/synch.h        *)
(* promise: at most one thread inside; waiting leaves the monitor and      *)
(* joins the waiters in one atomic step; a signal moves the longest        *)
(* waiting thread, if there is one, back to the entrance, where it         *)
(* competes with everybody else (Mesa style).  There are no semaphores     *)
(* here: Synch is shown to implement this module.                          *)
(***************************************************************************)
EXTENDS Sequences

CONSTANT Threads

VARIABLES state,     \* per thread: outside, entering, inside or waiting
          waiting    \* the waiting threads, in the order in which they came

vars == <<state, waiting>>

Init ==
    /\ state = [t \in Threads |-> "outside"]
    /\ waiting = <<>>

Move(t, from, to) == state[t] = from /\ state' = [state EXCEPT ![t] = to]

Request(t) == Move(t, "outside", "entering") /\ UNCHANGED waiting

Enter(t) ==
    /\ \A u \in Threads : state[u] # "inside"
    /\ Move(t, "entering", "inside")
    /\ UNCHANGED waiting

Exit(t) == Move(t, "inside", "outside") /\ UNCHANGED waiting

Wait(t) ==
    /\ Move(t, "inside", "waiting")
    /\ waiting' = Append(waiting, t)

Signal(t) ==
    /\ state[t] = "inside"
    /\ waiting # <<>>
    /\ Move(Head(waiting), "waiting", "entering")
    /\ waiting' = Tail(waiting)

Next ==
    \E t \in Threads : Request(t) \/ Enter(t) \/ Exit(t) \/ Wait(t) \/ Signal(t)

Spec == Init /\ [][Next]_vars
=============================================================================
