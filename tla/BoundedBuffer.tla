--------------------------- MODULE BoundedBuffer ---------------------------
(***************************************************************************)
(* What the thread-safe queue of NTHU-OS-Pthreads/ts_queue.hpp promises    *)
(* its callers: a first-in first-out buffer of bounded length on which     *)
(* every call takes effect at one instant between its invocation and its   *)
(* return.  An enqueue waits for room, a dequeue waits for an item.        *)
(* There is no lock, no condition variable and no ring here: TSQueue is    *)
(* shown to implement this module.  So is the SynchList of NachOS          *)
(* threads/synchlist.cc, whose list has no bound.                          *)
(***************************************************************************)
EXTENDS Naturals, Sequences

CONSTANTS Enqueuers,   \* threads that call enqueue
          Dequeuers,   \* threads that call dequeue
          Items,       \* what the queue carries
          NoItem,      \* the content of a slot or a variable never written
          Capacity     \* the most items the queue holds; -1 if there is no bound

Callers == Enqueuers \cup Dequeuers

VARIABLES queue,    \* the items in the queue, oldest first
          status,   \* per thread: outside a call, before or after its effect
          item      \* per thread: the argument of enqueue, the result of dequeue

vars == <<queue, status, item>>

Init ==
    /\ queue = <<>>
    /\ status = [t \in Callers |-> "outside"]
    /\ item = [t \in Callers |-> NoItem]

CallEnqueue(t, x) ==
    /\ status[t] = "outside"
    /\ status' = [status EXCEPT ![t] = "before"]
    /\ item' = [item EXCEPT ![t] = x]
    /\ UNCHANGED queue

CallDequeue(t) ==
    /\ status[t] = "outside"
    /\ status' = [status EXCEPT ![t] = "before"]
    /\ item' = [item EXCEPT ![t] = NoItem]
    /\ UNCHANGED queue

Put(t) ==
    /\ status[t] = "before"
    /\ Len(queue) # Capacity
    /\ queue' = Append(queue, item[t])
    /\ status' = [status EXCEPT ![t] = "after"]
    /\ UNCHANGED item

Take(t) ==
    /\ status[t] = "before"
    /\ queue # <<>>
    /\ item' = [item EXCEPT ![t] = Head(queue)]
    /\ queue' = Tail(queue)
    /\ status' = [status EXCEPT ![t] = "after"]

Return(t) ==
    /\ status[t] = "after"
    /\ status' = [status EXCEPT ![t] = "outside"]
    /\ UNCHANGED <<queue, item>>

Next ==
    \/ \E t \in Enqueuers : Put(t) \/ \E x \in Items : CallEnqueue(t, x)
    \/ \E t \in Dequeuers : CallDequeue(t) \/ Take(t)
    \/ \E t \in Callers : Return(t)

Spec == Init /\ [][Next]_vars
=============================================================================
