------------------------------- MODULE Synch -------------------------------
(***************************************************************************)
(* NachOS threads/synch.cc: a Lock made of a semaphore, and a Condition    *)
(* made of one semaphore per waiting thread, used by threads that keep the *)
(* convention of synch.h (only the holder of the lock releases it, waits,  *)
(* signals or broadcasts).                                                 *)
(*                                                                         *)
(* There is one processor.  A thread is preempted only where interrupts    *)
(* are switched back on, which is at the end of each P and V, and it gives *)
(* up the processor in Sleep; a step is the code between two such points.  *)
(* Any thread that is not blocked may be the next to run.                  *)
(***************************************************************************)
EXTENDS Integers, SequencesExt

CONSTANTS Threads,   \* the threads that use the lock and the condition
          TheLock,   \* the semaphore of the lock
          Nobody     \* lockHolder == NULL

ASSUME SynchAssumption == TheLock \notin Threads /\ Nobody \notin Threads

Semaphores == Threads \cup {TheLock}   \* t names the semaphore on which t waits

VARIABLES value,       \* per semaphore: Semaphore::value
          queue,       \* per semaphore: Semaphore::queue
          blocked,     \* the threads that sleep in P
          lockHolder,  \* Lock::lockHolder
          waitQueue,   \* Condition::waitQueue
          pc           \* per thread: the call it has reached

vars == <<value, queue, blocked, lockHolder, waitQueue, pc>>

Locations == {"outside", "acquire", "acquired", "inside", "broadcast",
              "sleep", "reacquire", "reacquired"}

Goto(t, from, to) == pc[t] = from /\ pc' = [pc EXCEPT ![t] = to]

(* A definition marked "fault" is the one after it with a mistake in it.   *)
(* No specification uses it: put in place of the correct one, it makes the *)
(* property it is meant for fail, which shows that the property can fail.  *)

-----------------------------------------------------------------------------
(* Semaphores.                                                             *)

NeverBusy(s) == FALSE                  \* fault
Busy(s) == value[s] = 0

WakesNobody(s) == {}                   \* fault
FrontOf(s) == IF queue[s] = <<>> THEN {} ELSE {Head(queue[s])}

NothingRemoved(q) == q                 \* fault
WithoutFront(q) == IF q = <<>> THEN q ELSE Tail(q)

(* Semaphore::P: while (value == 0) append to the queue and sleep; value--. *)
P(t, s, from, to) ==
    /\ t \notin blocked
    /\ \/ /\ Busy(s)
          /\ Goto(t, from, from)
          /\ queue' = [queue EXCEPT ![s] = Append(@, t)]
          /\ blocked' = blocked \cup {t}
          /\ UNCHANGED value
       \/ /\ ~Busy(s)
          /\ Goto(t, from, to)
          /\ value' = [value EXCEPT ![s] = @ - 1]
          /\ UNCHANGED <<queue, blocked>>

(* Semaphore::V: make the first waiter ready, if there is one; value++.    *)
V(s) ==
    /\ value' = [value EXCEPT ![s] = @ + 1]
    /\ queue' = [queue EXCEPT ![s] = WithoutFront(@)]
    /\ blocked' = blocked \ FrontOf(s)

-----------------------------------------------------------------------------
Init ==
    /\ value = [s \in Semaphores |-> IF s = TheLock THEN 1 ELSE 0]
    /\ queue = [s \in Semaphores |-> <<>>]
    /\ blocked = {}
    /\ lockHolder = Nobody
    /\ waitQueue = <<>>
    /\ pc = [t \in Threads |-> "outside"]

(* Lock::Acquire: P on the lock's semaphore.  A thread that has it is not  *)
(* the holder yet: P ends by switching interrupts on, where other threads  *)
(* may run.                                                                *)
CallAcquire(t) ==
    /\ Goto(t, "outside", "acquire")
    /\ UNCHANGED <<value, queue, blocked, lockHolder, waitQueue>>

Acquire(t) ==
    /\ P(t, TheLock, "acquire", "acquired")
    /\ UNCHANGED <<lockHolder, waitQueue>>

SetHolder(t) ==
    /\ Goto(t, "acquired", "inside")
    /\ lockHolder' = t
    /\ UNCHANGED <<value, queue, blocked, waitQueue>>

HolderKept == lockHolder               \* fault
NoHolder == Nobody

(* Lock::Release.                                                          *)
Release(t) ==
    /\ lockHolder = t
    /\ Goto(t, "inside", "outside")
    /\ lockHolder' = NoHolder
    /\ V(TheLock)
    /\ UNCHANGED waitQueue

WaiterFirst(t) == <<t>> \o waitQueue   \* fault
WaiterAdded(t) == Append(waitQueue, t)

(* Condition::Wait: a new semaphore of value 0, queued before the lock is  *)
(* released; then P on it; then acquire the lock again and delete it.      *)
Wait(t) ==
    /\ lockHolder = t
    /\ Goto(t, "inside", "sleep")
    /\ waitQueue' = WaiterAdded(t)
    /\ lockHolder' = NoHolder
    /\ value' = [value EXCEPT ![t] = 0, ![TheLock] = @ + 1]
    /\ queue' = [queue EXCEPT ![t] = <<>>, ![TheLock] = WithoutFront(@)]
    /\ blocked' = blocked \ FrontOf(TheLock)

Sleep(t) ==
    /\ P(t, t, "sleep", "reacquire")
    /\ UNCHANGED <<lockHolder, waitQueue>>

Reacquire(t) ==
    /\ P(t, TheLock, "reacquire", "reacquired")
    /\ UNCHANGED <<lockHolder, waitQueue>>

DeleteWaiter(t) ==
    /\ Goto(t, "reacquired", "inside")
    /\ lockHolder' = t
    /\ UNCHANGED <<value, queue, blocked, waitQueue>>

WaiterLeft == waitQueue                \* fault
WaiterRemoved == Tail(waitQueue)

(* Condition::Signal: V on the semaphore of the first waiter, if any.      *)
Wake ==
    /\ waitQueue # <<>>
    /\ V(Head(waitQueue))
    /\ waitQueue' = WaiterRemoved
    /\ UNCHANGED lockHolder

NoWaiter ==
    /\ waitQueue = <<>>
    /\ UNCHANGED <<value, queue, blocked, lockHolder, waitQueue>>

Signal(t) ==
    /\ lockHolder = t
    /\ Goto(t, "inside", "inside")
    /\ Wake \/ NoWaiter

(* Condition::Broadcast: while (!waitQueue->IsEmpty()) Signal.             *)
CallBroadcast(t) ==
    /\ Goto(t, "inside", "broadcast")
    /\ UNCHANGED <<value, queue, blocked, lockHolder, waitQueue>>

Broadcast(t) ==
    \/ lockHolder = t /\ Goto(t, "broadcast", "broadcast") /\ Wake
    \/ Goto(t, "broadcast", "inside") /\ NoWaiter

Next ==
    \E t \in Threads :
        \/ CallAcquire(t) \/ Acquire(t) \/ SetHolder(t) \/ Release(t)
        \/ Wait(t) \/ Sleep(t) \/ Reacquire(t) \/ DeleteWaiter(t)
        \/ Signal(t) \/ CallBroadcast(t) \/ Broadcast(t)

Spec == Init /\ [][Next]_vars

-----------------------------------------------------------------------------
(* Type invariant; the value of a semaphore is "always >= 0" (synch.h).    *)
TypeOK ==
    /\ value \in [Semaphores -> Nat]
    /\ queue \in [Semaphores -> Seq(Threads)]
    /\ blocked \subseteq Threads
    /\ lockHolder \in Threads \cup {Nobody}
    /\ waitQueue \in Seq(Threads)
    /\ pc \in [Threads -> Locations]

(* Mutual exclusion, and the assertions of Release, Wait and Signal: one   *)
(* thread at a time has passed P on the lock, exactly when its semaphore   *)
(* is 0, and lockHolder names that thread whenever it is past the          *)
(* assignment, although P and the assignment are two steps.                *)
Owners == {t \in Threads : pc[t] \in {"acquired", "inside", "broadcast", "reacquired"}}

LockInv ==
    /\ \A t, u \in Owners : t = u
    /\ value[TheLock] = IF Owners = {} THEN 1 ELSE 0
    /\ \A t \in Threads : pc[t] \in {"inside", "broadcast"} <=> lockHolder = t

(* The semaphore of a waiter is 0 until the waiter is signalled, then 1    *)
(* until it wakes, and a thread is in the wait queue exactly when it is    *)
(* waiting and not yet signalled: so a signal sent between the release of  *)
(* the lock and the sleep is kept, no waiter is signalled twice, and no    *)
(* semaphore is used after it was deleted.                                 *)
Waiting == {t \in Threads : pc[t] = "sleep" /\ value[t] = 0}

WaiterInv ==
    /\ ToSet(waitQueue) = Waiting
    /\ IsInjective(waitQueue)
    /\ \A t \in Threads : value[t] \in {0, 1} /\ (pc[t] # "sleep" => value[t] = 0)

(* A blocked thread is in the queue of the semaphore on which it is in P,  *)
(* once, and in no other queue.                                            *)
InP(t, s) ==
    \/ s = TheLock /\ pc[t] \in {"acquire", "reacquire"}
    \/ s = t /\ pc[t] = "sleep"

QueueInv ==
    /\ \A s \in Semaphores :
          /\ ToSet(queue[s]) = {t \in blocked : InP(t, s)}
          /\ IsInjective(queue[s])
    /\ \A t \in blocked : \E s \in Semaphores : InP(t, s)

(* No lost wake-up, although the thread that V wakes re-tests the value    *)
(* and may find it taken by a thread that never slept: when the lock is    *)
(* free and threads sleep on it, one thread in P is awake; and no thread   *)
(* sleeps on a semaphore of its own that was signalled.                    *)
NoLostWakeup ==
    /\ value[TheLock] > 0 /\ queue[TheLock] # <<>> =>
          \E t \in Threads \ blocked : InP(t, TheLock)
    /\ \A t \in blocked : pc[t] = "sleep" => value[t] = 0

(* Lock and Condition implement the monitor: releasing the lock and going  *)
(* to sleep are atomic, and signals reach the waiters in their order.      *)
Abstract == INSTANCE Monitor WITH
    state <- [t \in Threads |->
                CASE pc[t] = "outside" -> "outside"
                  [] t \in Owners -> "inside"
                  [] t \in Waiting -> "waiting"
                  [] OTHER -> "entering"],
    waiting <- waitQueue

ImplementsMonitor == Abstract!Spec
=============================================================================
